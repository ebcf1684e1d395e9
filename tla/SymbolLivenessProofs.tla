------------------------ MODULE SymbolLivenessProofs ------------------------
(***************************************************************************)
(* For every program the evidence of a dead declaration is true, and where *)
(* the parser's owners account for what runs, the report is exact: what is *)
(* used is marked, and what is marked is used.  The walk marks all that    *)
(* the roots reach (the loop of Worklist); the closures, of exports,       *)
(* regions and what the language needs, are least closed sets.             *)
(***************************************************************************)
EXTENDS SymbolLiveness, SequenceTheorems, WellFoundedInduction, FiniteSetTheorems,
        TLAPS

-----------------------------------------------------------------------------
(* The loop of module Worklist: its invariant, one lemma per step, and     *)
(* what holds when it is idle.                                             *)

(* Nothing is marked, or waiting to be, that the roots do not reach.       *)
WalkSound ==
  \A S \in SUBSET Node :
     Range(roots) \subseteq S /\ ClosedUnder(Successors, S)
        => reachable \subseteq S /\ Range(todo) \subseteq S

(* A root, or a target of an expanded node, is marked or about to be.      *)
WalkFrontier ==
  /\ Range(roots) \subseteq reachable \cup Range(todo)
  /\ Range(queue) \subseteq reachable
  /\ \A n \in reachable :
        n \in Range(queue) \/ Range(outgoing[n]) \subseteq reachable \cup Range(todo)

WalkInv == WalkTypeOK /\ WalkSound /\ WalkFrontier

-----------------------------------------------------------------------------
(* Induction, by sets: its theorems in the library take a predicate, which *)
(* no prover can be given.                                                 *)

LEMMA LeastElement ==
  ASSUME NEW S, S \subseteq Nat, S # {}
  PROVE  \E x \in S : \A y \in S : x <= y
<1>1. PICK x \in S : \A y \in S : ~(<<y, x>> \in OpToRel(<, Nat))
  BY NatLessThanWellFounded, WFMin
<1>2. \A y \in S : ~(y < x)
  BY <1>1 DEF OpToRel
<1> QED
  BY <1>2

LEMMA SetInduction ==
  ASSUME NEW S, 0 \in S, \A k \in Nat : k \in S => k + 1 \in S
  PROVE  Nat \subseteq S
<1> SUFFICES ASSUME Nat \ S # {} PROVE FALSE
  OBVIOUS
<1>1. PICK k \in Nat \ S : \A j \in Nat \ S : k <= j
  BY LeastElement
<1>2. k # 0 /\ k - 1 \in Nat /\ ~(k <= k - 1) /\ (k - 1) + 1 = k
  BY <1>1
<1> QED
  BY <1>1, <1>2
-----------------------------------------------------------------------------

LEMMA RangeHeadTail ==
  ASSUME NEW S, NEW s \in Seq(S), s # <<>>
  PROVE  /\ Head(s) \in S
         /\ Tail(s) \in Seq(S)
         /\ Range(s) = {Head(s)} \cup Range(Tail(s))
<1>1. /\ Len(s) \in Nat \ {0}
      /\ Range(s) = {s[i] : i \in 1..Len(s)}
  BY EmptySeq, RangeEquality
<1>2. /\ Head(s) = s[1]
      /\ Head(s) \in S
      /\ Tail(s) \in Seq(S)
      /\ Len(Tail(s)) = Len(s) - 1
      /\ \A i \in 1..Len(Tail(s)) : Tail(s)[i] = s[i+1]
  BY HeadTailProperties
<1>3. Range(Tail(s)) = {s[i+1] : i \in 1..Len(s)-1}
  <2> DEFINE t == Tail(s)
  <2>1. t \in Seq(S) /\ Len(t) = Len(s) - 1
    BY <1>2
  <2>2. \A i \in 1..Len(s)-1 : t[i] = s[i+1]
    BY <1>2
  <2>3. Range(t) = {t[i] : i \in 1..Len(t)}
    BY <2>1, RangeEquality
  <2> HIDE DEF t
  <2>4. Range(t) = {t[i] : i \in 1..Len(s)-1}
    BY <2>1, <2>3
  <2>5. Range(t) = {s[i+1] : i \in 1..Len(s)-1}
    BY <2>2, <2>4
  <2> QED
    BY <2>5 DEF t
<1>4. \A i \in 1..Len(s) : i = 1 \/ (i-1 \in 1..Len(s)-1 /\ i = (i-1)+1)
  BY <1>1
<1>5. \A i \in 1..Len(s)-1 : i+1 \in 1..Len(s)
  BY <1>1
<1>6. 1 \in 1..Len(s)
  BY <1>1
<1> QED
  BY <1>1, <1>2, <1>3, <1>4, <1>5, <1>6

LEMMA RangeAppend ==
  ASSUME NEW S, NEW s \in Seq(S), NEW e \in S
  PROVE  /\ Append(s, e) \in Seq(S)
         /\ Range(Append(s, e)) = Range(s) \cup {e}
<1>1. /\ Len(s) \in Nat
      /\ Range(s) = {s[i] : i \in 1..Len(s)}
  BY LenProperties, RangeEquality
<1>2. /\ Append(s, e) \in Seq(S)
      /\ Len(Append(s, e)) = Len(s) + 1
      /\ \A i \in 1..Len(s) : Append(s, e)[i] = s[i]
      /\ Append(s, e)[Len(s) + 1] = e
  BY AppendProperties
<1>3. Range(Append(s, e)) = {Append(s, e)[i] : i \in 1..Len(s)+1}
  BY <1>2, RangeEquality
<1>4. /\ \A i \in 1..Len(s)+1 : i \in 1..Len(s) \/ i = Len(s)+1
      /\ \A i \in 1..Len(s) : i \in 1..Len(s)+1
      /\ Len(s)+1 \in 1..Len(s)+1
  BY <1>1
<1> QED
  BY <1>1, <1>2, <1>3, <1>4

LEMMA RangeEmpty == Range(<<>>) = {}
BY DEF Range

-----------------------------------------------------------------------------

(* Starting a walk establishes its invariant.                              *)
LEMMA StartWalkEstablishes ==
  ASSUME NEW graph \in [Node -> Seq(Node)], NEW rs \in Seq(Node),
         StartWalk(graph, rs)
  PROVE  WalkInv'
<1>1. WalkTypeOK'
  BY DEF StartWalk, WalkTypeOK
<1>2. WalkSound'
  BY DEF StartWalk, WalkSound, Successors
<1>3. WalkFrontier'
  BY RangeEmpty DEF StartWalk, WalkFrontier
<1> QED
  BY <1>1, <1>2, <1>3 DEF WalkInv

(* Marking a target keeps it.                                              *)
LEMMA MarkTargetPreserves ==
  ASSUME WalkInv, MarkTarget
  PROVE  WalkInv'
<1> DEFINE target == Head(todo)
<1>0. /\ WalkTypeOK /\ WalkSound /\ WalkFrontier
      /\ todo # <<>> /\ todo' = Tail(todo)
      /\ outgoing' = outgoing /\ roots' = roots
  BY DEF WalkInv, MarkTarget
<1>1. /\ target \in Node
      /\ todo' \in Seq(Node)
      /\ Range(todo) = {target} \cup Range(todo')
  BY <1>0, RangeHeadTail DEF WalkTypeOK
<1>2. /\ reachable' = reachable \cup {target}
      /\ queue' \in Seq(Node)
      /\ Range(queue) \subseteq Range(queue')
      /\ Range(queue') \subseteq Range(queue) \cup {target}
      /\ target \notin reachable => target \in Range(queue')
  <2>1. CASE target \in reachable
    BY <2>1, <1>0 DEF MarkTarget, WalkTypeOK
  <2>2. CASE target \notin reachable
    <3>1. /\ reachable' = reachable \cup {target}
          /\ queue' = Append(queue, target)
      BY <2>2 DEF MarkTarget
    <3>2. /\ queue' \in Seq(Node)
          /\ Range(queue') = Range(queue) \cup {target}
      BY <3>1, <1>0, <1>1, RangeAppend DEF WalkTypeOK
    <3> QED
      BY <3>1, <3>2
  <2> QED
    BY <2>1, <2>2
<1>3. WalkTypeOK'
  BY <1>0, <1>1, <1>2 DEF WalkTypeOK
<1>4. WalkSound'
  BY <1>0, <1>1, <1>2 DEF WalkSound, Successors
<1>5. WalkFrontier'
  <2>1. reachable' \cup Range(todo') = reachable \cup Range(todo)
    BY <1>1, <1>2
  <2>2. Range(roots') \subseteq reachable' \cup Range(todo')
    BY <2>1, <1>0 DEF WalkFrontier
  <2>3. Range(queue') \subseteq reachable'
    BY <1>0, <1>2 DEF WalkFrontier
  <2>4. ASSUME NEW n \in reachable'
        PROVE  \/ n \in Range(queue')
               \/ Range(outgoing'[n]) \subseteq reachable' \cup Range(todo')
    <3>1. CASE n \in reachable
      BY <3>1, <2>1, <1>0, <1>2 DEF WalkFrontier
    <3>2. CASE n \notin reachable
      BY <3>2, <1>2
    <3> QED
      BY <3>1, <3>2
  <2> QED
    BY <2>2, <2>3, <2>4 DEF WalkFrontier
<1> QED
  BY <1>3, <1>4, <1>5 DEF WalkInv

(* So does taking the next node from the queue.                            *)
LEMMA PopFrontPreserves ==
  ASSUME WalkInv, PopFront
  PROVE  WalkInv'
<1> DEFINE node == Head(queue)
<1>0. /\ WalkTypeOK /\ WalkSound /\ WalkFrontier
      /\ todo = <<>> /\ queue # <<>>
      /\ todo' = outgoing[node] /\ queue' = Tail(queue)
      /\ outgoing' = outgoing /\ roots' = roots /\ reachable' = reachable
  BY DEF WalkInv, PopFront
<1>1. /\ node \in Node
      /\ queue' \in Seq(Node)
      /\ Range(queue) = {node} \cup Range(queue')
  BY <1>0, RangeHeadTail DEF WalkTypeOK
<1>2. node \in reachable /\ Range(todo) = {}
  BY <1>0, <1>1, RangeEmpty DEF WalkFrontier
<1>3. WalkTypeOK'
  BY <1>0, <1>1 DEF WalkTypeOK
<1>4. WalkSound'
  BY <1>0, <1>1, <1>2 DEF WalkSound, Successors, ClosedUnder
<1>5. WalkFrontier'
  BY <1>0, <1>1, <1>2 DEF WalkFrontier
<1> QED
  BY <1>3, <1>4, <1>5 DEF WalkInv

(* An idle walk has marked exactly what the roots reach.                   *)
LEMMA IdleWalkIsExact ==
  ASSUME WalkInv, WalkIdle
  PROVE  reachable = ReachableFrom(Successors, Range(roots))
<1>1. /\ reachable \in SUBSET Node
      /\ Range(roots) \subseteq reachable
      /\ ClosedUnder(Successors, reachable)
  BY RangeEmpty
  DEF WalkInv, WalkTypeOK, WalkFrontier, WalkIdle, ClosedUnder, Successors
<1>2. ReachableFrom(Successors, Range(roots)) \subseteq reachable
  BY <1>1 DEF ReachableFrom
<1>3. reachable \subseteq ReachableFrom(Successors, Range(roots))
  BY <1>1 DEF WalkInv, WalkSound, ReachableFrom
<1> QED
  BY <1>2, <1>3

-----------------------------------------------------------------------------

(* What BuildSymbolLinks and BuildSymbolFindings make of their inputs.      *)
LinksOf(b) ==
  {[source |-> b.local, target |-> t[1], lane |-> t[2]] :
     t \in UNION {ExportTargets(b.source, n) : n \in ImportedNames(b)}}

ProgramLinks == UNION {LinksOf(b) : b \in {b \in program.bindings : b.source # NoFile}}

UnusedExports ==
  {e \in program.exports :
     /\ e.file \in program.reached \ (program.open \cup program.computed)
     /\ IsDeclared(e) /\ ~IsConsumed(e)}

DeadCandidates == {s \in Symbol : IsDeadCandidate(s)}

DeadGroups ==
  {{s \in group : ~IsImport(s)} : group \in DeadComponents(DeadCandidates)} \ {{}}

ProgramIsGiven == program \in Programs

LinksAreBuilt == pc # "link" => links = ProgramLinks

(* Before it starts, the walk has nothing to do; then its graph and roots  *)
(* are those of the program and of the links.                              *)
WalkedSymbols ==
  /\ WalkInv
  /\ pc \in {"walk", "done"} =>
       outgoing = SymbolGraph /\ Range(roots) = SymbolRoots

ReportIsExact ==
  pc = "done" => WalkIdle /\ unusedExports = UnusedExports /\ deadGroups = DeadGroups

IInv == TypeOK /\ ProgramIsGiven /\ LinksAreBuilt /\ WalkedSymbols /\ ReportIsExact
-----------------------------------------------------------------------------
(* Closure: what from leads to, as the least closed set                     *)

(* A step repeated from a is a function on the natural numbers.            *)
IsIteration(f, T, a, step) ==
  f \in [Nat -> T] /\ f[0] = a /\ \A k \in Nat : f[k + 1] = step[f[k]]

LEMMA IterationExists ==
  ASSUME NEW T, NEW a \in T, NEW step \in [T -> T]
  PROVE  \E f : IsIteration(f, T, a, step)
<1> DEFINE Prefixes(n) == {g \in [0..n -> T] :
                             g[0] = a /\ \A k \in 0..(n - 1) : g[k + 1] = step[g[k]]}
<1>1. ASSUME NEW n \in Nat
      PROVE  Prefixes(n) # {}
  <2> DEFINE Long == {m \in Nat : Prefixes(m) # {}}
  <2>1. 0 \in Long
    <3>1. [k \in 0..0 |-> a] \in Prefixes(0)
      OBVIOUS
    <3> QED
      BY <3>1
  <2>2. ASSUME NEW m \in Nat, m \in Long
        PROVE  m + 1 \in Long
    <3>1. PICK g : g \in Prefixes(m)
      BY <2>2
    <3> DEFINE h == [k \in 0..(m + 1) |-> IF k <= m THEN g[k] ELSE step[g[m]]]
    <3>2. h \in [0..(m + 1) -> T]
      BY <3>1
    <3>3. h[0] = a /\ \A k \in 0..((m + 1) - 1) : h[k + 1] = step[h[k]]
      BY <3>1
    <3>4. h \in Prefixes(m + 1)
      BY <3>2, <3>3
    <3> HIDE DEF Prefixes, h
    <3> QED
      BY <3>4
  <2> HIDE DEF Long
  <2>3. Nat \subseteq Long
    BY <2>1, <2>2, SetInduction
  <2> QED
    BY <2>3 DEF Long
<1>2. ASSUME NEW m \in Nat, NEW n \in Nat, m <= n, NEW g \in Prefixes(m), NEW h \in Prefixes(n)
      PROVE  g[m] = h[m]
  <2> DEFINE Same == {k \in Nat : k <= m => g[k] = h[k]}
  <2>1. 0 \in Same
    OBVIOUS
  <2>2. ASSUME NEW k \in Nat, k \in Same
        PROVE  k + 1 \in Same
    <3> SUFFICES ASSUME k + 1 <= m PROVE g[k + 1] = h[k + 1]
      OBVIOUS
    <3>1. k \in 0..(m - 1) /\ k \in 0..(n - 1) /\ k <= m
      BY <1>2
    <3>2. g[k + 1] = step[g[k]] /\ h[k + 1] = step[h[k]]
      BY <3>1
    <3> QED
      BY <2>2, <3>1, <3>2
  <2> HIDE DEF Same
  <2>3. m \in Same
    BY <2>1, <2>2, SetInduction
  <2> QED
    BY <2>3 DEF Same
<1> DEFINE prefix(n) == CHOOSE g : g \in Prefixes(n)
           f == [n \in Nat |-> prefix(n)[n]]
<1>3. \A n \in Nat : prefix(n) \in Prefixes(n)
  BY <1>1
<1> HIDE DEF prefix
<1>4. \A n \in Nat : prefix(n)[n] \in T
  BY <1>3
<1>5. f[0] = a
  BY <1>3
<1>6. ASSUME NEW k \in Nat
      PROVE  f[k + 1] = step[f[k]]
  <2>1. /\ prefix(k + 1) \in Prefixes(k + 1)
        /\ prefix(k) \in Prefixes(k)
    BY <1>3
  <2>2. prefix(k + 1)[k + 1] = step[prefix(k + 1)[k]]
    BY <2>1
  <2>3. prefix(k)[k] = prefix(k + 1)[k]
    <3> HIDE DEF Prefixes
    <3>1. k \in Nat /\ k + 1 \in Nat /\ k <= k + 1
      OBVIOUS
    <3> QED
      BY <2>1, <3>1, <1>2
  <2> QED
    BY <2>2, <2>3
<1> QED
  BY <1>4, <1>5, <1>6 DEF IsIteration

(* The rounds of Closure: each adds what the one before leads to.          *)

IsRounds(grown, D, succ, from) ==
  /\ grown \in [Nat -> SUBSET D]
  /\ grown[0] = from
  /\ \A k \in Nat : grown[k + 1] = grown[k] \cup UNION {succ[n] : n \in grown[k]}

LEMMA ClosureRounds ==
  ASSUME NEW D, IsFiniteSet(D), NEW succ, succ \in [D -> SUBSET D], NEW from, from \subseteq D
  PROVE  \E grown : IsRounds(grown, D, succ, from) /\ Closure(succ, from) = grown[Cardinality(D)]
<1> DEFINE T == SUBSET D
           Next1(S) == S \cup UNION {succ[n] : n \in S}
           Rounds(g) == [k \in Nat |-> IF k = 0 THEN from
                                      ELSE g[k - 1] \cup UNION {succ[n] : n \in g[k - 1]}]
           grown == CHOOSE g : g = Rounds(g)
           step == [S \in T |-> Next1(S)]
<1>1. Closure(succ, from) = grown[Cardinality(D)]
  <2>1. DOMAIN succ = D
    OBVIOUS
  <2> QED
    BY <2>1 DEF Closure
<1>2. step \in [T -> T]
  OBVIOUS
<1>12. from \in T
  OBVIOUS
<1>3. \A S \in T : step[S] = Next1(S)
  OBVIOUS
<1> HIDE DEF step, Next1, T
<1>4. PICK f : IsIteration(f, T, from, step)
  BY <1>2, <1>12, IterationExists
<1>5. \A k \in Nat : f[k + 1] = Next1(f[k])
  BY <1>3, <1>4 DEF IsIteration
<1>6. f = Rounds(f)
  <2>1. ASSUME NEW k \in Nat, k # 0 PROVE f[k] = Next1(f[k - 1])
    <3>1. k - 1 \in Nat /\ (k - 1) + 1 = k
      BY <2>1
    <3> QED
      BY <3>1, <1>5
  <2>2. \A k \in Nat : f[k] = Rounds(f)[k]
    BY <2>1, <1>4 DEF Next1, IsIteration
  <2> QED
    BY <2>2, <1>4 DEF T, IsIteration
<1>7. grown = Rounds(grown)
  <2> HIDE DEF Rounds
  <2> QED
    BY <1>6
<1> HIDE DEF grown
<1>8. grown[0] = from /\ \A k \in Nat : grown[k + 1] = Next1(grown[k])
  <2>1. grown[0] = Rounds(grown)[0] /\ \A k \in Nat : grown[k + 1] = Rounds(grown)[k + 1]
    <3> HIDE DEF Rounds
    <3> QED
      BY <1>7
  <2>2. Rounds(grown)[0] = from
    OBVIOUS
  <2>3. ASSUME NEW k \in Nat PROVE Rounds(grown)[k + 1] = Next1(grown[k])
    <3>1. k + 1 \in Nat /\ k + 1 # 0 /\ (k + 1) - 1 = k
      OBVIOUS
    <3> QED
      BY <3>1 DEF Next1
  <2> QED
    BY <2>1, <2>2, <2>3
<1>9. \A k \in Nat : grown[k] = f[k]
  <2> DEFINE Same == {k \in Nat : grown[k] = f[k]}
  <2>1. 0 \in Same /\ \A k \in Nat : k \in Same => k + 1 \in Same
    BY <1>4, <1>5, <1>8 DEF IsIteration
  <2> HIDE DEF Same
  <2>2. Nat \subseteq Same
    BY <2>1, SetInduction
  <2> QED
    BY <2>2 DEF Same
<1>10. Cardinality(D) \in Nat
  BY FS_CardinalityType
<1>11. Closure(succ, from) = f[Cardinality(D)]
  BY <1>1, <1>9, <1>10
<1> QED
  BY <1>4, <1>5, <1>11 DEF IsRounds, Next1, T, IsIteration

(* Closure is within every closed set around from.                         *)
LEMMA ClosureIsLeast ==
  ASSUME NEW D, IsFiniteSet(D), NEW succ, succ \in [D -> SUBSET D], NEW from, from \subseteq D,
         NEW S, from \subseteq S, \A n \in S \cap D : succ[n] \subseteq S
  PROVE  Closure(succ, from) \subseteq S
<1>1. PICK grown : IsRounds(grown, D, succ, from) /\ Closure(succ, from) = grown[Cardinality(D)]
  BY ClosureRounds
<1> DEFINE Inside == {k \in Nat : grown[k] \subseteq S}
<1>2. 0 \in Inside /\ \A k \in Nat : k \in Inside => k + 1 \in Inside
  BY <1>1 DEF IsRounds
<1> HIDE DEF Inside
<1>3. Cardinality(D) \in Inside
  BY <1>2, SetInduction, FS_CardinalityType
<1> QED
  BY <1>1, <1>3 DEF Inside

(* Closure holds from and is closed: D has too few members for a round to  *)
(* add something every time.                                               *)
LEMMA ClosureIsClosed ==
  ASSUME NEW D, IsFiniteSet(D), NEW succ, succ \in [D -> SUBSET D], NEW from, from \subseteq D
  PROVE  /\ from \subseteq Closure(succ, from)
         /\ Closure(succ, from) \subseteq D
         /\ \A n \in Closure(succ, from) : succ[n] \subseteq Closure(succ, from)
<1>1. PICK grown : IsRounds(grown, D, succ, from) /\ Closure(succ, from) = grown[Cardinality(D)]
  BY ClosureRounds
<1> DEFINE N == Cardinality(D)
<1>2. N \in Nat
  BY FS_CardinalityType
<1>3. \A S \in SUBSET D : IsFiniteSet(S) /\ Cardinality(S) \in Nat /\ Cardinality(S) <= N
  BY FS_Subset, FS_CardinalityType
<1> HIDE DEF N
<1>4. \A k \in Nat : from \subseteq grown[k]
  <2> DEFINE Around == {k \in Nat : from \subseteq grown[k]}
  <2>1. 0 \in Around /\ \A k \in Nat : k \in Around => k + 1 \in Around
    BY <1>1 DEF IsRounds
  <2> HIDE DEF Around
  <2>2. Nat \subseteq Around
    BY <2>1, SetInduction
  <2> QED
    BY <2>2 DEF Around
<1>5. \E k \in Nat : k <= N /\ grown[k + 1] = grown[k]
  <2> SUFFICES ASSUME \A k \in Nat : k <= N => grown[k + 1] # grown[k]
               PROVE  FALSE
    OBVIOUS
  <2> DEFINE Large == {k \in Nat : k <= N + 1 => k <= Cardinality(grown[k])}
  <2>1. 0 \in Large
    BY <1>1, <1>3 DEF IsRounds
  <2>2. ASSUME NEW k \in Nat, k \in Large
        PROVE  k + 1 \in Large
    <3> SUFFICES ASSUME k + 1 <= N + 1 PROVE k + 1 <= Cardinality(grown[k + 1])
      OBVIOUS
    <3>1. k <= N /\ k <= Cardinality(grown[k])
      BY <2>2, <1>2
    <3>2. grown[k] \subseteq grown[k + 1] /\ grown[k + 1] # grown[k]
      BY <1>1, <3>1 DEF IsRounds
    <3>3. grown[k] \in SUBSET D /\ grown[k + 1] \in SUBSET D
      BY <1>1 DEF IsRounds
    <3>4. Cardinality(grown[k]) < Cardinality(grown[k + 1])
      BY <1>3, <3>2, <3>3, FS_Subset
    <3> QED
      BY <1>3, <3>1, <3>3, <3>4
  <2> HIDE DEF Large
  <2>3. N + 1 \in Large
    BY <1>2, <2>1, <2>2, SetInduction
  <2>4. N + 1 <= Cardinality(grown[N + 1])
    BY <1>2, <2>3 DEF Large
  <2>5. Cardinality(grown[N + 1]) \in Nat /\ Cardinality(grown[N + 1]) <= N
    BY <1>1, <1>2, <1>3 DEF IsRounds
  <2> QED
    BY <1>2, <2>4, <2>5
<1>6. PICK k \in Nat : k <= N /\ grown[k + 1] = grown[k]
  BY <1>5
<1>7. \A j \in Nat : grown[k + j] = grown[k]
  <2> DEFINE Same == {j \in Nat : grown[k + j] = grown[k]}
  <2>1. 0 \in Same
    OBVIOUS
  <2>2. ASSUME NEW j \in Nat, j \in Same
        PROVE  j + 1 \in Same
    <3>1. k + j \in Nat /\ k + (j + 1) = (k + j) + 1
      OBVIOUS
    <3>2. grown[(k + j) + 1] = grown[k + j] \cup UNION {succ[n] : n \in grown[k + j]}
      BY <1>1, <3>1 DEF IsRounds
    <3>3. grown[k + 1] = grown[k] \cup UNION {succ[n] : n \in grown[k]}
      BY <1>1 DEF IsRounds
    <3> QED
      BY <1>6, <2>2, <3>1, <3>2, <3>3
  <2> HIDE DEF Same
  <2>3. Nat \subseteq Same
    BY <2>1, <2>2, SetInduction
  <2> QED
    BY <2>3 DEF Same
<1>8. grown[N] = grown[k]
  <2>1. N - k \in Nat /\ k + (N - k) = N
    BY <1>2, <1>6
  <2> QED
    BY <1>7, <2>1
<1>9. \A n \in grown[k] : succ[n] \subseteq grown[k]
  <2>1. grown[k + 1] = grown[k] \cup UNION {succ[n] : n \in grown[k]}
    BY <1>1 DEF IsRounds
  <2> QED
    BY <1>6, <2>1
<1> QED
  BY <1>1, <1>2, <1>4, <1>8, <1>9 DEF N, IsRounds
(* A step on: what a closure holds is its start or behind a successor.     *)
LEMMA ClosureSteps ==
  ASSUME NEW D, IsFiniteSet(D), NEW succ, succ \in [D -> SUBSET D], NEW x \in D
  PROVE  /\ x \in Closure(succ, {x})
         /\ \A y \in succ[x] : Closure(succ, {y}) \subseteq Closure(succ, {x})
         /\ \A z \in Closure(succ, {x}) :
              z = x \/ \E y \in succ[x] : z \in Closure(succ, {y})
<1> DEFINE below(y) == Closure(succ, {y})
<1>1. \A y \in D : /\ y \in below(y) /\ below(y) \subseteq D
                   /\ \A z \in below(y) : succ[z] \subseteq below(y)
  <2> SUFFICES ASSUME NEW y \in D
               PROVE  /\ y \in below(y) /\ below(y) \subseteq D
                      /\ \A z \in below(y) : succ[z] \subseteq below(y)
    OBVIOUS
  <2>1. {y} \subseteq D
    OBVIOUS
  <2> QED
    BY <2>1, ClosureIsClosed
<1>2. \A y \in D : \A S : y \in S /\ (\A n \in S \cap D : succ[n] \subseteq S) => below(y) \subseteq S
  <2> SUFFICES ASSUME NEW y \in D, NEW S, y \in S, \A n \in S \cap D : succ[n] \subseteq S
               PROVE  below(y) \subseteq S
    OBVIOUS
  <2>1. {y} \subseteq D /\ {y} \subseteq S
    OBVIOUS
  <2> QED
    BY <2>1, ClosureIsLeast
<1> HIDE DEF below
<1>3. ASSUME NEW y \in succ[x]
      PROVE  below(y) \subseteq below(x)
  BY <1>1, <1>2
<1>4. below(x) \subseteq {x} \cup UNION {below(y) : y \in succ[x]}
  <2> DEFINE S == {x} \cup UNION {below(y) : y \in succ[x]}
  <2>1. ASSUME NEW n \in S \cap D PROVE succ[n] \subseteq S
    <3>1. CASE n = x
      BY <1>1, <3>1
    <3>2. CASE \E y \in succ[x] : n \in below(y)
      BY <1>1, <3>2
    <3> QED
      BY <3>1, <3>2
  <2> HIDE DEF S
  <2>2. x \in S
    BY DEF S
  <2>3. below(x) \subseteq S
    BY <1>2, <2>1, <2>2
  <2> QED
    BY <2>3 DEF S
<1>5. /\ x \in below(x)
      /\ \A y \in succ[x] : below(y) \subseteq below(x)
      /\ \A z \in below(x) : z = x \/ \E y \in succ[x] : z \in below(y)
  BY <1>1, <1>3, <1>4
<1> QED
  BY <1>5 DEF below
-----------------------------------------------------------------------------
(* What the parser's facts are made of                                     *)

LEMMA ProgramFields ==
  ASSUME program \in Program
  PROVE  /\ program.references \in SUBSET Reference
         /\ program.bindings \in SUBSET Binding
         /\ program.exports \in SUBSET Export
         /\ program.regions \in [Region -> RegionFact]
BY DEF Program

LEMMA ExportTargetsType ==
  ASSUME program \in Program, NEW f, NEW name
  PROVE  ExportTargets(f, name) \in SUBSET (Symbol \X Lane)
<1>1. \A e \in program.exports :
        IsDeclared(e) => e.local \in Symbol /\ e.lane \in Lane
  BY ProgramFields DEF Export, IsDeclared
<1> QED
  BY <1>1 DEF ExportTargets

LEMMA LinksType ==
  ASSUME program \in Program
  PROVE  ProgramLinks \in SUBSET [source : Symbol, target : Symbol, lane : Lane]
<1>1. \A b \in program.bindings : b.local \in Symbol
  BY ProgramFields DEF Binding
<1>2. ASSUME NEW b \in program.bindings
      PROVE  LinksOf(b) \in SUBSET [source : Symbol, target : Symbol, lane : Lane]
  <2> DEFINE Targets == UNION {ExportTargets(b.source, n) : n \in ImportedNames(b)}
  <2> SUFFICES ASSUME NEW t \in Targets
               PROVE  b.local \in Symbol /\ t[1] \in Symbol /\ t[2] \in Lane
    BY DEF LinksOf
  <2>1. t \in Symbol \X Lane
    BY ExportTargetsType
  <2> QED
    BY <1>1, <2>1
<1> QED
  BY <1>2 DEF ProgramLinks

LEMMA EdgesType ==
  ASSUME TypeOK, NEW s
  PROVE  EdgesOf(s) \in SUBSET Node
<1>1. \A r \in program.references : r.target \in Symbol /\ r.usage \in Lane
  BY ProgramFields DEF TypeOK, Reference
<1>2. \A l \in links : l.target \in Symbol /\ l.lane \in Lane
  BY DEF TypeOK
<1> QED
  BY <1>1, <1>2, NodeAssumption DEF EdgesOf

LEMMA RootsType ==
  ASSUME TypeOK
  PROVE  SymbolRoots \in SUBSET Node
<1>1. ReexportRoots \in SUBSET Node
  <2>1. \A f, n : ExportTargets(f, n) \in SUBSET Node
    BY ExportTargetsType, NodeAssumption DEF TypeOK
  <2> QED
    BY <2>1 DEF ReexportRoots
<1>2. ReferenceRoots \in SUBSET Node
  <2>1. \A r \in program.references : r.target \in Symbol /\ r.usage \in Lane
    BY ProgramFields DEF TypeOK, Reference
  <2> QED
    BY <2>1, NodeAssumption DEF ReferenceRoots
<1>3. OpenExportRoots \in SUBSET Node
  <2>1. \A e \in OpenExports : IsDeclared(e) => e.local \in Symbol
    BY ProgramFields DEF TypeOK, Export, IsDeclared, OpenExports
  <2> QED
    BY <2>1, NodeAssumption DEF OpenExportRoots, Lane
<1> QED
  BY <1>1, <1>2, <1>3 DEF SymbolRoots

LEMMA GraphType ==
  ASSUME TypeOK
  PROVE  /\ SymbolGraph \in [Node -> Seq(Node)]
         /\ \A n \in Node : Range(SymbolGraph[n]) = EdgesOf(n[1])
         /\ ListOf[SymbolRoots] \in Seq(Node)
         /\ Range(ListOf[SymbolRoots]) = SymbolRoots
BY EdgesType, RootsType, ListAssumption DEF SymbolGraph

(* The graph and the roots depend on the program and the links only.       *)
LEMMA SameGraph ==
  ASSUME program' = program, links' = links
  PROVE  SymbolGraph' = SymbolGraph /\ SymbolRoots' = SymbolRoots
<1>1. SymbolGraph' = SymbolGraph
  BY DEF SymbolGraph, EdgesOf, Owner
<1>2. ReexportRoots' = ReexportRoots
  BY DEF ReexportRoots, ExportTargets, ExportedNames, OpenExports, IsDeclared,
         Forwards, Forwarded, Matches, StarSources
<1>3. ReferenceRoots' = ReferenceRoots
  BY DEF ReferenceRoots, ActiveRegions, EagerChildren, ModuleRegions
<1>4. OpenExportRoots' = OpenExportRoots
  BY DEF OpenExportRoots, OpenExports, IsDeclared
<1> QED
  BY <1>1, <1>2, <1>3, <1>4 DEF SymbolRoots

LEMMA SameLinks ==
  ASSUME program' = program
  PROVE  ProgramLinks' = ProgramLinks
BY DEF ProgramLinks, LinksOf, ExportTargets, ImportedNames, ExportedNames, IsDeclared,
       Forwards, Forwarded, Matches, StarSources

LEMMA SameReport ==
  ASSUME program' = program, links' = links, reachable' = reachable
  PROVE  UnusedExports' = UnusedExports /\ DeadGroups' = DeadGroups
<1>1. UnusedExports' = UnusedExports
  BY DEF UnusedExports, IsDeclared, IsConsumed
<1>2. DeadCandidates' = DeadCandidates
  BY DEF DeadCandidates, IsDeadCandidate
<1>3. DeadGroups' = DeadGroups
  BY <1>2 DEF DeadGroups, DeadComponents, EdgesOf, Owner, IsImport
<1> QED
  BY <1>1, <1>3
-----------------------------------------------------------------------------
(* The invariant                                                           *)

LEMMA InitEstablishes ==
  ASSUME Init
  PROVE  IInv
<1>1. TypeOK
  BY ProgramAssumption DEF Init, TypeOK, WalkTypeOK
<1>2. WalkInv
  BY <1>1, RangeEmpty DEF Init, TypeOK, WalkInv, WalkSound, WalkFrontier
<1> QED
  BY <1>1, <1>2
  DEF Init, IInv, ProgramIsGiven, LinksAreBuilt, WalkedSymbols, ReportIsExact

LEMMA BuildSymbolLinksPreserves ==
  ASSUME IInv, BuildSymbolLinks
  PROVE  IInv'
<1>1. links' = ProgramLinks /\ program' = program /\ pc' = "mark"
  BY DEF BuildSymbolLinks, ProgramLinks, LinksOf
<1>2. TypeOK'
  BY <1>1, LinksType DEF IInv, TypeOK, BuildSymbolLinks, walkVars, WalkTypeOK
<1>3. WalkInv'
  BY DEF IInv, WalkedSymbols, BuildSymbolLinks, walkVars, WalkInv, WalkTypeOK,
         WalkSound, WalkFrontier, ClosedUnder, Successors
<1>4. LinksAreBuilt'
  BY <1>1, SameLinks DEF LinksAreBuilt
<1> QED
  BY <1>1, <1>2, <1>3, <1>4 DEF IInv, ProgramIsGiven, WalkedSymbols, ReportIsExact

LEMMA StartMarkingPreserves ==
  ASSUME IInv, StartMarking
  PROVE  IInv'
<1>1. WalkInv'
  BY GraphType, StartWalkEstablishes DEF IInv, StartMarking
<1>2. TypeOK'
  BY <1>1 DEF IInv, TypeOK, StartMarking, WalkInv
<1>3. outgoing' = SymbolGraph' /\ Range(roots') = SymbolRoots'
  BY GraphType, SameGraph DEF IInv, StartMarking, StartWalk
<1>4. LinksAreBuilt' /\ ProgramIsGiven'
  BY SameLinks DEF IInv, LinksAreBuilt, ProgramIsGiven, StartMarking
<1> QED
  BY <1>1, <1>2, <1>3, <1>4 DEF IInv, WalkedSymbols, ReportIsExact, StartMarking

LEMMA WalkPreserves ==
  ASSUME IInv, Walk
  PROVE  IInv'
<1>1. WalkInv'
  BY MarkTargetPreserves, PopFrontPreserves DEF IInv, WalkedSymbols, Walk, WalkStep
<1>2. TypeOK'
  BY <1>1 DEF IInv, TypeOK, Walk, WalkInv
<1>3. outgoing' = outgoing /\ roots' = roots
  BY DEF Walk, WalkStep, MarkTarget, PopFront
<1>4. LinksAreBuilt' /\ ProgramIsGiven'
  BY SameLinks DEF IInv, LinksAreBuilt, ProgramIsGiven, Walk
<1>5. WalkedSymbols'
  BY <1>1, <1>3, SameGraph DEF IInv, WalkedSymbols, Walk
<1> QED
  BY <1>2, <1>4, <1>5 DEF IInv, ReportIsExact, Walk

LEMMA BuildSymbolFindingsPreserves ==
  ASSUME IInv, BuildSymbolFindings
  PROVE  IInv'
<1>1. unusedExports' = UnusedExports /\ deadGroups' = DeadGroups
  BY DEF BuildSymbolFindings, UnusedExports, DeadGroups, DeadCandidates
<1>2. program' = program /\ links' = links /\ UNCHANGED walkVars /\ WalkIdle /\ pc' = "done"
      /\ pc = "walk"
  BY DEF BuildSymbolFindings
<1>3. deadGroups' \subseteq (SUBSET Symbol) \ {{}}
  <2>1. \A group \in DeadComponents(DeadCandidates) : group \subseteq DeadCandidates
    BY DEF DeadComponents
  <2> QED
    BY <1>1, <2>1 DEF DeadGroups, DeadCandidates
<1>4. TypeOK'
  BY <1>1, <1>2, <1>3 DEF IInv, TypeOK, UnusedExports, walkVars, WalkTypeOK
<1>5. WalkInv'
  BY <1>2 DEF IInv, WalkedSymbols, walkVars, WalkInv, WalkTypeOK,
              WalkSound, WalkFrontier, ClosedUnder, Successors
<1>6. WalkedSymbols'
  BY <1>2, <1>5, SameGraph DEF IInv, WalkedSymbols, walkVars
<1>7. ReportIsExact'
  BY <1>1, <1>2, SameReport DEF ReportIsExact, walkVars, WalkIdle
<1>8. LinksAreBuilt' /\ ProgramIsGiven'
  BY <1>2, SameLinks DEF IInv, LinksAreBuilt, ProgramIsGiven
<1> QED
  BY <1>4, <1>6, <1>7, <1>8 DEF IInv

LEMMA StutterPreserves ==
  ASSUME IInv, UNCHANGED vars
  PROVE  IInv'
<1>1. TypeOK' /\ ProgramIsGiven'
  BY DEF IInv, vars, walkVars, TypeOK, WalkTypeOK, ProgramIsGiven
<1>2. WalkInv'
  BY DEF IInv, vars, WalkedSymbols, walkVars, WalkInv, WalkTypeOK,
         WalkSound, WalkFrontier, ClosedUnder, Successors
<1>3. LinksAreBuilt'
  BY SameLinks DEF IInv, vars, LinksAreBuilt
<1>4. ReportIsExact'
  BY SameReport DEF IInv, vars, walkVars, ReportIsExact, WalkIdle
<1>5. WalkedSymbols'
  BY <1>2, SameGraph DEF IInv, vars, walkVars, WalkedSymbols
<1> QED
  BY <1>1, <1>3, <1>4, <1>5 DEF IInv

(* The inductive invariant: the links are the program's, the walk is over  *)
(* the graph they make, and the report is what its marks say.              *)
THEOREM SymbolInvariant == Spec => []IInv
<1>1. Init => IInv
  BY InitEstablishes
<1>2. IInv /\ [Next]_vars => IInv'
  BY BuildSymbolLinksPreserves, StartMarkingPreserves, WalkPreserves,
     BuildSymbolFindingsPreserves, StutterPreserves DEF Next, Done
<1> QED
  BY <1>1, <1>2, PTL DEF Spec
-----------------------------------------------------------------------------

(* Every variable of the symbol analysis keeps to its type.                *)
THEOREM SymbolTypesCorrect == Spec => []TypeOK
<1>1. IInv => TypeOK
  BY DEF IInv
<1> QED
  BY SymbolInvariant, <1>1, PTL

(* When the walk is over, the marks are exact.                             *)
LEMMA MarksAreExact ==
  ASSUME IInv, pc = "done"
  PROVE  /\ reachable = ReachableFrom(Successors, SymbolRoots)
         /\ SymbolRoots \subseteq reachable
         /\ \A n \in reachable : EdgesOf(n[1]) \subseteq reachable
<1>1. WalkInv /\ WalkIdle /\ outgoing = SymbolGraph /\ Range(roots) = SymbolRoots
  BY DEF IInv, WalkedSymbols, ReportIsExact
<1>2. reachable = ReachableFrom(Successors, SymbolRoots)
  BY <1>1, IdleWalkIsExact
<1>3. /\ SymbolRoots \subseteq reachable
      /\ reachable \subseteq Node
      /\ \A n \in reachable : Range(outgoing[n]) \subseteq reachable
  BY <1>1, RangeEmpty DEF WalkInv, WalkTypeOK, WalkFrontier, WalkIdle
<1>4. \A n \in Node : Range(SymbolGraph[n]) = EdgesOf(n[1])
  BY GraphType DEF IInv
<1> QED
  BY <1>1, <1>2, <1>3, <1>4

(* What is reported is not marked.                                         *)
LEMMA ReportedAreUnmarked ==
  ASSUME IInv, pc = "done"
  PROVE  \A s \in UNION deadGroups : s \in DeadCandidates /\ ~IsLive(s)
<1>1. \A group \in DeadComponents(DeadCandidates) : group \subseteq DeadCandidates
  BY DEF DeadComponents
<1>2. \A s \in UNION deadGroups : s \in DeadCandidates
  BY <1>1 DEF IInv, ReportIsExact, DeadGroups
<1> QED
  BY <1>2 DEF DeadCandidates, IsDeadCandidate, IsLive

(* No active region, no live importer and no live declaration mentions a   *)
(* declaration that is reported dead.                                      *)
THEOREM DeadDeclarationsHaveNoLiveUse == Spec => []DeadHasNoLiveUse
<1>1. IInv => DeadHasNoLiveUse
  <2> SUFFICES ASSUME IInv, pc = "done", NEW s \in UNION deadGroups
               PROVE  /\ \A r \in program.references :
                           r.target = s => r.region \notin ActiveRegions /\ ~IsLive(Owner(r))
                      /\ \A l \in links : l.target = s => ~IsLive(l.source)
    BY DEF DeadHasNoLiveUse
  <2>1. \A lane \in Lane : <<s, lane>> \notin reachable
    BY ReportedAreUnmarked DEF IsLive
  <2>2. ASSUME NEW o, IsLive(o), NEW t, NEW lane \in Lane, <<t, lane>> \in EdgesOf(o)
        PROVE  <<t, lane>> \in reachable
    BY <2>2, MarksAreExact DEF IsLive
  <2>3. ASSUME NEW r \in program.references, r.target = s
        PROVE  r.region \notin ActiveRegions /\ ~IsLive(Owner(r))
    <3>1. r.usage \in Lane
      BY ProgramFields DEF IInv, TypeOK, Reference
    <3>2. r.region \notin ActiveRegions
      BY <2>1, <2>3, <3>1, MarksAreExact DEF SymbolRoots, ReferenceRoots
    <3>3. <<r.target, r.usage>> \in EdgesOf(Owner(r))
      BY DEF EdgesOf
    <3> QED
      BY <2>1, <2>2, <2>3, <3>1, <3>2, <3>3
  <2>4. ASSUME NEW l \in links, l.target = s
        PROVE  ~IsLive(l.source)
    <3>1. l.lane \in Lane
      BY DEF IInv, TypeOK
    <3>2. <<l.target, l.lane>> \in EdgesOf(l.source)
      BY DEF EdgesOf
    <3> QED
      BY <2>1, <2>2, <2>4, <3>1, <3>2
  <2> QED
    BY <2>3, <2>4
<1> QED
  BY SymbolInvariant, <1>1, PTL
-----------------------------------------------------------------------------
(* What export declarations lead to                                        *)

Facts == program \in Program /\ WellResolved(program)

LEMMA ProgramFacts == IInv => Facts
BY ResolvedAssumption DEF IInv, TypeOK, ProgramIsGiven, Facts

LEMMA ExportFacts ==
  ASSUME Facts, NEW e \in program.exports
  PROVE  /\ e.file \in File
         /\ e.star <=> e.name \notin ExportName
         /\ e.source # NoFile => e.source \in File
         /\ e.imported # AllNames => e.imported \in ExportName
         /\ IsDeclared(e) => /\ e.local \in Symbol /\ e.lane \in Lane
                             /\ ~e.star /\ e.source = NoFile
                             /\ program.home[e.local] = e.file
         /\ e.file \in program.reached /\ e.source # NoFile => e.source \in program.reached
<1>1. e \in Export
  BY ProgramFields DEF Facts
<1>2. /\ e.star <=> e.name = AllNames
      /\ e.local # NoSymbol =>
           program.home[e.local] = e.file /\ e.source = NoFile /\ ~e.star
      /\ e.file \in program.reached /\ e.source # NoFile => e.source \in program.reached
  BY DEF Facts, WellResolved
<1> QED
  BY <1>1, <1>2, NothingAssumption DEF Export, IsDeclared

LEMMA ForwardsType ==
  ASSUME Facts
  PROVE  /\ Forwards \in [File \X ExportName -> SUBSET (File \X ExportName)]
         /\ IsFiniteSet(File \X ExportName)
<1>1. ASSUME NEW n \in ExportName, NEW e \in program.exports, e.source # NoFile
      PROVE  Forwarded(e, n) \in File \X ExportName
  BY <1>1, ExportFacts DEF Forwarded
<1>2. IsFiniteSet(File \X ExportName)
  BY FiniteAssumption, FS_Product
<1>3. ASSUME NEW at \in File \X ExportName
      PROVE  {Forwarded(e, at[2]) : e \in {e \in program.exports :
                 Matches(e, at[1], at[2]) /\ e.source # NoFile}} \in SUBSET (File \X ExportName)
  BY <1>1
<1> QED
  BY <1>2, <1>3 DEF Forwards

(* A file's own declaration is behind its export.                          *)
LEMMA OwnTarget ==
  ASSUME Facts, NEW e \in program.exports, IsDeclared(e)
  PROVE  /\ <<e.file, e.name>> \in File \X ExportName
         /\ <<e.local, e.lane>> \in ExportTargets(e.file, e.name)
<1>1. <<e.file, e.name>> \in File \X ExportName
  BY ExportFacts
<1>2. <<e.file, e.name>> \in Closure(Forwards, {<<e.file, e.name>>})
  BY <1>1, ForwardsType, ClosureSteps
<1>3. Matches(e, e.file, e.name)
  BY DEF Matches
<1> DEFINE at == <<e.file, e.name>>
<1>4. at[1] = e.file /\ at[2] = e.name
  OBVIOUS
<1> HIDE DEF at
<1>5. at \in Closure(Forwards, {<<e.file, e.name>>}) /\ Matches(e, at[1], at[2])
  BY <1>2, <1>3, <1>4 DEF at
<1> QED
  BY <1>1, <1>5 DEF ExportTargets

(* A declaration behind an export is its file's own, or behind what one of *)
(* the file's export declarations forwards to; and the other way round.    *)
LEMMA TargetSteps ==
  ASSUME Facts, NEW f \in File, NEW n \in ExportName
  PROVE  /\ \A e \in program.exports :
              Matches(e, f, n) /\ e.source # NoFile =>
                ExportTargets(Forwarded(e, n)[1], Forwarded(e, n)[2]) \subseteq ExportTargets(f, n)
         /\ \A t \in ExportTargets(f, n) :
              \E e \in program.exports :
                /\ Matches(e, f, n)
                /\ \/ IsDeclared(e) /\ t = <<e.local, e.lane>>
                   \/ /\ e.source # NoFile
                      /\ t \in ExportTargets(Forwarded(e, n)[1], Forwarded(e, n)[2])
<1> DEFINE x == <<f, n>>
           below(y) == Closure(Forwards, {y})
           declared(y) == {<<e.local, e.lane>> : e \in {e \in program.exports :
                             IsDeclared(e) /\ Matches(e, y[1], y[2])}}
<1>1. x \in File \X ExportName /\ x[1] = f /\ x[2] = n
  OBVIOUS
<1>2. Forwards[x] = {Forwarded(e, n) : e \in {e \in program.exports :
                       Matches(e, f, n) /\ e.source # NoFile}}
  BY <1>1 DEF Forwards
<1>3. /\ x \in below(x)
      /\ \A y \in Forwards[x] : below(y) \subseteq below(x)
      /\ \A z \in below(x) : z = x \/ \E y \in Forwards[x] : z \in below(y)
  BY <1>1, ForwardsType, ClosureSteps
<1>4. \A g, m : ExportTargets(g, m) = UNION {declared(y) : y \in below(<<g, m>>)}
  BY DEF ExportTargets
<1>5. ASSUME NEW y \in Forwards[x]
      PROVE  y = <<y[1], y[2]>> /\ ExportTargets(y[1], y[2]) = UNION {declared(z) : z \in below(y)}
  <2>1. y \in File \X ExportName
    BY <1>1, ForwardsType
  <2>2. y = <<y[1], y[2]>>
    BY <2>1
  <2> QED
    BY <1>4, <2>2
<1>6. ExportTargets(f, n) = UNION {declared(y) : y \in below(x)}
  BY <1>4
<1>7. ASSUME NEW e \in program.exports, Matches(e, f, n), e.source # NoFile
      PROVE  ExportTargets(Forwarded(e, n)[1], Forwarded(e, n)[2]) \subseteq ExportTargets(f, n)
  <2>1. Forwarded(e, n) \in Forwards[x]
    BY <1>2, <1>7
  <2> HIDE DEF below, declared, x
  <2> QED
    BY <1>3, <1>5, <1>6, <2>1
<1>8. ASSUME NEW t \in ExportTargets(f, n)
      PROVE  \E e \in program.exports :
                /\ Matches(e, f, n)
                /\ \/ IsDeclared(e) /\ t = <<e.local, e.lane>>
                   \/ /\ e.source # NoFile
                      /\ t \in ExportTargets(Forwarded(e, n)[1], Forwarded(e, n)[2])
  <2>1. PICK z \in below(x) : t \in declared(z)
    <3> HIDE DEF below, declared
    <3> QED
      BY <1>6
  <2>2. CASE z = x
    BY <1>1, <2>1, <2>2
  <2>3. CASE \E y \in Forwards[x] : z \in below(y)
    <3>1. PICK y \in Forwards[x] : z \in below(y)
      BY <2>3
    <3>2. t \in ExportTargets(y[1], y[2])
      <4> HIDE DEF below, declared, x
      <4> QED
        BY <1>5, <2>1, <3>1
    <3> QED
      BY <1>2, <3>1, <3>2
  <2> QED
    BY <1>3, <2>1, <2>2, <2>3
<1> QED
  BY <1>7, <1>8

(* A name with a declaration behind it is one that the file exports.       *)
LEMMA TargetsAreNamed ==
  ASSUME Facts, NEW f \in File, NEW n \in ExportName, ExportTargets(f, n) # {}
  PROVE  n \in ExportedNames(f)
<1> SUFFICES ASSUME n \notin ExportedNames(f) PROVE FALSE
  OBVIOUS
<1>1. /\ StarSources \in [File -> SUBSET File] /\ {f} \subseteq File /\ IsFiniteSet(File)
      /\ \A g \in File, e \in program.exports :
           e.file = g /\ e.star /\ e.source # NoFile => e.source \in StarSources[g]
  BY ExportFacts, FiniteAssumption DEF StarSources
<1> DEFINE G == Closure(StarSources, {f})
           S == {at \in File \X ExportName : at[1] \in G /\ at[2] = n}
<1>2. /\ f \in G /\ G \subseteq File
      /\ \A g \in G : StarSources[g] \subseteq G
  BY <1>1, ClosureIsClosed
<1>3. \A e \in program.exports : e.file \in G /\ ~e.star => e.name # n
  BY DEF ExportedNames
<1> HIDE DEF G
<1>4. ASSUME NEW at \in S
      PROVE  /\ Forwards[at] \subseteq S
             /\ \A e \in program.exports : Matches(e, at[1], at[2]) => ~IsDeclared(e)
  <2>1. ASSUME NEW e \in program.exports, Matches(e, at[1], at[2])
        PROVE  e.star /\ e.file \in G
    BY <1>3, <2>1 DEF Matches
  <2>2. ASSUME NEW e \in program.exports, Matches(e, at[1], at[2]), e.source # NoFile
        PROVE  Forwarded(e, at[2]) \in S
    <3>1. e.source \in G /\ e.source \in File
      BY <1>1, <1>2, <2>1, <2>2, ExportFacts DEF Matches
    <3> QED
      BY <2>1, <2>2, <3>1 DEF Forwarded
  <2>3. \A e \in program.exports : Matches(e, at[1], at[2]) => ~IsDeclared(e)
    BY <2>1, ExportFacts
  <2> HIDE DEF S
  <2>4. at \in File \X ExportName
    BY DEF S
  <2> QED
    BY <2>2, <2>3, <2>4 DEF Forwards
<1>5. <<f, n>> \in S
  BY <1>2
<1> HIDE DEF S
<1>6. Closure(Forwards, {<<f, n>>}) \subseteq S
  <2>1. {<<f, n>>} \subseteq S /\ {<<f, n>>} \subseteq File \X ExportName
    BY <1>5
  <2> QED
    BY <1>4, <2>1, ForwardsType, ClosureIsLeast
<1> QED
  BY <1>4, <1>6 DEF ExportTargets

(* Behind an export of a reached file are declarations of reached files.   *)
LEMMA TargetsAreReached ==
  ASSUME Facts, NEW f \in File \cap program.reached, NEW n \in ExportName,
         NEW t \in ExportTargets(f, n)
  PROVE  /\ t = <<t[1], t[2]>> /\ t[1] \in Symbol /\ t[2] \in Lane
         /\ program.home[t[1]] \in program.reached
<1> DEFINE S == {at \in File \X ExportName : at[1] \in program.reached}
<1>1. ASSUME NEW at \in S
      PROVE  /\ Forwards[at] \subseteq S
             /\ \A e \in program.exports : Matches(e, at[1], at[2]) => e.file \in program.reached
  <2>1. at \in File \X ExportName /\ at[1] \in program.reached
    OBVIOUS
  <2>2. ASSUME NEW e \in program.exports, Matches(e, at[1], at[2]), e.source # NoFile
        PROVE  Forwarded(e, at[2]) \in S
    <3>1. Forwarded(e, at[2]) \in File \X ExportName /\ Forwarded(e, at[2])[1] = e.source
      BY <2>1, <2>2, ExportFacts DEF Forwarded
    <3>2. e.source \in program.reached
      BY <2>1, <2>2, ExportFacts DEF Matches
    <3> QED
      BY <3>1, <3>2
  <2> HIDE DEF S
  <2> QED
    BY <2>1, <2>2 DEF Forwards, Matches
<1>2. {<<f, n>>} \subseteq S /\ {<<f, n>>} \subseteq File \X ExportName
  OBVIOUS
<1> HIDE DEF S
<1>3. Closure(Forwards, {<<f, n>>}) \subseteq S
  BY <1>1, <1>2, ForwardsType, ClosureIsLeast
<1>4. PICK e \in program.exports : /\ IsDeclared(e) /\ t = <<e.local, e.lane>>
                                   /\ e.file \in program.reached
  BY <1>1, <1>3 DEF ExportTargets
<1> QED
  BY <1>4, ExportFacts

(* What the open files export, the walk starts from.                       *)
LEMMA OpenTargetsAreRoots ==
  ASSUME Facts, NEW f \in program.open, f \in File, NEW n \in ExportName
  PROVE  ExportTargets(f, n) \subseteq SymbolRoots
<1> SUFFICES ASSUME NEW t \in ExportTargets(f, n) PROVE t \in SymbolRoots
  OBVIOUS
<1>1. PICK e \in program.exports :
        /\ Matches(e, f, n)
        /\ \/ IsDeclared(e) /\ t = <<e.local, e.lane>>
           \/ /\ e.source # NoFile
              /\ t \in ExportTargets(Forwarded(e, n)[1], Forwarded(e, n)[2])
  BY TargetSteps
<1>2. e \in OpenExports /\ e.file = f /\ e.file \in program.reached
  BY <1>1 DEF OpenExports, Matches, Facts, WellResolved
<1>3. CASE IsDeclared(e) /\ t = <<e.local, e.lane>>
  <2>1. e.lane \in Lane
    BY <1>3, ExportFacts
  <2>2. t \in OpenExportRoots
    BY <1>2, <1>3, <2>1 DEF OpenExportRoots, Lane
  <2> QED
    BY <2>2 DEF SymbolRoots
<1>4. CASE e.source # NoFile /\ t \in ExportTargets(Forwarded(e, n)[1], Forwarded(e, n)[2])
  <2>1. ~IsDeclared(e)
    BY <1>4, ExportFacts
  <2>2. n \in IF ~e.star THEN {e.name}
              ELSE IF e.source = NoFile THEN {}
              ELSE ExportedNames(e.source)
    <3>1. CASE ~e.star
      BY <1>1, <3>1 DEF Matches
    <3>2. CASE e.star
      <4>1. t \in ExportTargets(e.source, n) /\ e.source \in File
        BY <1>4, <3>2, ExportFacts DEF Forwarded
      <4>2. n \in ExportedNames(e.source)
        BY <4>1, TargetsAreNamed
      <4> QED
        BY <1>4, <3>2, <4>2
    <3> QED
      BY <3>1, <3>2
  <2>3. t \in ReexportRoots
    BY <1>2, <2>1, <2>2 DEF ReexportRoots
  <2> QED
    BY <2>3 DEF SymbolRoots
<1> QED
  BY <1>1, <1>3, <1>4
-----------------------------------------------------------------------------
(* Which regions run                                                       *)

LEMMA RegionFacts ==
  ASSUME Facts
  PROVE  /\ EagerChildren \in [Region -> SUBSET Region] /\ IsFiniteSet(Region)
         /\ \A files : ModuleRegions(files) \subseteq Region
         /\ \A r \in Region : program.regions[r].file \in File
         /\ \A r \in Region : \A c \in EagerChildren[r] :
              program.regions[c].file = program.regions[r].file
<1>1. \A r \in Region : program.regions[r] \in RegionFact
  BY ProgramFields DEF Facts
<1>2. NoRegion \notin Region
  BY NothingAssumption
<1> QED
  BY <1>1, <1>2, FiniteAssumption
  DEF EagerChildren, ModuleRegions, RegionFact, Facts, WellResolved

(* The active regions are the top-level regions of the reached files.      *)
LEMMA ActiveIsReachedTopLevel ==
  ASSUME Facts
  PROVE  /\ ActiveRegions = {r \in TopLevel : program.regions[r].file \in program.reached}
         /\ ModuleRegions(program.reached) \subseteq ActiveRegions
         /\ TopLevel \subseteq Region
         /\ \A r \in ActiveRegions : EagerChildren[r] \subseteq ActiveRegions
<1>1. /\ ModuleRegions(program.reached) \subseteq ActiveRegions
      /\ ActiveRegions \subseteq Region
      /\ \A r \in ActiveRegions : EagerChildren[r] \subseteq ActiveRegions
  BY RegionFacts, ClosureIsClosed DEF ActiveRegions
<1>2. /\ ModuleRegions(File) \subseteq TopLevel
      /\ TopLevel \subseteq Region
      /\ \A r \in TopLevel : EagerChildren[r] \subseteq TopLevel
  BY RegionFacts, ClosureIsClosed DEF TopLevel
<1>3. ActiveRegions \subseteq {r \in TopLevel : program.regions[r].file \in program.reached}
  <2> DEFINE S == {r \in TopLevel : program.regions[r].file \in program.reached}
  <2>1. ModuleRegions(program.reached) \subseteq S
    BY <1>2, RegionFacts DEF ModuleRegions
  <2>2. \A r \in S \cap Region : EagerChildren[r] \subseteq S
    BY <1>2, RegionFacts
  <2> HIDE DEF S
  <2>3. ActiveRegions \subseteq S
    BY <2>1, <2>2, RegionFacts, ClosureIsLeast DEF ActiveRegions
  <2> QED
    BY <2>3 DEF S
<1>4. TopLevel \subseteq {r \in Region : program.regions[r].file \in program.reached => r \in ActiveRegions}
  <2> DEFINE S == {r \in Region : program.regions[r].file \in program.reached => r \in ActiveRegions}
  <2>1. ModuleRegions(File) \subseteq S
    BY <1>1 DEF ModuleRegions
  <2>2. \A r \in S \cap Region : EagerChildren[r] \subseteq S
    BY <1>1, RegionFacts
  <2> HIDE DEF S
  <2>3. TopLevel \subseteq S
    BY <2>1, <2>2, RegionFacts, ClosureIsLeast DEF TopLevel
  <2> QED
    BY <2>3 DEF S
<1> QED
  BY <1>1, <1>2, <1>3, <1>4
-----------------------------------------------------------------------------
(* What is used is marked                                                  *)

LEMMA EdgeCases ==
  ASSUME IInv, pc = "done", NEW s, NEW n \in EdgesOf(s)
  PROVE  \/ \E r \in program.references : Owner(r) = s /\ n = <<r.target, r.usage>>
         \/ \E b \in program.bindings : \E name \in ImportedNames(b) :
              b.local = s /\ b.source # NoFile /\ n \in ExportTargets(b.source, name)
<1>1. CASE n \in {<<r.target, r.usage>> : r \in {r \in program.references : Owner(r) = s}}
  BY <1>1
<1>2. CASE n \in {<<l.target, l.lane>> : l \in {l \in links : l.source = s}}
  <2>1. PICK l \in links : l.source = s /\ n = <<l.target, l.lane>>
    BY <1>2
  <2>2. PICK b \in program.bindings : b.source # NoFile /\ l \in LinksOf(b)
    BY <2>1 DEF IInv, LinksAreBuilt, ProgramLinks
  <2>3. PICK name \in ImportedNames(b) : \E t \in ExportTargets(b.source, name) :
          l = [source |-> b.local, target |-> t[1], lane |-> t[2]]
    BY <2>2 DEF LinksOf
  <2>6. PICK t \in ExportTargets(b.source, name) :
          l = [source |-> b.local, target |-> t[1], lane |-> t[2]]
    BY <2>3
  <2>4. t \in Symbol \X Lane
    BY ExportTargetsType, <2>6 DEF IInv, TypeOK
  <2>5. n = t /\ b.local = s
    BY <2>1, <2>6, <2>4
  <2> QED
    BY <2>2, <2>6, <2>5
<1> QED
  BY <1>1, <1>2 DEF EdgesOf

(* An import's local name leads to every declaration behind its export.    *)
LEMMA ImportEdges ==
  ASSUME IInv, pc = "done", NEW b \in program.bindings, b.source # NoFile,
         NEW n \in ExportName, b.name \in {n, AllNames}, NEW t \in ExportTargets(b.source, n)
  PROVE  /\ [source |-> b.local, target |-> t[1], lane |-> t[2]] \in links
         /\ t \in EdgesOf(b.local)
<1>1. b.source \in File
  BY ProgramFields DEF IInv, TypeOK, Binding
<1>2. n \in ImportedNames(b)
  BY <1>1, ProgramFacts, TargetsAreNamed, NothingAssumption DEF ImportedNames
<1> DEFINE l == [source |-> b.local, target |-> t[1], lane |-> t[2]]
<1>3. l \in links
  <2>1. l \in LinksOf(b)
    BY <1>2 DEF LinksOf
  <2> QED
    BY <2>1 DEF IInv, LinksAreBuilt, ProgramLinks
<1>4. t = <<t[1], t[2]>>
  <2>1. t \in Symbol \X Lane
    BY ExportTargetsType DEF IInv, TypeOK
  <2> QED
    BY <2>1
<1>5. <<l.target, l.lane>> \in EdgesOf(l.source)
  BY <1>3 DEF EdgesOf
<1> QED
  BY <1>3, <1>4, <1>5

LEMMA BindingFacts ==
  ASSUME Facts, NEW b \in program.bindings
  PROVE  /\ b.local \in Symbol
         /\ b.source # NoFile => b.source \in File
         /\ b.name # AllNames => b.name \in ExportName
         /\ program.home[b.local] \in program.reached /\ b.source # NoFile =>
              b.source \in program.reached
<1>1. b \in Binding
  BY ProgramFields DEF Facts
<1> QED
  BY <1>1 DEF Binding, Facts, WellResolved

LEMMA ReferenceFacts ==
  ASSUME Facts, NEW r \in program.references
  PROVE  /\ r.region \in Region /\ r.target \in Symbol /\ r.usage \in Lane
         /\ program.home[r.target] = program.regions[r.region].file
         /\ Owner(r) # NoSymbol => /\ Owner(r) \in Symbol
                                   /\ program.home[Owner(r)] = program.regions[r.region].file
         /\ program.regions[r.region].owner \in Symbol \cup {NoSymbol}
<1>1. r \in Reference /\ \A q \in Region : program.regions[q] \in RegionFact
  BY ProgramFields DEF Facts
<1>2. /\ program.home[r.target] = program.regions[r.region].file
      /\ r.within # NoSymbol => program.home[r.within] = program.regions[r.region].file
      /\ \A q \in Region : program.regions[q].owner # NoSymbol =>
           program.home[program.regions[q].owner] = program.regions[q].file
  BY DEF Facts, WellResolved
<1> QED
  BY <1>1, <1>2 DEF Reference, RegionFact, Owner

(* The walk stays in the reached files.                                    *)
LEMMA LiveIsReached ==
  ASSUME IInv, pc = "done", NEW s, IsLive(s)
  PROVE  s \in Symbol /\ program.home[s] \in program.reached
<1> DEFINE S == {n \in Node : program.home[n[1]] \in program.reached}
<1>1. Facts
  BY ProgramFacts
<1>2. \A t, lane : t \in Symbol /\ lane \in Lane /\ program.home[t] \in program.reached =>
        <<t, lane>> \in S
  BY NodeAssumption
<1>3. \A t : t = <<t[1], t[2]>> /\ t[1] \in Symbol /\ t[2] \in Lane
             /\ program.home[t[1]] \in program.reached => t \in S
  BY <1>2
<1>4. \A n \in S : n[1] \in Symbol /\ program.home[n[1]] \in program.reached
  BY NodeAssumption
<1>5. S \in SUBSET Node
  OBVIOUS
<1> HIDE DEF S
<1>6. SymbolRoots \subseteq S
  <2>1. ReexportRoots \subseteq S
    <3>1. ASSUME NEW e \in OpenExports, ~IsDeclared(e), NEW n, NEW t \in ExportTargets(e.file, n),
                 n \in IF ~e.star THEN {e.name}
                       ELSE IF e.source = NoFile THEN {}
                       ELSE ExportedNames(e.source)
          PROVE  t \in S
      <4>1. e \in program.exports /\ e.file \in program.open /\ e.file \in program.reached
        BY <1>1 DEF OpenExports, Facts, WellResolved
      <4>2. n \in ExportName
        <5>1. ~e.star => e.name \in ExportName
          BY <1>1, <4>1, ExportFacts
        <5>2. \A f : ExportedNames(f) \subseteq ExportName
          BY <1>1, ExportFacts DEF ExportedNames
        <5> QED
          BY <3>1, <5>1, <5>2
      <4>3. e.file \in File \cap program.reached
        BY <1>1, <4>1, ExportFacts
      <4> QED
        BY <1>1, <1>3, <4>2, <4>3, TargetsAreReached
    <3> QED
      BY <3>1 DEF ReexportRoots
  <2>2. ReferenceRoots \subseteq S
    <3> SUFFICES ASSUME NEW r \in program.references, r.region \in ActiveRegions
                 PROVE  <<r.target, r.usage>> \in S
      BY DEF ReferenceRoots
    <3> QED
      BY <1>1, <1>2, ReferenceFacts, ActiveIsReachedTopLevel
  <2>3. OpenExportRoots \subseteq S
    <3> SUFFICES ASSUME NEW t \in OpenExportRoots PROVE t \in S
      OBVIOUS
    <3>1. PICK e \in OpenExports :
            /\ IsDeclared(e) /\ e.file \in program.reached
            /\ t \in IF e.lane = "Type" THEN {<<e.local, "Type">>}
                     ELSE {<<e.local, "Runtime">>}
                            \cup {<<u, "Type">> : u \in {e.local} \cap program.typed}
      BY DEF OpenExportRoots
    <3>2. \E lane \in Lane : t = <<e.local, lane>>
      BY <3>1 DEF Lane
    <3> QED
      BY <1>1, <1>2, <3>1, <3>2, ExportFacts DEF OpenExports
  <2> QED
    BY <2>1, <2>2, <2>3 DEF SymbolRoots
<1>7. ASSUME NEW n \in S, NEW t \in EdgesOf(n[1])
      PROVE  t \in S
  <2>1. n[1] \in Symbol /\ program.home[n[1]] \in program.reached /\ n[1] # NoSymbol
    BY <1>4, NothingAssumption
  <2>2. ASSUME NEW r \in program.references, Owner(r) = n[1], t = <<r.target, r.usage>>
        PROVE  t \in S
    BY <1>1, <1>2, <2>1, <2>2, ReferenceFacts
  <2>3. ASSUME NEW b \in program.bindings, NEW name \in ImportedNames(b),
               b.local = n[1], b.source # NoFile, t \in ExportTargets(b.source, name)
        PROVE  t \in S
    <3>1. b.source \in File \cap program.reached
      BY <1>1, <2>1, <2>3, BindingFacts
    <3>2. name \in ExportName
      <4>1. \A f : ExportedNames(f) \subseteq ExportName
        BY <1>1, ExportFacts DEF ExportedNames
      <4> QED
        BY <1>1, <2>3, <4>1, BindingFacts DEF ImportedNames
    <3> QED
      BY <1>1, <1>3, <2>3, <3>1, <3>2, TargetsAreReached
  <2> QED
    BY <2>2, <2>3, EdgeCases
<1>8. ClosedUnder(Successors, S)
  <2>1. \A n \in Node : Successors[n] = EdgesOf(n[1])
    <3>1. outgoing = SymbolGraph
      BY DEF IInv, WalkedSymbols
    <3> QED
      BY <3>1, GraphType DEF IInv, Successors
  <2> QED
    BY <1>5, <1>7, <2>1 DEF ClosedUnder
<1>9. reachable \subseteq S
  BY <1>5, <1>6, <1>8, MarksAreExact DEF ReachableFrom
<1>10. PICK lane \in Lane : <<s, lane>> \in reachable
  BY DEF IsLive
<1>11. <<s, lane>>[1] = s /\ <<s, lane>> \in S
  BY <1>9, <1>10
<1> QED
  BY <1>4, <1>11

(* What is used, at most: live declarations, regions that are active or    *)
(* belong to a live declaration, and the exports of reached files behind   *)
(* which are only targets of some set.                                     *)
Around(targets) ==
  {<<"symbol", s>> : s \in {s \in Symbol : IsLive(s)}}
    \cup {<<"region", r>> : r \in {r \in Region :
            /\ program.regions[r].file \in program.reached
            /\ \/ r \in ActiveRegions
               \/ IsLive(program.regions[r].owner)}}
    \cup {<<"export", a[1], a[2]>> : a \in {a \in File \X ExportName :
            a[1] \in program.reached /\ ExportTargets(a[1], a[2]) \subseteq targets}}

LEMMA AroundMembers ==
  ASSUME NEW targets
  PROVE  /\ \A s : <<"symbol", s>> \in Around(targets) <=> s \in Symbol /\ IsLive(s)
         /\ \A r : <<"region", r>> \in Around(targets) <=>
              /\ r \in Region /\ program.regions[r].file \in program.reached
              /\ r \in ActiveRegions \/ IsLive(program.regions[r].owner)
         /\ \A f, n : <<"export", f, n>> \in Around(targets) <=>
              /\ f \in File \cap program.reached /\ n \in ExportName
              /\ ExportTargets(f, n) \subseteq targets
<1>1. \A s : <<"symbol", s>> \in Around(targets) <=> s \in Symbol /\ IsLive(s)
  BY DEF Around
<1>2. \A r : <<"region", r>> \in Around(targets) <=>
              /\ r \in Region /\ program.regions[r].file \in program.reached
              /\ r \in ActiveRegions \/ IsLive(program.regions[r].owner)
  BY DEF Around
<1>3. ASSUME NEW f, NEW n
      PROVE  <<"export", f, n>> \in Around(targets) <=>
              /\ f \in File \cap program.reached /\ n \in ExportName
              /\ ExportTargets(f, n) \subseteq targets
  <2>1. <<"export", f, n>> \in Around(targets) <=>
          \E a \in File \X ExportName :
            /\ <<"export", f, n>> = <<"export", a[1], a[2]>>
            /\ a[1] \in program.reached /\ ExportTargets(a[1], a[2]) \subseteq targets
    BY DEF Around
  <2>2. ASSUME f \in File, n \in ExportName
        PROVE  <<f, n>> \in File \X ExportName /\ <<f, n>>[1] = f /\ <<f, n>>[2] = n
    BY <2>2
  <2> QED
    BY <2>1, <2>2
<1> QED
  BY <1>1, <1>2, <1>3

LEMMA FiniteImage ==
  ASSUME NEW S, IsFiniteSet(S), NEW f
  PROVE  IsFiniteSet({f[x] : x \in S})
<1> DEFINE T == {f[x] : x \in S}
           g == [x \in S |-> f[x]]
<1>1. g \in Surjection(S, T)
  BY DEF Surjection
<1> HIDE DEF g, T
<1>2. IsFiniteSet(T)
  BY <1>1, FS_Surjection
<1> QED
  BY <1>2 DEF T

LEMMA EntityIsFinite == IsFiniteSet(Entity)
<1> DEFINE Sym == {<<"symbol", s>> : s \in Symbol}
           Reg == {<<"region", r>> : r \in Region}
           Exp == {<<"export", a[1], a[2]>> : a \in File \X ExportName}
           symbol == [s \in Symbol |-> <<"symbol", s>>]
           region == [r \in Region |-> <<"region", r>>]
           export == [a \in File \X ExportName |-> <<"export", a[1], a[2]>>]
<1>1. /\ Sym = {symbol[s] : s \in Symbol}
      /\ Reg = {region[r] : r \in Region}
      /\ Exp = {export[a] : a \in File \X ExportName}
  OBVIOUS
<1>2. IsFiniteSet(File \X ExportName)
  BY FiniteAssumption, FS_Product
<1> HIDE DEF symbol, region, export
<1>3. IsFiniteSet(Sym) /\ IsFiniteSet(Reg) /\ IsFiniteSet(Exp)
  <2> HIDE DEF Sym, Reg, Exp
  <2>1. IsFiniteSet({symbol[s] : s \in Symbol}) /\ IsFiniteSet({region[r] : r \in Region})
    BY FiniteAssumption, FiniteImage
  <2>2. IsFiniteSet({export[a] : a \in File \X ExportName})
    BY <1>2, FiniteImage
  <2> QED
    BY <1>1, <2>1, <2>2
<1>4. {<<"export", f, n>> : f \in File, n \in ExportName} = Exp
  <2>1. ASSUME NEW x \in Exp PROVE \E f \in File, n \in ExportName : x = <<"export", f, n>>
    OBVIOUS
  <2>2. ASSUME NEW f \in File, NEW n \in ExportName PROVE <<"export", f, n>> \in Exp
    <3>1. <<f, n>> \in File \X ExportName /\ <<f, n>>[1] = f /\ <<f, n>>[2] = n
      OBVIOUS
    <3> QED
      BY <3>1
  <2> HIDE DEF Exp
  <2> QED
    BY <2>1, <2>2
<1>5. Entity = (Sym \cup Reg) \cup Exp
  <2> HIDE DEF Exp
  <2> QED
    BY <1>4 DEF Entity
<1> HIDE DEF Sym, Reg, Exp
<1> QED
  BY <1>3, <1>5, FS_Union

(* What an export needs is behind one of its file's export declarations.   *)
LEMMA ExportNeeds ==
  ASSUME Facts, NEW f, NEW n, NEW y \in NeedsOfExport(f, n)
  PROVE  \/ \E e \in program.exports :
              /\ e.file = f /\ e.name = n /\ IsDeclared(e) /\ y = <<"symbol", e.local>>
         \/ \E e \in program.exports :
              /\ Matches(e, f, n) /\ e.source # NoFile
              /\ \/ ~e.star /\ e.imported # AllNames /\ y = <<"export", e.source, e.imported>>
                 \/ ~e.star /\ e.imported = AllNames /\ y \in AllExports(e.source)
                 \/ e.star /\ y = <<"export", e.source, n>>
<1> DEFINE explicit == {e \in program.exports : e.file = f /\ ~e.star /\ e.name = n}
           stars == {e \in program.exports : e.file = f /\ e.star /\ e.source # NoFile}
           Declared == {<<"symbol", e.local>> : e \in {e \in explicit : IsDeclared(e)}}
           Passed == UNION {IF e.imported = AllNames THEN AllExports(e.source)
                            ELSE {<<"export", e.source, e.imported>>} :
                            e \in {e \in explicit : e.source # NoFile}}
           Starred == {<<"export", e.source, n>> :
                         e \in IF explicit = {} /\ n # "default" THEN stars ELSE {}}
<1>0. NeedsOfExport(f, n) = Declared \cup Passed \cup Starred
  BY DEF NeedsOfExport
<1>1. CASE y \in Declared
  BY <1>1
<1>2. CASE y \in Passed
  <2>1. PICK e \in explicit : /\ e.source # NoFile
                              /\ y \in IF e.imported = AllNames THEN AllExports(e.source)
                                       ELSE {<<"export", e.source, e.imported>>}
    BY <1>2
  <2> QED
    BY <2>1 DEF Matches
<1>3. CASE y \in Starred
  <2>1. PICK e \in stars : y = <<"export", e.source, n>>
    BY <1>3
  <2> QED
    BY <2>1 DEF Matches
<1> HIDE DEF Declared, Passed, Starred
<1> QED
  BY <1>0, <1>1, <1>2, <1>3

LEMMA NeedsType ==
  ASSUME Facts, NEW loads \in SUBSET program.loads
  PROVE  /\ Needs(loads) \in [Entity -> SUBSET Entity]
         /\ IsFiniteSet(Entity)
         /\ \A s \in Symbol : <<"symbol", s>> \in Entity /\ Needs(loads)[<<"symbol", s>>] = NeedsOfSymbol(s)
         /\ \A r \in Region : <<"region", r>> \in Entity /\ Needs(loads)[<<"region", r>>] = NeedsOfRegion(r, loads)
         /\ \A f \in File, n \in ExportName :
              <<"export", f, n>> \in Entity /\ Needs(loads)[<<"export", f, n>>] = NeedsOfExport(f, n)
         /\ \A x \in Entity :
              \/ \E s \in Symbol : x = <<"symbol", s>>
              \/ \E r \in Region : x = <<"region", r>>
              \/ \E f \in File, n \in ExportName : x = <<"export", f, n>>
<1>1. /\ \A s \in Symbol : <<"symbol", s>> \in Entity
      /\ \A r \in Region : <<"region", r>> \in Entity
      /\ \A f \in File, n \in ExportName : <<"export", f, n>> \in Entity
      /\ \A x \in Entity :
              \/ \E s \in Symbol : x = <<"symbol", s>>
              \/ \E r \in Region : x = <<"region", r>>
              \/ \E f \in File, n \in ExportName : x = <<"export", f, n>>
  BY DEF Entity
<1>2. ASSUME NEW s \in Symbol PROVE NeedsOfSymbol(s) \subseteq Entity
  <2>1. \A b \in program.bindings : b.source # NoFile =>
          b.source \in File /\ (b.name # AllNames => b.name \in ExportName)
    BY BindingFacts
  <2> QED
    BY <1>1, <2>1 DEF NeedsOfSymbol, AllExports
<1>3. ASSUME NEW r \in Region PROVE NeedsOfRegion(r, loads) \subseteq Entity
  <2>1. \A l \in loads : l.source \in File
    BY DEF Facts, Program, Load
  <2> QED
    BY <1>1, <2>1, ReferenceFacts DEF NeedsOfRegion, AllExports
<1>4. ASSUME NEW f \in File, NEW n \in ExportName PROVE NeedsOfExport(f, n) \subseteq Entity
  <2>1. \A e \in program.exports : /\ e.source # NoFile => e.source \in File
                                   /\ IsDeclared(e) => e.local \in Symbol
                                   /\ e.imported # AllNames => e.imported \in ExportName
    BY ExportFacts
  <2>2. \A g \in File : AllExports(g) \subseteq Entity
    BY <1>1 DEF AllExports
  <2> QED
    BY <1>1, <2>1, <2>2, ExportNeeds
<1> DEFINE Of(x) == CASE x[1] = "symbol" -> NeedsOfSymbol(x[2])
                      [] x[1] = "region" -> NeedsOfRegion(x[2], loads)
                      [] x[1] = "export" -> NeedsOfExport(x[2], x[3])
<1>5. Needs(loads) = [x \in Entity |-> Of(x)]
  BY DEF Needs
<1>6. /\ \A s : Of(<<"symbol", s>>) = NeedsOfSymbol(s)
      /\ \A r : Of(<<"region", r>>) = NeedsOfRegion(r, loads)
      /\ \A f, n : Of(<<"export", f, n>>) = NeedsOfExport(f, n)
  OBVIOUS
<1> HIDE DEF Of
<1>7. /\ \A s \in Symbol : Needs(loads)[<<"symbol", s>>] = NeedsOfSymbol(s)
      /\ \A r \in Region : Needs(loads)[<<"region", r>>] = NeedsOfRegion(r, loads)
      /\ \A f \in File, n \in ExportName : Needs(loads)[<<"export", f, n>>] = NeedsOfExport(f, n)
  <2>1. \A x \in Entity : Needs(loads)[x] = Of(x)
    BY <1>5
  <2>2. ASSUME NEW s \in Symbol PROVE Needs(loads)[<<"symbol", s>>] = NeedsOfSymbol(s)
    BY <1>1, <1>6, <2>1
  <2>3. ASSUME NEW r \in Region PROVE Needs(loads)[<<"region", r>>] = NeedsOfRegion(r, loads)
    BY <1>1, <1>6, <2>1
  <2>4. ASSUME NEW f \in File, NEW n \in ExportName
        PROVE  Needs(loads)[<<"export", f, n>>] = NeedsOfExport(f, n)
    BY <1>1, <1>6, <2>1
  <2> QED
    BY <2>2, <2>3, <2>4
<1>8. Needs(loads) \in [Entity -> SUBSET Entity]
  <2>1. \A x \in Entity : Needs(loads)[x] \in SUBSET Entity
    BY <1>1, <1>2, <1>3, <1>4, <1>7
  <2> QED
    BY <1>5, <2>1
<1> QED
  BY <1>1, <1>7, <1>8, EntityIsFinite

(* What a member needs is a member: if what live imports link to is in the *)
(* set, and all in the set is marked.                                      *)
LEMMA AroundIsClosed ==
  ASSUME IInv, pc = "done", IsAccounted, NEW targets,
         targets \subseteq reachable,
         \A l \in links : IsLive(l.source) => <<l.target, l.lane>> \in targets,
         NEW x \in Around(targets) \cap Entity, NEW y \in Needs({})[x]
  PROVE  y \in Around(targets)
<1> DEFINE A == Around(targets)
<1>0. Facts
  BY ProgramFacts
<1>1. /\ \A s : <<"symbol", s>> \in A <=> s \in Symbol /\ IsLive(s)
      /\ \A r : <<"region", r>> \in A <=>
           /\ r \in Region /\ program.regions[r].file \in program.reached
           /\ r \in ActiveRegions \/ IsLive(program.regions[r].owner)
      /\ \A f, n : <<"export", f, n>> \in A <=>
           /\ f \in File \cap program.reached /\ n \in ExportName
           /\ ExportTargets(f, n) \subseteq targets
  BY AroundMembers
<1>2. /\ reachable \subseteq Symbol \X Lane
      /\ \A s, lane \in Lane : <<s, lane>> \in reachable => IsLive(s)
      /\ \A s : IsLive(s) => s \in Symbol /\ EdgesOf(s) \subseteq reachable
  <2>1. reachable \subseteq Symbol \X Lane
    BY NodeAssumption DEF IInv, TypeOK, WalkTypeOK
  <2>2. \A s : IsLive(s) => s \in Symbol /\ EdgesOf(s) \subseteq reachable
    <3> SUFFICES ASSUME NEW s, NEW lane \in Lane, <<s, lane>> \in reachable
                 PROVE  s \in Symbol /\ EdgesOf(s) \subseteq reachable
      BY DEF IsLive
    <3>1. <<s, lane>>[1] = s
      OBVIOUS
    <3> QED
      BY <2>1, <3>1, MarksAreExact
  <2> QED
    BY <2>1, <2>2 DEF IsLive
<1> HIDE DEF A
<1>3. CASE \E s \in Symbol : x = <<"symbol", s>>
  <2>1. PICK s \in Symbol : x = <<"symbol", s>>
    BY <1>3
  <2>2. IsLive(s) /\ y \in NeedsOfSymbol(s) /\ program.home[s] \in program.reached
    BY <1>0, <1>1, <2>1, NeedsType, LiveIsReached DEF A
  <2>3. ASSUME NEW r \in Region, program.regions[r].owner = s, y = <<"region", r>>
        PROVE  y \in A
    <3>1. program.regions[r].file = program.home[s]
      BY <1>0, <2>3, NothingAssumption DEF Facts, WellResolved
    <3> QED
      BY <1>1, <2>2, <2>3, <3>1
  <2>4. ASSUME NEW b \in program.bindings, b.local = s, b.source # NoFile, NEW n \in ExportName,
               b.name \in {n, AllNames}, y = <<"export", b.source, n>>
        PROVE  y \in A
    <3>1. b.source \in File \cap program.reached
      BY <1>0, <2>2, <2>4, BindingFacts
    <3>2. ASSUME NEW t \in ExportTargets(b.source, n) PROVE t \in targets
      <4> DEFINE l == [source |-> b.local, target |-> t[1], lane |-> t[2]]
      <4>1. l \in links
        BY <2>4, ImportEdges
      <4>2. l.source = s /\ <<l.target, l.lane>> = <<t[1], t[2]>>
        BY <2>4
      <4>3. <<t[1], t[2]>> = t
        BY <1>0, <3>1, TargetsAreReached
      <4> HIDE DEF l
      <4> QED
        BY <2>2, <4>1, <4>2, <4>3
    <3> QED
      BY <1>1, <2>4, <3>1, <3>2
  <2>5. \A b \in program.bindings : b.source # NoFile /\ b.name # AllNames => b.name \in ExportName
    BY <1>0, BindingFacts
  <2> QED
    BY <2>2, <2>3, <2>4, <2>5 DEF NeedsOfSymbol, AllExports, A
<1>4. CASE \E r \in Region : x = <<"region", r>>
  <2>1. PICK r \in Region : x = <<"region", r>>
    BY <1>4
  <2>2. /\ program.regions[r].file \in program.reached
        /\ r \in ActiveRegions \/ IsLive(program.regions[r].owner)
        /\ y \in NeedsOfRegion(r, {})
    BY <1>0, <1>1, <2>1, NeedsType DEF A
  <2>3. r \in ActiveRegions <=> r \in TopLevel
    BY <1>0, <2>2, ActiveIsReachedTopLevel
  <2>4. ASSUME NEW c \in Region, program.regions[c].parent = r, y = <<"region", c>>,
               program.regions[c].eager \/ program.regions[c].inline
        PROVE  y \in A
    <3>1. program.regions[c].parent # NoRegion /\ program.regions[c].file \in program.reached
      BY <1>0, <2>2, <2>4, NothingAssumption DEF Facts, WellResolved
    <3>2. \/ program.regions[c].eager /\ r \in TopLevel
          \/ /\ r \notin TopLevel
             /\ program.regions[c].owner = program.regions[r].owner
      BY <2>4, <3>1 DEF IsAccounted
    <3>3. CASE program.regions[c].eager /\ r \in TopLevel
      <4>1. c \in EagerChildren[r]
        BY <2>4, <3>3 DEF EagerChildren
      <4>2. c \in ActiveRegions
        BY <1>0, <2>3, <3>3, <4>1, ActiveIsReachedTopLevel
      <4> QED
        BY <1>1, <2>4, <3>1, <4>2
    <3> QED
      BY <1>1, <2>2, <2>3, <2>4, <3>1, <3>2, <3>3
  <2>5. ASSUME NEW u \in program.references, u.region = r, y = <<"symbol", u.target>>
        PROVE  y \in A
    <3>1. u.target \in Symbol /\ u.usage \in Lane
      BY <1>0, ReferenceFacts
    <3>2. CASE r \in ActiveRegions
      <4>1. <<u.target, u.usage>> \in SymbolRoots
        BY <2>5, <3>2 DEF SymbolRoots, ReferenceRoots
      <4>2. <<u.target, u.usage>> \in reachable
        BY <4>1, MarksAreExact
      <4>3. IsLive(u.target)
        BY <3>1, <4>2 DEF IsLive
      <4> QED
        BY <1>1, <2>5, <3>1, <4>3
    <3>3. CASE r \notin ActiveRegions
      <4>1. Owner(u) = program.regions[r].owner
        BY <2>3, <2>5, <3>3 DEF IsAccounted
      <4>2. <<u.target, u.usage>> \in EdgesOf(program.regions[r].owner)
        BY <4>1 DEF EdgesOf
      <4>3. <<u.target, u.usage>> \in reachable
        BY <1>2, <2>2, <3>3, <4>2
      <4>4. IsLive(u.target)
        BY <3>1, <4>3 DEF IsLive
      <4> QED
        BY <1>1, <2>5, <3>1, <4>4
    <3> QED
      BY <3>2, <3>3
  <2> QED
    BY <2>2, <2>4, <2>5 DEF NeedsOfRegion, A
<1>5. CASE \E f \in File, n \in ExportName : x = <<"export", f, n>>
  <2>1. PICK f \in File, n \in ExportName : x = <<"export", f, n>>
    BY <1>5
  <2>2. f \in program.reached /\ ExportTargets(f, n) \subseteq targets /\ y \in NeedsOfExport(f, n)
    BY <1>0, <1>1, <2>1, NeedsType DEF A
  <2>3. ASSUME NEW e \in program.exports, e.file = f, e.name = n, IsDeclared(e),
               y = <<"symbol", e.local>>
        PROVE  y \in A
    <3>1. e.local \in Symbol /\ e.lane \in Lane
      BY <1>0, <2>3, ExportFacts
    <3>2. <<e.local, e.lane>> \in ExportTargets(f, n)
      BY <1>0, <2>3, OwnTarget
    <3>3. IsLive(e.local)
      BY <2>2, <3>1, <3>2 DEF IsLive
    <3> QED
      BY <1>1, <2>3, <3>1, <3>3
  <2>4. ASSUME NEW e \in program.exports, Matches(e, f, n), e.source # NoFile, NEW m \in ExportName,
               e.star \/ e.imported # AllNames, m = IF e.star THEN n ELSE e.imported,
               y = <<"export", e.source, m>>
        PROVE  y \in A
    <3>1. e.source \in File \cap program.reached
      BY <1>0, <2>2, <2>4, ExportFacts DEF Matches
    <3>2. Forwarded(e, n)[1] = e.source /\ Forwarded(e, n)[2] = m
      BY <2>4 DEF Forwarded
    <3>3. ExportTargets(e.source, m) \subseteq ExportTargets(f, n)
      BY <1>0, <2>4, <3>2, TargetSteps
    <3> QED
      BY <1>1, <2>2, <2>4, <3>1, <3>3
  <2>5. \A e \in program.exports :
          ~e.star /\ e.source # NoFile => e.imported # AllNames /\ e.imported \in ExportName
    BY <1>0, ExportFacts DEF IsAccounted
  <2> QED
    BY <1>0, <2>2, <2>3, <2>4, <2>5, ExportNeeds DEF A
<1> QED
  BY <1>0, <1>3, <1>4, <1>5, NeedsType

LEMMA UsedIsAround ==
  ASSUME IInv, pc = "done", IsAccounted, NEW targets,
         targets \subseteq reachable,
         \A l \in links : IsLive(l.source) => <<l.target, l.lane>> \in targets,
         NEW open \in SUBSET program.open,
         \A f \in open, n \in ExportName : ExportTargets(f, n) \subseteq targets
  PROVE  UsedByName(open) \subseteq Around(targets)
<1> DEFINE start == {<<"region", r>> : r \in ModuleRegions(program.reached)}
                      \cup UNION {AllExports(f) : f \in open}
<1>1. Facts /\ open \subseteq File \cap program.reached
  BY ProgramFacts DEF Facts, Program, WellResolved
<1>2. start \subseteq Around(targets) /\ start \subseteq Entity
  <2>1. ASSUME NEW r \in ModuleRegions(program.reached)
        PROVE  <<"region", r>> \in Around(targets) /\ <<"region", r>> \in Entity
    <3>1. r \in Region /\ r \in ActiveRegions /\ program.regions[r].file \in program.reached
      BY <1>1, ActiveIsReachedTopLevel DEF ModuleRegions
    <3> QED
      BY <1>1, <3>1, AroundMembers, NeedsType
  <2>2. ASSUME NEW f \in open, NEW n \in ExportName
        PROVE  <<"export", f, n>> \in Around(targets) /\ <<"export", f, n>> \in Entity
    BY <1>1, AroundMembers, NeedsType
  <2> QED
    BY <2>1, <2>2 DEF AllExports
<1>3. \A x \in Around(targets) \cap Entity : Needs({})[x] \subseteq Around(targets)
  BY AroundIsClosed
<1>4. UsedByName(open) = Closure(Needs({}), start)
  BY DEF Used, UsedByName
<1> HIDE DEF start
<1> QED
  BY <1>1, <1>2, <1>3, <1>4, NeedsType, ClosureIsLeast

(* A declaration reported dead is used by nothing: no statement that runs, *)
(* no type that is checked, no importer and, in an open world, no outsider *)
(* reaches it, through however many re-exports and regions.                *)
THEOREM UsedDeclarationsAreKept == Spec => []UsedIsNeverReported
<1>1. IInv => UsedIsNeverReported
  <2> SUFFICES ASSUME IInv, pc = "done", IsAccounted, NEW s \in UNION deadGroups
               PROVE  <<"symbol", s>> \notin UsedByName(program.open)
    BY DEF UsedIsNeverReported
  <2>1. \A l \in links : IsLive(l.source) => <<l.target, l.lane>> \in reachable
    <3> SUFFICES ASSUME NEW l \in links, NEW lane \in Lane, <<l.source, lane>> \in reachable
                 PROVE  <<l.target, l.lane>> \in reachable
      BY DEF IsLive
    <3>1. <<l.target, l.lane>> \in EdgesOf(l.source) /\ <<l.source, lane>>[1] = l.source
      BY DEF EdgesOf
    <3> QED
      BY <3>1, MarksAreExact
  <2>2. \A f \in program.open, n \in ExportName : ExportTargets(f, n) \subseteq reachable
    <3>1. Facts /\ program.open \subseteq File
      BY ProgramFacts DEF Facts, Program
    <3> QED
      BY <3>1, OpenTargetsAreRoots, MarksAreExact
  <2>3. UsedByName(program.open) \subseteq Around(reachable)
    BY <2>1, <2>2, UsedIsAround
  <2> QED
    BY <2>3, AroundMembers, ReportedAreUnmarked
<1> QED
  BY SymbolInvariant, <1>1, PTL

(* An export reported unused is one that no import of the project's own    *)
(* running code leads to.                                                  *)
THEOREM ImportedExportsAreKept == Spec => []ImportedExportIsNeverReported
<1>1. IInv => ImportedExportIsNeverReported
  <2> SUFFICES ASSUME IInv, pc = "done", IsAccounted, NEW e \in unusedExports
               PROVE  <<"export", e.file, e.name>> \notin UsedByName({})
    BY DEF ImportedExportIsNeverReported
  <2> DEFINE targets == {t \in reachable : \E l \in links : l.target = t[1] /\ l.lane = t[2]}
  <2>1. \A l \in links : IsLive(l.source) => <<l.target, l.lane>> \in targets
    <3> SUFFICES ASSUME NEW l \in links, NEW lane \in Lane, <<l.source, lane>> \in reachable
                 PROVE  <<l.target, l.lane>> \in targets
      BY DEF IsLive
    <3>1. <<l.target, l.lane>> \in EdgesOf(l.source) /\ <<l.source, lane>>[1] = l.source
      BY DEF EdgesOf
    <3>2. <<l.target, l.lane>> \in reachable
      BY <3>1, MarksAreExact
    <3> QED
      BY <3>2
  <2>2. targets \subseteq reachable
    OBVIOUS
  <2>3. e \in program.exports /\ IsDeclared(e) /\ ~IsConsumed(e)
    BY DEF IInv, ReportIsExact, UnusedExports
  <2>4. <<e.local, e.lane>> \in ExportTargets(e.file, e.name)
    BY <2>3, ProgramFacts, OwnTarget
  <2>5. <<e.local, e.lane>> \notin targets
    BY <2>3 DEF IsConsumed
  <2> HIDE DEF targets
  <2>6. UsedByName({}) \subseteq Around(targets)
    BY <2>1, <2>2, UsedIsAround
  <2> QED
    BY <2>4, <2>5, <2>6, AroundMembers
<1> QED
  BY SymbolInvariant, <1>1, PTL
-----------------------------------------------------------------------------
(* What is marked is used                                                  *)

LEMMA UsedIsClosed ==
  ASSUME IInv
  PROVE  LET used == Used(program.open, program.loads)
         IN  /\ \A r \in ModuleRegions(program.reached) : <<"region", r>> \in used
             /\ \A f \in program.open, n \in ExportName : <<"export", f, n>> \in used
             /\ \A s \in Symbol : <<"symbol", s>> \in used =>
                  NeedsOfSymbol(s) \subseteq used
             /\ \A r \in Region : <<"region", r>> \in used =>
                  NeedsOfRegion(r, program.loads) \subseteq used
             /\ \A f \in File, n \in ExportName : <<"export", f, n>> \in used =>
                  NeedsOfExport(f, n) \subseteq used
<1> DEFINE start == {<<"region", r>> : r \in ModuleRegions(program.reached)}
                      \cup UNION {AllExports(f) : f \in program.open}
           used == Used(program.open, program.loads)
<1>1. Facts
  BY ProgramFacts
<1>2. start \subseteq Entity
  <2>1. program.open \subseteq File
    BY <1>1 DEF Facts, Program
  <2>2. \A r \in ModuleRegions(program.reached) : <<"region", r>> \in Entity
    BY <1>1, RegionFacts, NeedsType
  <2>3. \A f \in program.open, n \in ExportName : <<"export", f, n>> \in Entity
    BY <1>1, <2>1, NeedsType
  <2> QED
    BY <2>2, <2>3 DEF AllExports
<1>3. used = Closure(Needs(program.loads), start)
  BY DEF Used
<1>4. /\ \A r \in ModuleRegions(program.reached) : <<"region", r>> \in start
      /\ \A f \in program.open, n \in ExportName : <<"export", f, n>> \in start
  BY DEF AllExports
<1> HIDE DEF used, start
<1>5. start \subseteq used /\ \A x \in used : Needs(program.loads)[x] \subseteq used
  BY <1>1, <1>2, <1>3, NeedsType, ClosureIsClosed
<1>6. /\ \A r \in ModuleRegions(program.reached) : <<"region", r>> \in used
      /\ \A f \in program.open, n \in ExportName : <<"export", f, n>> \in used
  BY <1>4, <1>5
<1>7. /\ \A s \in Symbol : <<"symbol", s>> \in used => NeedsOfSymbol(s) \subseteq used
      /\ \A r \in Region : <<"region", r>> \in used => NeedsOfRegion(r, program.loads) \subseteq used
      /\ \A f \in File, n \in ExportName : <<"export", f, n>> \in used =>
           NeedsOfExport(f, n) \subseteq used
  <2>1. /\ \A s \in Symbol : Needs(program.loads)[<<"symbol", s>>] = NeedsOfSymbol(s)
        /\ \A r \in Region : Needs(program.loads)[<<"region", r>>] = NeedsOfRegion(r, program.loads)
        /\ \A f \in File, n \in ExportName : Needs(program.loads)[<<"export", f, n>>] = NeedsOfExport(f, n)
    BY <1>1, NeedsType
  <2>2. ASSUME NEW s \in Symbol, <<"symbol", s>> \in used PROVE NeedsOfSymbol(s) \subseteq used
    BY <1>5, <2>1, <2>2
  <2>3. ASSUME NEW r \in Region, <<"region", r>> \in used PROVE NeedsOfRegion(r, program.loads) \subseteq used
    BY <1>5, <2>1, <2>3
  <2>4. ASSUME NEW f \in File, NEW n \in ExportName, <<"export", f, n>> \in used
        PROVE  NeedsOfExport(f, n) \subseteq used
    BY <1>5, <2>1, <2>4
  <2> QED
    BY <2>2, <2>3, <2>4
<1> QED
  BY <1>6, <1>7 DEF used

LEMMA ActiveIsUsed ==
  ASSUME IInv, NEW r \in ActiveRegions
  PROVE  r \in Region /\ <<"region", r>> \in Used(program.open, program.loads)
<1> DEFINE S == {q \in Region : <<"region", q>> \in Used(program.open, program.loads)}
<1>1. Facts
  BY ProgramFacts
<1>2. ModuleRegions(program.reached) \subseteq S
  BY <1>1, UsedIsClosed, RegionFacts
<1>3. ASSUME NEW q \in S, NEW c \in EagerChildren[q]
      PROVE  c \in S
  <2>1. c \in Region /\ q \in Region /\ <<"region", q>> \in Used(program.open, program.loads)
    BY <1>1, <1>3, RegionFacts
  <2>2. <<"region", c>> \in NeedsOfRegion(q, program.loads)
    BY <1>3, <2>1 DEF NeedsOfRegion, EagerChildren
  <2> QED
    BY <2>1, <2>2, UsedIsClosed
<1> HIDE DEF S
<1>4. ActiveRegions \subseteq S
  BY <1>1, <1>2, <1>3, RegionFacts, ClosureIsLeast DEF ActiveRegions
<1> QED
  BY <1>4 DEF S

(* All declarations behind a used export are used.                         *)
LEMMA TargetsAreUsed ==
  ASSUME IInv, IsAccounted, StarsHideNothing, NEW f \in File, NEW n \in ExportName,
         <<"export", f, n>> \in Used(program.open, program.loads), NEW t \in ExportTargets(f, n)
  PROVE  <<"symbol", t[1]>> \in Used(program.open, program.loads)
<1> DEFINE used == Used(program.open, program.loads)
           noDefault == \A e \in program.exports : e.name # "default"
           S == {at \in File \X ExportName :
                   \/ <<"export", at[1], at[2]>> \in used
                   \/ at[2] = "default" /\ noDefault}
<1>1. Facts
  BY ProgramFacts
<1>2. \A g \in File, m \in ExportName : <<"export", g, m>> \in used =>
        NeedsOfExport(g, m) \subseteq used
  BY UsedIsClosed
<1> HIDE DEF used
<1>3. ASSUME NEW at \in S, NEW e \in program.exports, Matches(e, at[1], at[2]), e.source # NoFile
      PROVE  Forwarded(e, at[2]) \in S
  <2>1. at[1] \in File /\ at[2] \in ExportName /\ e.source \in File
    BY <1>1, <1>3, ExportFacts
  <2>2. CASE e.star
    <3>1. noDefault /\ \A d \in program.exports : d.file = at[1] => d.star
      BY <1>3, <2>2 DEF StarsHideNothing, Matches
    <3>2. Forwarded(e, at[2]) = <<e.source, at[2]>>
      BY <2>2 DEF Forwarded
    <3>3. CASE at[2] = "default"
      BY <2>1, <3>1, <3>2, <3>3
    <3>4. CASE at[2] # "default"
      <4>1. <<"export", at[1], at[2]>> \in used
        BY <3>4
      <4>2. <<"export", e.source, at[2]>> \in NeedsOfExport(at[1], at[2])
        <5>1. {d \in program.exports : d.file = at[1] /\ ~d.star /\ d.name = at[2]} = {}
          BY <3>1
        <5>2. e \in {d \in program.exports : d.file = at[1] /\ d.star /\ d.source # NoFile}
          BY <1>3, <2>2 DEF Matches
        <5> QED
          BY <3>4, <5>1, <5>2 DEF NeedsOfExport
      <4> QED
        BY <1>2, <2>1, <3>2, <4>1, <4>2
    <3> QED
      BY <3>3, <3>4
  <2>3. CASE ~e.star
    <3>1. e.file = at[1] /\ e.name = at[2] /\ e.imported # AllNames /\ e.imported \in ExportName
      BY <1>1, <1>3, <2>3, ExportFacts DEF Matches, IsAccounted
    <3>2. Forwarded(e, at[2]) = <<e.source, e.imported>>
      BY <2>3, <3>1 DEF Forwarded
    <3>3. <<"export", at[1], at[2]>> \in used
      BY <3>1
    <3>4. <<"export", e.source, e.imported>> \in NeedsOfExport(at[1], at[2])
      <4>1. e \in {d \in {d \in program.exports : d.file = at[1] /\ ~d.star /\ d.name = at[2]} :
                     d.source # NoFile}
        BY <1>3, <2>3, <3>1
      <4>2. <<"export", e.source, e.imported>> \in
              IF e.imported = AllNames THEN AllExports(e.source)
              ELSE {<<"export", e.source, e.imported>>}
        BY <3>1
      <4> QED
        BY <4>1, <4>2 DEF NeedsOfExport
    <3> QED
      BY <1>2, <2>1, <3>1, <3>2, <3>3, <3>4
  <2> QED
    BY <2>2, <2>3
<1>4. \A at \in S : Forwards[at] \subseteq S
  <2> SUFFICES ASSUME NEW at \in S PROVE Forwards[at] \subseteq S
    OBVIOUS
  <2>1. at \in File \X ExportName
    OBVIOUS
  <2> HIDE DEF S
  <2> QED
    BY <1>3, <2>1 DEF Forwards
<1>5. <<f, n>> \in S
  BY DEF used
<1>6. PICK at \in S, e \in program.exports :
        IsDeclared(e) /\ t = <<e.local, e.lane>> /\ Matches(e, at[1], at[2])
  <2> HIDE DEF S
  <2>1. {<<f, n>>} \subseteq S /\ {<<f, n>>} \subseteq File \X ExportName
    BY <1>5
  <2>2. Closure(Forwards, {<<f, n>>}) \subseteq S
    BY <1>1, <1>4, <2>1, ForwardsType, ClosureIsLeast
  <2> QED
    BY <2>2 DEF ExportTargets
<1>7. ~e.star /\ e.file = at[1] /\ e.name = at[2]
  BY <1>1, <1>6, ExportFacts DEF Matches
<1>8. <<"export", at[1], at[2]>> \in used /\ at[1] \in File /\ at[2] \in ExportName
  BY <1>6, <1>7
<1>9. <<"symbol", e.local>> \in NeedsOfExport(at[1], at[2])
  BY <1>6, <1>7 DEF NeedsOfExport
<1>10. t[1] = e.local
  BY <1>6
<1> QED
  BY <1>2, <1>8, <1>9, <1>10 DEF used

LEMMA LiveIsUsed ==
  ASSUME IInv, pc = "done", IsAccounted, StarsHideNothing, NEW s, IsLive(s)
  PROVE  <<"symbol", s>> \in Used(program.open, program.loads)
<1> DEFINE used == Used(program.open, program.loads)
           S == {n \in reachable : <<"symbol", n[1]>> \in used}
<1>1. Facts
  BY ProgramFacts
<1>2. /\ \A r \in Region : <<"region", r>> \in used => NeedsOfRegion(r, program.loads) \subseteq used
      /\ \A u \in Symbol : <<"symbol", u>> \in used => NeedsOfSymbol(u) \subseteq used
      /\ \A f \in program.open, n \in ExportName : <<"export", f, n>> \in used
  BY UsedIsClosed
<1>3. \A r \in ActiveRegions : r \in Region /\ <<"region", r>> \in used
  BY ActiveIsUsed
<1>4. \A f \in File, n \in ExportName : <<"export", f, n>> \in used =>
        \A t \in ExportTargets(f, n) : <<"symbol", t[1]>> \in used
  BY TargetsAreUsed
<1>5. \A r \in program.references : <<"region", r.region>> \in used => <<"symbol", r.target>> \in used
  BY <1>1, <1>2, ReferenceFacts DEF NeedsOfRegion
<1>6. reachable \subseteq Symbol \X Lane /\ reachable \subseteq Node
  BY NodeAssumption DEF IInv, TypeOK, WalkTypeOK
<1> HIDE DEF used
<1>7. SymbolRoots \subseteq S
  <2>1. ASSUME NEW t \in ReexportRoots PROVE <<"symbol", t[1]>> \in used
    <3>1. PICK e \in OpenExports : \E n : /\ ~IsDeclared(e) /\ t \in ExportTargets(e.file, n)
                                         /\ n \in IF ~e.star THEN {e.name}
                                                  ELSE IF e.source = NoFile THEN {}
                                                  ELSE ExportedNames(e.source)
      BY DEF ReexportRoots
    <3>2. PICK n : t \in ExportTargets(e.file, n) /\ n \in IF ~e.star THEN {e.name}
                                                           ELSE IF e.source = NoFile THEN {}
                                                           ELSE ExportedNames(e.source)
      BY <3>1
    <3>3. e \in program.exports /\ e.file \in program.open /\ e.file \in File
      BY <1>1, ExportFacts DEF OpenExports
    <3>4. n \in ExportName
      <4>1. ~e.star => e.name \in ExportName
        BY <1>1, <3>3, ExportFacts
      <4>2. \A f : ExportedNames(f) \subseteq ExportName
        BY <1>1, ExportFacts DEF ExportedNames
      <4> QED
        BY <3>2, <4>1, <4>2
    <3> QED
      BY <1>2, <1>4, <3>2, <3>3, <3>4
  <2>2. ASSUME NEW t \in ReferenceRoots PROVE <<"symbol", t[1]>> \in used
    <3>1. PICK r \in program.references : r.region \in ActiveRegions /\ t = <<r.target, r.usage>>
      BY DEF ReferenceRoots
    <3> QED
      BY <1>3, <1>5, <3>1
  <2>3. ASSUME NEW t \in OpenExportRoots PROVE <<"symbol", t[1]>> \in used
    <3>1. PICK e \in OpenExports :
            /\ IsDeclared(e) /\ e.file \in program.reached
            /\ t \in IF e.lane = "Type" THEN {<<e.local, "Type">>}
                     ELSE {<<e.local, "Runtime">>}
                            \cup {<<u, "Type">> : u \in {e.local} \cap program.typed}
      BY DEF OpenExportRoots
    <3>2. t[1] = e.local
      BY <3>1
    <3>3. e \in program.exports /\ e.file \in program.open
      BY DEF OpenExports
    <3>4. /\ e.file \in File /\ e.name \in ExportName
          /\ <<e.local, e.lane>> \in ExportTargets(e.file, e.name)
      BY <1>1, <3>1, <3>3, OwnTarget
    <3>5. <<e.local, e.lane>>[1] = e.local
      OBVIOUS
    <3> QED
      BY <1>2, <1>4, <3>2, <3>3, <3>4, <3>5
  <2>4. SymbolRoots \subseteq reachable
    BY MarksAreExact
  <2> QED
    BY <2>1, <2>2, <2>3, <2>4 DEF SymbolRoots
<1>8. ASSUME NEW n \in S, NEW t \in EdgesOf(n[1])
      PROVE  t \in S
  <2>1. n[1] \in Symbol /\ <<"symbol", n[1]>> \in used /\ n[1] # NoSymbol
    BY <1>6, NothingAssumption
  <2>2. program.home[n[1]] \in program.reached
    <3>1. IsLive(n[1])
      BY <1>6 DEF IsLive
    <3> QED
      BY <3>1, LiveIsReached
  <2>3. t \in reachable
    BY MarksAreExact
  <2>4. ASSUME NEW r \in program.references, Owner(r) = n[1], t = <<r.target, r.usage>>
        PROVE  <<"symbol", t[1]>> \in used
    <3>1. r.region \in Region /\ program.regions[r.region].file \in program.reached
      BY <1>1, <2>1, <2>2, <2>4, ReferenceFacts
    <3>2. CASE program.regions[r.region].owner = n[1]
      <4>1. <<"region", r.region>> \in NeedsOfSymbol(n[1])
        BY <3>1, <3>2 DEF NeedsOfSymbol
      <4> QED
        BY <1>2, <1>5, <2>1, <2>4, <4>1
    <3>3. CASE program.regions[r.region].owner # n[1]
      <4>1. r.region \in ActiveRegions
        BY <1>1, <2>4, <3>1, <3>3, ActiveIsReachedTopLevel DEF IsAccounted
      <4> QED
        BY <1>3, <1>5, <2>4, <4>1
    <3> QED
      BY <3>2, <3>3
  <2>5. ASSUME NEW b \in program.bindings, NEW name \in ImportedNames(b),
               b.local = n[1], b.source # NoFile, t \in ExportTargets(b.source, name)
        PROVE  <<"symbol", t[1]>> \in used
    <3>1. b.source \in File
      BY <1>1, <2>5, BindingFacts
    <3>2. name \in ExportName
      <4>1. \A f : ExportedNames(f) \subseteq ExportName
        BY <1>1, ExportFacts DEF ExportedNames
      <4> QED
        BY <1>1, <2>5, <4>1, BindingFacts DEF ImportedNames
    <3>3. <<"export", b.source, name>> \in NeedsOfSymbol(n[1])
      <4>1. <<"export", b.source, name>> \in
              IF b.name = AllNames THEN AllExports(b.source)
              ELSE {<<"export", b.source, b.name>>}
        BY <2>5, <3>2 DEF ImportedNames, AllExports
      <4> QED
        BY <2>5, <4>1 DEF NeedsOfSymbol
    <3> QED
      BY <1>2, <1>4, <2>1, <2>5, <3>1, <3>2, <3>3
  <2> QED
    BY <2>3, <2>4, <2>5, EdgeCases
<1> HIDE DEF S
<1>9. S \in SUBSET Node
  BY <1>6 DEF S
<1>10. ClosedUnder(Successors, S)
  <2>1. \A n \in Node : Successors[n] = EdgesOf(n[1])
    <3>1. outgoing = SymbolGraph
      BY DEF IInv, WalkedSymbols
    <3> QED
      BY <3>1, GraphType DEF IInv, Successors
  <2> QED
    BY <1>8, <1>9, <2>1 DEF ClosedUnder
<1>11. reachable \subseteq S
  BY <1>7, <1>9, <1>10, MarksAreExact DEF ReachableFrom
<1>12. PICK lane \in Lane : <<s, lane>> \in reachable
  BY DEF IsLive
<1>13. <<s, lane>>[1] = s /\ <<s, lane>> \in S
  BY <1>11, <1>12
<1> QED
  BY <1>13 DEF S, used
-----------------------------------------------------------------------------
(* The groups are a partition                                              *)

LEMMA ComponentsPartition ==
  ASSUME NEW candidates \in SUBSET Symbol, NEW s \in candidates
  PROVE  \E component \in DeadComponents(candidates) :
           /\ s \in component
           /\ \A other \in DeadComponents(candidates) : s \in other => other = component
<1> DEFINE succ == [c \in candidates |->
                      {t \in candidates : \E lane \in Lane : <<t, lane>> \in EdgesOf(c)}]
           below(c) == Closure(succ, {c})
           component(c) == {t \in candidates : t \in below(c) /\ c \in below(t)}
<1>1. DeadComponents(candidates) = {component(c) : c \in candidates}
  <2>1. \A c \in candidates : [x \in candidates |-> Closure(succ, {x})][c] = below(c)
    OBVIOUS
  <2> HIDE DEF below
  <2> QED
    BY <2>1 DEF DeadComponents, below
<1>2. succ \in [candidates -> SUBSET candidates]
  OBVIOUS
<1>7. IsFiniteSet(candidates)
  BY FiniteAssumption, FS_Subset
<1> HIDE DEF succ
<1>3. ASSUME NEW c \in candidates
      PROVE  /\ c \in below(c) /\ below(c) \subseteq candidates
             /\ \A t \in below(c) : succ[t] \subseteq below(c)
  <2>1. {c} \subseteq candidates
    OBVIOUS
  <2> QED
    BY <1>2, <1>7, <2>1, ClosureIsClosed
<1>4. ASSUME NEW c \in candidates, NEW t \in below(c)
      PROVE  below(t) \subseteq below(c)
  <2>1. {t} \subseteq below(c) /\ {t} \subseteq candidates
    BY <1>3, <1>4
  <2>2. \A n \in below(c) \cap candidates : succ[n] \subseteq below(c)
    BY <1>3
  <2> QED
    BY <1>2, <1>7, <2>1, <2>2, ClosureIsLeast
<1> HIDE DEF below
<1>5. s \in component(s)
  BY <1>3
<1>6. ASSUME NEW c \in candidates, s \in component(c)
      PROVE  component(c) = component(s)
  <2>1. below(c) = below(s)
    BY <1>4, <1>6
  <2>2. ASSUME NEW t \in candidates
        PROVE  t \in component(c) <=> t \in component(s)
    BY <1>3, <1>4, <1>6, <2>1
  <2> QED
    BY <2>2
<1> HIDE DEF component
<1> QED
  BY <1>1, <1>5, <1>6

(* Nothing dead is missed, where the language leaves no doubt, and each    *)
(* declaration is reported once.                                           *)
THEOREM DeadDeclarationsAreReported == Spec => []DeadIsReported
<1>1. IInv => DeadIsReported
  <2> SUFFICES ASSUME IInv, pc = "done", IsAccounted, StarsHideNothing, NEW s \in Symbol,
                      program.home[s] \in program.reached \ program.hidden,
                      s \notin program.kept, ~IsImport(s),
                      <<"symbol", s>> \notin Used(program.open, program.loads)
               PROVE  Cardinality({g \in deadGroups : s \in g}) = 1
    BY DEF DeadIsReported
  <2>1. s \in DeadCandidates /\ DeadCandidates \in SUBSET Symbol
    <3>1. ~IsLive(s)
      BY LiveIsUsed
    <3> QED
      BY <3>1 DEF DeadCandidates, IsDeadCandidate, IsLive
  <2>2. PICK component \in DeadComponents(DeadCandidates) :
          /\ s \in component
          /\ \A other \in DeadComponents(DeadCandidates) : s \in other => other = component
    BY <2>1, ComponentsPartition
  <2> DEFINE group == {t \in component : ~IsImport(t)}
  <2>3. s \in group /\ group \in deadGroups
    BY <2>2 DEF IInv, ReportIsExact, DeadGroups
  <2>4. \A g \in deadGroups : s \in g => g = group
    BY <2>2 DEF IInv, ReportIsExact, DeadGroups
  <2> HIDE DEF group
  <2>5. {g \in deadGroups : s \in g} = {group}
    BY <2>3, <2>4
  <2> QED
    BY <2>5, FS_Singleton
<1> QED
  BY SymbolInvariant, <1>1, PTL
=============================================================================
