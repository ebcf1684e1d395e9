------------------------- MODULE ProfileScanProofs -------------------------
(***************************************************************************)
(* The properties of module ProfileScan, for any number of files, any      *)
(* programs, entries and plugin edges, and any diagnostic limit.           *)
(*                                                                         *)
(* The inductive invariant follows the stages: what the facts hold before  *)
(* and after the limit, which files are resolved, that the graph is the    *)
(* program's own once the walk starts, the loop invariant of the walk, and *)
(* at the end that the report is what the formulas of Classify say.        *)
(***************************************************************************)
EXTENDS ProfileScan, SequenceTheorems, WellFoundedInduction, FiniteSetTheorems,
        TLAPS

-----------------------------------------------------------------------------
(* The loop of module Worklist: its invariant, one lemma per step, and     *)
(* what holds when it is idle.                                             *)

(* Nothing is marked, or waiting to be, that the roots do not reach.       *)
WalkSound ==
  \A S \in SUBSET Node :
     Range(roots) \subseteq S /\ ClosedUnder(Successors, S)
        => reachable \subseteq S /\ Range(todo) \subseteq S

(* A root, or a target of an expanded node, is marked or about to be.      *)
WalkFrontier ==
  /\ Range(roots) \subseteq reachable \cup Range(todo)
  /\ Range(queue) \subseteq reachable
  /\ \A n \in reachable :
        n \in Range(queue) \/ Range(outgoing[n]) \subseteq reachable \cup Range(todo)

WalkInv == WalkTypeOK /\ WalkSound /\ WalkFrontier

-----------------------------------------------------------------------------
(* The least number of a set: the library's theorems on induction take a   *)
(* predicate, which no prover can be given.                                *)

LEMMA LeastElement ==
  ASSUME NEW S, S \subseteq Nat, S # {}
  PROVE  \E x \in S : \A y \in S : x <= y
<1>1. PICK x \in S : \A y \in S : ~(<<y, x>> \in OpToRel(<, Nat))
  BY NatLessThanWellFounded, WFMin
<1>2. \A y \in S : ~(y < x)
  BY <1>1 DEF OpToRel
<1> QED
  BY <1>2

-----------------------------------------------------------------------------

LEMMA RangeHeadTail ==
  ASSUME NEW S, NEW s \in Seq(S), s # <<>>
  PROVE  /\ Head(s) \in S
         /\ Tail(s) \in Seq(S)
         /\ Range(s) = {Head(s)} \cup Range(Tail(s))
<1>1. /\ Len(s) \in Nat \ {0}
      /\ Range(s) = {s[i] : i \in 1..Len(s)}
  BY EmptySeq, RangeEquality
<1>2. /\ Head(s) = s[1]
      /\ Head(s) \in S
      /\ Tail(s) \in Seq(S)
      /\ Len(Tail(s)) = Len(s) - 1
      /\ \A i \in 1..Len(Tail(s)) : Tail(s)[i] = s[i+1]
  BY HeadTailProperties
<1>3. Range(Tail(s)) = {s[i+1] : i \in 1..Len(s)-1}
  <2> DEFINE t == Tail(s)
  <2>1. t \in Seq(S) /\ Len(t) = Len(s) - 1
    BY <1>2
  <2>2. \A i \in 1..Len(s)-1 : t[i] = s[i+1]
    BY <1>2
  <2>3. Range(t) = {t[i] : i \in 1..Len(t)}
    BY <2>1, RangeEquality
  <2> HIDE DEF t
  <2>4. Range(t) = {t[i] : i \in 1..Len(s)-1}
    BY <2>1, <2>3
  <2>5. Range(t) = {s[i+1] : i \in 1..Len(s)-1}
    BY <2>2, <2>4
  <2> QED
    BY <2>5 DEF t
<1>4. \A i \in 1..Len(s) : i = 1 \/ (i-1 \in 1..Len(s)-1 /\ i = (i-1)+1)
  BY <1>1
<1>5. \A i \in 1..Len(s)-1 : i+1 \in 1..Len(s)
  BY <1>1
<1>6. 1 \in 1..Len(s)
  BY <1>1
<1> QED
  BY <1>1, <1>2, <1>3, <1>4, <1>5, <1>6

LEMMA RangeAppend ==
  ASSUME NEW S, NEW s \in Seq(S), NEW e \in S
  PROVE  /\ Append(s, e) \in Seq(S)
         /\ Range(Append(s, e)) = Range(s) \cup {e}
<1>1. /\ Len(s) \in Nat
      /\ Range(s) = {s[i] : i \in 1..Len(s)}
  BY LenProperties, RangeEquality
<1>2. /\ Append(s, e) \in Seq(S)
      /\ Len(Append(s, e)) = Len(s) + 1
      /\ \A i \in 1..Len(s) : Append(s, e)[i] = s[i]
      /\ Append(s, e)[Len(s) + 1] = e
  BY AppendProperties
<1>3. Range(Append(s, e)) = {Append(s, e)[i] : i \in 1..Len(s)+1}
  BY <1>2, RangeEquality
<1>4. /\ \A i \in 1..Len(s)+1 : i \in 1..Len(s) \/ i = Len(s)+1
      /\ \A i \in 1..Len(s) : i \in 1..Len(s)+1
      /\ Len(s)+1 \in 1..Len(s)+1
  BY <1>1
<1> QED
  BY <1>1, <1>2, <1>3, <1>4

LEMMA RangeEmpty == Range(<<>>) = {}
BY DEF Range

-----------------------------------------------------------------------------

(* Starting a walk establishes its invariant.                              *)
LEMMA StartWalkEstablishes ==
  ASSUME NEW graph \in [Node -> Seq(Node)], NEW rs \in Seq(Node),
         StartWalk(graph, rs)
  PROVE  WalkInv'
<1>1. WalkTypeOK'
  BY DEF StartWalk, WalkTypeOK
<1>2. WalkSound'
  BY DEF StartWalk, WalkSound, Successors
<1>3. WalkFrontier'
  BY RangeEmpty DEF StartWalk, WalkFrontier
<1> QED
  BY <1>1, <1>2, <1>3 DEF WalkInv

(* Marking a target keeps it.                                              *)
LEMMA MarkTargetPreserves ==
  ASSUME WalkInv, MarkTarget
  PROVE  WalkInv'
<1> DEFINE target == Head(todo)
<1>0. /\ WalkTypeOK /\ WalkSound /\ WalkFrontier
      /\ todo # <<>> /\ todo' = Tail(todo)
      /\ outgoing' = outgoing /\ roots' = roots
  BY DEF WalkInv, MarkTarget
<1>1. /\ target \in Node
      /\ todo' \in Seq(Node)
      /\ Range(todo) = {target} \cup Range(todo')
  BY <1>0, RangeHeadTail DEF WalkTypeOK
<1>2. /\ reachable' = reachable \cup {target}
      /\ queue' \in Seq(Node)
      /\ Range(queue) \subseteq Range(queue')
      /\ Range(queue') \subseteq Range(queue) \cup {target}
      /\ target \notin reachable => target \in Range(queue')
  <2>1. CASE target \in reachable
    BY <2>1, <1>0 DEF MarkTarget, WalkTypeOK
  <2>2. CASE target \notin reachable
    <3>1. /\ reachable' = reachable \cup {target}
          /\ queue' = Append(queue, target)
      BY <2>2 DEF MarkTarget
    <3>2. /\ queue' \in Seq(Node)
          /\ Range(queue') = Range(queue) \cup {target}
      BY <3>1, <1>0, <1>1, RangeAppend DEF WalkTypeOK
    <3> QED
      BY <3>1, <3>2
  <2> QED
    BY <2>1, <2>2
<1>3. WalkTypeOK'
  BY <1>0, <1>1, <1>2 DEF WalkTypeOK
<1>4. WalkSound'
  BY <1>0, <1>1, <1>2 DEF WalkSound, Successors
<1>5. WalkFrontier'
  <2>1. reachable' \cup Range(todo') = reachable \cup Range(todo)
    BY <1>1, <1>2
  <2>2. Range(roots') \subseteq reachable' \cup Range(todo')
    BY <2>1, <1>0 DEF WalkFrontier
  <2>3. Range(queue') \subseteq reachable'
    BY <1>0, <1>2 DEF WalkFrontier
  <2>4. ASSUME NEW n \in reachable'
        PROVE  \/ n \in Range(queue')
               \/ Range(outgoing'[n]) \subseteq reachable' \cup Range(todo')
    <3>1. CASE n \in reachable
      BY <3>1, <2>1, <1>0, <1>2 DEF WalkFrontier
    <3>2. CASE n \notin reachable
      BY <3>2, <1>2
    <3> QED
      BY <3>1, <3>2
  <2> QED
    BY <2>2, <2>3, <2>4 DEF WalkFrontier
<1> QED
  BY <1>3, <1>4, <1>5 DEF WalkInv

(* So does taking the next node from the queue.                            *)
LEMMA PopFrontPreserves ==
  ASSUME WalkInv, PopFront
  PROVE  WalkInv'
<1> DEFINE node == Head(queue)
<1>0. /\ WalkTypeOK /\ WalkSound /\ WalkFrontier
      /\ todo = <<>> /\ queue # <<>>
      /\ todo' = outgoing[node] /\ queue' = Tail(queue)
      /\ outgoing' = outgoing /\ roots' = roots /\ reachable' = reachable
  BY DEF WalkInv, PopFront
<1>1. /\ node \in Node
      /\ queue' \in Seq(Node)
      /\ Range(queue) = {node} \cup Range(queue')
  BY <1>0, RangeHeadTail DEF WalkTypeOK
<1>2. node \in reachable /\ Range(todo) = {}
  BY <1>0, <1>1, RangeEmpty DEF WalkFrontier
<1>3. WalkTypeOK'
  BY <1>0, <1>1 DEF WalkTypeOK
<1>4. WalkSound'
  BY <1>0, <1>1, <1>2 DEF WalkSound, Successors, ClosedUnder
<1>5. WalkFrontier'
  BY <1>0, <1>1, <1>2 DEF WalkFrontier
<1> QED
  BY <1>3, <1>4, <1>5 DEF WalkInv

(* An idle walk has marked exactly what the roots reach.                   *)
LEMMA IdleWalkIsExact ==
  ASSUME WalkInv, WalkIdle
  PROVE  reachable = ReachableFrom(Successors, Range(roots))
<1>1. /\ reachable \in SUBSET Node
      /\ Range(roots) \subseteq reachable
      /\ ClosedUnder(Successors, reachable)
  BY RangeEmpty
  DEF WalkInv, WalkTypeOK, WalkFrontier, WalkIdle, ClosedUnder, Successors
<1>2. ReachableFrom(Successors, Range(roots)) \subseteq reachable
  BY <1>1 DEF ReachableFrom
<1>3. reachable \subseteq ReachableFrom(Successors, Range(roots))
  BY <1>1 DEF WalkInv, WalkSound, ReachableFrom
<1> QED
  BY <1>2, <1>3

-----------------------------------------------------------------------------

FreshFacts ==
  pc = "limit" =>
     /\ \A f \in Node : facts[f].parse = Parsed(f) /\ facts[f].imports = {}
     /\ cursor = 1

LimitedFacts ==
  pc # "limit" =>
     /\ ~Dropped => \A f \in Node : facts[f].parse = Parsed(f)
     /\ Dropped => \E i \in DOMAIN facts[1].parse : facts[1].parse[i].blocks

ResolvedPrefix ==
  /\ \A f \in Node : f < cursor => facts[f].imports = ImportDiagnostics(f)
  /\ pc \in {"limit", "resolve"} =>
        \A f \in Node : edges[f] = IF f < cursor THEN ImportTargets(f) ELSE {}

WalkedGraph ==
  pc \in {"walk", "done"} =>
     /\ cursor = FileCount + 1
     /\ Successors = Loads
     /\ WalkInv

ReportInv ==
  pc = "done" =>
     /\ WalkIdle
     /\ statuses = [f \in Node |-> Classified(f)]
     /\ findings = IF ReachableBlocker THEN {}
                   ELSE ComponentsWithin({f \in Node : Classified(f) = "Unreachable"})
     /\ status = IF \E f \in Node : Blocked(f) THEN "Incomplete" ELSE "Complete"

IInv == /\ TypeOK
        /\ FreshFacts
        /\ LimitedFacts
        /\ ResolvedPrefix
        /\ WalkedGraph
        /\ ReportInv

-----------------------------------------------------------------------------
(* The data of the constants                                               *)

LEMMA FirstFile == 1 \in Node
BY FileAssumption

(* A program's diagnostics are a sequence of diagnostics about its file.   *)
LEMMA ParsedFromPrograms ==
  ASSUME NEW f \in Node, program[f] \in Programs[f]
  PROVE  /\ program[f].parse \in Seq([code : ParseCodes, blocks : BOOLEAN])
         /\ Parsed(f) \in Seq(Diagnostic)
         /\ DOMAIN Parsed(f) = DOMAIN program[f].parse
         /\ program[f].imports \in Seq(Import)
<1>1. program[f] \in UNION Range(Programs)
  BY ProgramAssumption DEF Range
<1>2. /\ program[f].parse \in Seq([code : ParseCodes, blocks : BOOLEAN])
      /\ program[f].imports \in Seq(Import)
  BY <1>1, ProgramAssumption
<1>3. /\ DOMAIN program[f].parse = 1..Len(program[f].parse)
      /\ Len(program[f].parse) \in Nat
      /\ \A i \in 1..Len(program[f].parse) :
            program[f].parse[i] \in [code : ParseCodes, blocks : BOOLEAN]
  BY <1>2, LenProperties, ElementOfSeq
<1>4. \A i \in 1..Len(program[f].parse) : Parsed(f)[i] \in Diagnostic
  BY <1>3 DEF Parsed, Diagnostic
<1>5. Parsed(f) \in [1..Len(program[f].parse) -> Diagnostic]
  BY <1>3, <1>4 DEF Parsed
<1>6. Parsed(f) \in Seq(Diagnostic)
  BY <1>3, <1>5, SeqDef
<1> QED
  BY <1>2, <1>5, <1>6, <1>3 DEF Parsed

LEMMA ParsedType ==
  ASSUME TypeOK, NEW f \in Node
  PROVE  /\ Parsed(f) \in Seq(Diagnostic)
         /\ DOMAIN Parsed(f) = DOMAIN program[f].parse
         /\ program[f].imports \in Seq(Import)
BY ParsedFromPrograms DEF TypeOK

(* In a parsed program, what is fatal also blocks.                         *)
LEMMA FatalBlocks ==
  ASSUME TypeOK, NEW f \in Node, NEW i \in DOMAIN program[f].parse,
         program[f].parse[i].code \in FatalCodes
  PROVE  program[f].parse[i].blocks
<1>1. program[f] \in UNION Range(Programs)
  BY ProgramAssumption DEF TypeOK, Range
<1> QED
  BY <1>1, ProgramAssumption

-----------------------------------------------------------------------------
(* The diagnostic limit keeps a prefix of every file's diagnostics.        *)

LEMMA KeptType ==
  ASSUME TypeOK, NEW f \in Node
  PROVE  Kept(f) \in Seq(Diagnostic)
<1> DEFINE s == facts[f].parse
           c == Cardinality(KeptPositions(f))
<1>1. /\ s \in Seq(Diagnostic)
      /\ Len(s) \in Nat
      /\ DOMAIN s = 1..Len(s)
      /\ \A i \in 1..Len(s) : s[i] \in Diagnostic
  BY LenProperties, ElementOfSeq DEF TypeOK
<1>2. /\ IsFiniteSet(1..Len(s))
      /\ Cardinality(1..Len(s)) = Len(s)
  BY <1>1, FS_Interval
<1>3. KeptPositions(f) \subseteq 1..Len(s)
  BY <1>1 DEF KeptPositions
<1>4. /\ IsFiniteSet(KeptPositions(f))
      /\ c <= Cardinality(1..Len(s))
  BY <1>2, <1>3, FS_Subset
<1>5. c \in Nat /\ c <= Len(s)
  BY <1>2, <1>4, FS_CardinalityType
<1>6. \A i \in 1..c : s[i] \in Diagnostic
  BY <1>1, <1>5
<1>7. [i \in 1..c |-> s[i]] \in Seq(Diagnostic)
  BY <1>5, <1>6, SeqDef
<1> QED
  BY <1>7 DEF Kept

LEMMA MarkerType == LimitMarker \in Diagnostic
<1>1. FirstOmitted \in Node \cup {ProjectPath}
  <2>1. CASE Omitted = {}
    BY <2>1 DEF FirstOmitted
  <2>2. CASE Omitted # {}
    <3>1. Omitted \subseteq Nat /\ Omitted \subseteq Node
      BY FileAssumption DEF Omitted
    <3>2. \E f \in Omitted : \A g \in Omitted : f <= g
      BY <2>2, <3>1, LeastElement
    <3> QED
      BY <2>2, <3>1, <3>2 DEF FirstOmitted
  <2> QED
    BY <2>1, <2>2
<1> QED
  BY <1>1 DEF LimitMarker, Diagnostic, ScanCodes

LEMMA TruncatedFactsType ==
  ASSUME TypeOK
  PROVE  /\ TruncatedFacts \in [Node -> [parse : Seq(Diagnostic), imports : SUBSET Diagnostic]]
         /\ \A f \in Node : TruncatedFacts[f].imports = facts[f].imports
         /\ \E i \in DOMAIN TruncatedFacts[1].parse : TruncatedFacts[1].parse[i].blocks
<1>1. \A f \in Node : Kept(f) \in Seq(Diagnostic)
  BY KeptType
<1>2. \A f \in Node : facts[f] \in [parse : Seq(Diagnostic), imports : SUBSET Diagnostic]
  BY DEF TypeOK
<1>3. /\ Append(Kept(1), LimitMarker) \in Seq(Diagnostic)
      /\ Len(Kept(1)) \in Nat
      /\ Len(Append(Kept(1), LimitMarker)) = Len(Kept(1)) + 1
      /\ Append(Kept(1), LimitMarker)[Len(Kept(1)) + 1] = LimitMarker
  BY <1>1, FirstFile, MarkerType, AppendProperties, LenProperties
<1>4. DOMAIN Append(Kept(1), LimitMarker) = 1..Len(Kept(1)) + 1
  BY <1>3, LenProperties
<1>5. TruncatedFacts[1].parse = Append(Kept(1), LimitMarker)
  BY <1>2, FirstFile DEF TruncatedFacts
<1>6. LimitMarker.blocks
  BY DEF LimitMarker
<1>7. \E i \in DOMAIN TruncatedFacts[1].parse : TruncatedFacts[1].parse[i].blocks
  <2>1. Len(Kept(1)) + 1 \in DOMAIN TruncatedFacts[1].parse
    BY <1>3, <1>4, <1>5
  <2>2. TruncatedFacts[1].parse[Len(Kept(1)) + 1] = LimitMarker
    BY <1>3, <1>5
  <2> QED
    BY <2>1, <2>2, <1>6
<1>8. \A f \in Node :
         /\ TruncatedFacts[f] \in [parse : Seq(Diagnostic), imports : SUBSET Diagnostic]
         /\ TruncatedFacts[f].imports = facts[f].imports
  BY <1>1, <1>2, <1>3 DEF TruncatedFacts
<1>9. TruncatedFacts = [f \in Node |-> TruncatedFacts[f]]
  BY DEF TruncatedFacts
<1>10. TruncatedFacts \in [Node -> [parse : Seq(Diagnostic), imports : SUBSET Diagnostic]]
  BY <1>8, <1>9, Zenon
<1> QED
  BY <1>7, <1>8, <1>10

-----------------------------------------------------------------------------
(* Import resolution                                                       *)

LEMMA ImportDiagnosticsType ==
  ASSUME NEW f \in Node
  PROVE  ImportDiagnostics(f) \subseteq Diagnostic
<1>1. /\ [code |-> "unresolved_import", path |-> f, blocks |-> TRUE] \in Diagnostic
      /\ [code |-> "resolved_into_excluded_path", path |-> f, blocks |-> FALSE] \in Diagnostic
  BY DEF Diagnostic, ScanCodes
<1> QED
  BY <1>1 DEF ImportDiagnostics

LEMMA ImportTargetsType ==
  ASSUME TypeOK, NEW f \in Node
  PROVE  ImportTargets(f) \subseteq Node
<1>1. Range(program[f].imports) \subseteq Import
  BY ParsedType, RangeOfSeq
<1>2. \A import \in Import : Targets(import) \subseteq Node
  BY DEF Import, Targets
<1> QED
  BY <1>1, <1>2 DEF ImportTargets

(* The graph of the walk is the graph the program describes.               *)
LEMMA GraphIsLoads ==
  ASSUME TypeOK, \A f \in Node : edges[f] = ImportTargets(f)
  PROVE  [f \in Node |-> WithPluginEdges[f]] = Loads
<1>1. ASSUME NEW f \in Node
      PROVE  WithPluginEdges[f] = Loads[f]
  <2>1. {e[2] : e \in {e \in pluginEdges : e[1] = f}} = {g \in Node : <<f, g>> \in pluginEdges}
    <3>1. pluginEdges \subseteq Node \X Node
      BY DEF TypeOK
    <3>2. \A e \in pluginEdges : e = <<e[1], e[2]>> /\ e[2] \in Node
      BY <3>1
    <3>3. \A g : <<f, g>>[1] = f /\ <<f, g>>[2] = g
      OBVIOUS
    <3> QED
      BY <3>2, <3>3
  <2>2. Range(program[f].imports) \subseteq Import
    BY ParsedType, RangeOfSeq
  <2>3. \A import \in Import :
           Targets(import) =
             {g \in Node : /\ ~import.deferred
                           /\ \/ g \in import.mapped
                              \/ import.mapped = {} /\ import.answer = "source" /\ import.target = g}
    BY DEF Import, Targets
  <2>4. ImportTargets(f) =
          {g \in Node : \E import \in Range(program[f].imports) :
              /\ ~import.deferred
              /\ \/ g \in import.mapped
                 \/ import.mapped = {} /\ import.answer = "source" /\ import.target = g}
    BY <2>2, <2>3 DEF ImportTargets
  <2> QED
    BY <2>1, <2>4 DEF WithPluginEdges, Loads
<1> QED
  BY <1>1 DEF Loads, WithPluginEdges

-----------------------------------------------------------------------------
(* The invariant holds at the start ...                                    *)

LEMMA InitEstablishes == Init => IInv
<1> SUFFICES ASSUME Init PROVE IInv
  OBVIOUS
<1> USE DEF Init
<1>1. TypeOK
  <2>1. DOMAIN program = Node /\ \A f \in Node : program[f] \in Programs[f]
    OBVIOUS
  <2>2. program \in {p \in [Node -> UNION Range(Programs)] :
                       \A f \in Node : p[f] \in Programs[f]}
    OBVIOUS
  <2>3. \A f \in Node : Parsed(f) \in Seq(Diagnostic)
    BY <2>1, ParsedFromPrograms
  <2>4. facts \in [Node -> [parse : Seq(Diagnostic), imports : SUBSET Diagnostic]]
    BY <2>3
  <2>5. WalkTypeOK
    BY EntryAssumption DEF WalkTypeOK, NoGraph
  <2>6. pluginEdges \subseteq Node \X Node
    BY PluginAssumption
  <2>7. cursor \in 1..FileCount + 1
    BY FileAssumption
  <2> QED
    BY <2>1, <2>4, <2>5, <2>6, <2>7 DEF TypeOK, Stages, FileStatuses
<1>2. FreshFacts
  BY DEF FreshFacts
<1>3. LimitedFacts /\ WalkedGraph /\ ReportInv
  BY DEF LimitedFacts, WalkedGraph, ReportInv
<1>4. ResolvedPrefix
  BY FileAssumption DEF ResolvedPrefix
<1> QED
  BY <1>1, <1>2, <1>3, <1>4 DEF IInv

(* ... and every action keeps it.                                          *)

LEMMA LimitPreserves ==
  ASSUME IInv, EnforceDiagnosticLimit
  PROVE  IInv'
<1>0. /\ TypeOK /\ FreshFacts /\ ResolvedPrefix
      /\ pc = "limit" /\ pc' = "resolve"
      /\ facts' = IF OverLimit THEN TruncatedFacts ELSE facts
      /\ UNCHANGED <<walkVars, inputVars, cursor, edges, reportVars>>
  BY DEF IInv, EnforceDiagnosticLimit
<1>1. /\ facts' \in [Node -> [parse : Seq(Diagnostic), imports : SUBSET Diagnostic]]
      /\ \A f \in Node : facts'[f].imports = facts[f].imports
  BY <1>0, TruncatedFactsType DEF TypeOK
<1>2. TypeOK'
  BY <1>0, <1>1 DEF TypeOK, WalkTypeOK, walkVars, inputVars, reportVars, Stages
<1>3. OverLimit <=> Dropped
  <2>1. \A f \in Node : DOMAIN facts[f].parse = DOMAIN program[f].parse
    BY <1>0, ParsedType DEF FreshFacts
  <2>2. Positions = ParseDiagnostics
    BY <2>1 DEF Positions, ParseDiagnostics
  <2> QED
    BY <2>2 DEF OverLimit, Dropped
<1>4. Dropped' = Dropped
  BY <1>0 DEF Dropped, ParseDiagnostics, Limit, inputVars
<1>5. LimitedFacts'
  <2>1. CASE Dropped
    BY <2>1, <1>0, <1>3, <1>4, TruncatedFactsType DEF LimitedFacts
  <2>2. CASE ~Dropped
    BY <2>2, <1>0, <1>3, <1>4 DEF LimitedFacts, FreshFacts, Parsed, inputVars
  <2> QED
    BY <2>1, <2>2
<1>6. ResolvedPrefix'
  <2>1. \A f \in Node : ImportDiagnostics(f)' = ImportDiagnostics(f)
    BY <1>0 DEF ImportDiagnostics, IsGap, IsExcluded, inputVars
  <2>2. \A f \in Node : ImportTargets(f)' = ImportTargets(f)
    BY <1>0 DEF ImportTargets, inputVars
  <2> QED
    BY <2>1, <2>2, <1>0, <1>1 DEF ResolvedPrefix
<1>7. FreshFacts' /\ WalkedGraph' /\ ReportInv'
  BY <1>0 DEF FreshFacts, WalkedGraph, ReportInv
<1> QED
  BY <1>2, <1>5, <1>6, <1>7 DEF IInv

LEMMA ResolvePreserves ==
  ASSUME IInv, ResolveFile
  PROVE  IInv'
<1>0. /\ TypeOK /\ LimitedFacts /\ ResolvedPrefix
      /\ pc = "resolve" /\ pc' = "resolve"
      /\ cursor <= FileCount /\ cursor' = cursor + 1
      /\ edges' = [edges EXCEPT ![cursor] = @ \cup ImportTargets(cursor)]
      /\ facts' = [facts EXCEPT ![cursor].imports = ImportDiagnostics(cursor)]
      /\ UNCHANGED <<walkVars, inputVars, reportVars>>
  BY DEF IInv, ResolveFile
<1>1. cursor \in Node /\ cursor \in Nat
  BY <1>0, FileAssumption DEF TypeOK
<1>2. /\ facts' \in [Node -> [parse : Seq(Diagnostic), imports : SUBSET Diagnostic]]
      /\ \A f \in Node : facts'[f].parse = facts[f].parse
      /\ facts'[cursor].imports = ImportDiagnostics(cursor)
      /\ \A f \in Node \ {cursor} : facts'[f].imports = facts[f].imports
  <2>1. /\ facts \in [Node -> [parse : Seq(Diagnostic), imports : SUBSET Diagnostic]]
        /\ ImportDiagnostics(cursor) \in SUBSET Diagnostic
    BY <1>0, <1>1, ImportDiagnosticsType DEF TypeOK
  <2>2. \A f \in Node : facts'[f] = IF f = cursor
                                     THEN [facts[f] EXCEPT !.imports = ImportDiagnostics(cursor)]
                                     ELSE facts[f]
    BY <1>0, <2>1
  <2>3. \A r \in [parse : Seq(Diagnostic), imports : SUBSET Diagnostic] :
        \A d \in SUBSET Diagnostic :
           /\ [r EXCEPT !.imports = d] \in [parse : Seq(Diagnostic), imports : SUBSET Diagnostic]
           /\ [r EXCEPT !.imports = d].parse = r.parse
           /\ [r EXCEPT !.imports = d].imports = d
    OBVIOUS
  <2>4. \A f \in Node :
           /\ facts'[f] \in [parse : Seq(Diagnostic), imports : SUBSET Diagnostic]
           /\ facts'[f].parse = facts[f].parse
           /\ f = cursor => facts'[f].imports = ImportDiagnostics(cursor)
           /\ f # cursor => facts'[f].imports = facts[f].imports
    <3> SUFFICES ASSUME NEW f \in Node
                 PROVE  /\ facts'[f] \in [parse : Seq(Diagnostic), imports : SUBSET Diagnostic]
                        /\ facts'[f].parse = facts[f].parse
                        /\ f = cursor => facts'[f].imports = ImportDiagnostics(cursor)
                        /\ f # cursor => facts'[f].imports = facts[f].imports
      OBVIOUS
    <3>1. facts[f] \in [parse : Seq(Diagnostic), imports : SUBSET Diagnostic]
      BY <2>1
    <3>2. CASE f = cursor
      <4>1. facts'[f] = [facts[f] EXCEPT !.imports = ImportDiagnostics(cursor)]
        BY <2>2, <3>2
      <4> QED
        BY <4>1, <3>1, <3>2, <2>1, <2>3
    <3>3. CASE f # cursor
      BY <2>2, <3>1, <3>3
    <3> QED
      BY <3>2, <3>3
  <2>5. facts' = [f \in Node |-> facts'[f]]
    BY <1>0, <2>1
  <2>6. facts' \in [Node -> [parse : Seq(Diagnostic), imports : SUBSET Diagnostic]]
    BY <2>4, <2>5, Zenon
  <2> QED
    BY <1>1, <2>4, <2>6
<1>3. /\ edges' \in [Node -> SUBSET Node]
      /\ edges'[cursor] = ImportTargets(cursor)
      /\ \A f \in Node \ {cursor} : edges'[f] = edges[f]
  <2>1. edges[cursor] = {}
    BY <1>0, <1>1 DEF ResolvedPrefix
  <2> QED
    BY <2>1, <1>0, <1>1, ImportTargetsType DEF TypeOK
<1>4. TypeOK'
  <2>1. cursor' \in 1..FileCount + 1
    BY <1>0, <1>1, FileAssumption
  <2> QED
    BY <2>1, <1>0, <1>2, <1>3
    DEF TypeOK, WalkTypeOK, walkVars, inputVars, reportVars, Stages
<1>5. LimitedFacts'
  <2>1. Dropped' = Dropped
    BY <1>0 DEF Dropped, ParseDiagnostics, Limit, inputVars
  <2>2. \A f \in Node : Parsed(f)' = Parsed(f)
    BY <1>0 DEF Parsed, inputVars
  <2>3. CASE Dropped
    BY <2>1, <2>3, <1>0, <1>2, FirstFile DEF LimitedFacts
  <2>4. CASE ~Dropped
    BY <2>1, <2>2, <2>4, <1>0, <1>2 DEF LimitedFacts
  <2> QED
    BY <2>3, <2>4
<1>6. ResolvedPrefix'
  <2>1. \A f \in Node : ImportDiagnostics(f)' = ImportDiagnostics(f)
    BY <1>0 DEF ImportDiagnostics, IsGap, IsExcluded, inputVars
  <2>2. \A f \in Node : ImportTargets(f)' = ImportTargets(f)
    BY <1>0 DEF ImportTargets, inputVars
  <2>3. \A f \in Node : f < cursor' <=> f < cursor \/ f = cursor
    BY <1>0, <1>1, FileAssumption
  <2>4. \A f \in Node : f < cursor => f # cursor
    BY <1>1, FileAssumption
  <2>5. \A f \in Node : f < cursor' => facts'[f].imports = ImportDiagnostics(f)
    BY <2>3, <2>4, <1>0, <1>2 DEF ResolvedPrefix
  <2>6. \A f \in Node : edges'[f] = IF f < cursor' THEN ImportTargets(f) ELSE {}
    BY <2>3, <2>4, <1>0, <1>1, <1>3 DEF ResolvedPrefix
  <2> QED
    BY <2>1, <2>2, <2>5, <2>6 DEF ResolvedPrefix
<1>7. FreshFacts' /\ WalkedGraph' /\ ReportInv'
  BY <1>0 DEF FreshFacts, WalkedGraph, ReportInv
<1> QED
  BY <1>4, <1>5, <1>6, <1>7 DEF IInv

LEMMA FinishPreserves ==
  ASSUME IInv, FinishGraph
  PROVE  IInv'
<1>0. /\ TypeOK /\ LimitedFacts /\ ResolvedPrefix
      /\ pc = "resolve" /\ pc' = "walk"
      /\ cursor = FileCount + 1
      /\ edges' = WithPluginEdges
      /\ StartWalk([f \in Node |-> ListOf[WithPluginEdges[f]]], roots)
      /\ UNCHANGED <<inputVars, facts, cursor, reportVars>>
  BY DEF IInv, FinishGraph
<1>1. WithPluginEdges \in [Node -> SUBSET Node]
  BY <1>0 DEF WithPluginEdges, TypeOK
<1>2. [f \in Node |-> ListOf[WithPluginEdges[f]]] \in [Node -> Seq(Node)]
  BY <1>1, ListAssumption
<1>3. roots \in Seq(Node)
  BY <1>0 DEF TypeOK, WalkTypeOK
<1>4. WalkInv'
  BY <1>0, <1>2, <1>3, StartWalkEstablishes
<1>5. Successors' = Loads'
  <2>1. \A f \in Node : edges[f] = ImportTargets(f)
    BY <1>0, FileAssumption DEF ResolvedPrefix
  <2>2. WithPluginEdges = Loads
    <3>1. WithPluginEdges = [f \in Node |-> WithPluginEdges[f]]
      BY DEF WithPluginEdges
    <3> QED
      BY <3>1, <2>1, <1>0, GraphIsLoads
  <2>3. \A f \in Node : outgoing'[f] = ListOf[WithPluginEdges[f]]
    BY <1>0 DEF StartWalk
  <2>4. \A f \in Node : Range(outgoing'[f]) = WithPluginEdges[f]
    BY <2>3, <1>1, ListAssumption
  <2>5. Successors' = Loads
    BY <2>2, <2>4, <1>1 DEF Successors, Loads
  <2>6. Loads' = Loads
    BY <1>0 DEF Loads, inputVars
  <2> QED
    BY <2>5, <2>6
<1>6. TypeOK'
  BY <1>0, <1>1, <1>4
  DEF TypeOK, WalkInv, inputVars, reportVars, Stages
<1>7. LimitedFacts'
  BY <1>0 DEF LimitedFacts, Dropped, ParseDiagnostics, Limit, Parsed, inputVars
<1>8. ResolvedPrefix'
  <2>1. \A f \in Node : ImportDiagnostics(f)' = ImportDiagnostics(f)
    BY <1>0 DEF ImportDiagnostics, IsGap, IsExcluded, inputVars
  <2> QED
    BY <2>1, <1>0 DEF ResolvedPrefix
<1>9. FreshFacts' /\ ReportInv'
  BY <1>0 DEF FreshFacts, ReportInv
<1>10. WalkedGraph'
  BY <1>0, <1>4, <1>5 DEF WalkedGraph
<1> QED
  BY <1>6, <1>7, <1>8, <1>9, <1>10 DEF IInv

(* A step that leaves the inputs, the facts and the graph alone keeps what *)
(* the invariant says of them.                                             *)
LEMMA LaterStagesFrame ==
  ASSUME IInv, pc = "walk", pc' \in {"walk", "done"},
         UNCHANGED <<outgoing, inputVars, facts, cursor, edges>>,
         WalkInv'
  PROVE  /\ FreshFacts' /\ LimitedFacts' /\ ResolvedPrefix' /\ WalkedGraph'
         /\ WalkTypeOK'
<1>0. /\ LimitedFacts /\ ResolvedPrefix /\ WalkedGraph
      /\ UNCHANGED <<outgoing, program, universe, pluginEdges, facts, cursor, edges>>
  BY DEF IInv, inputVars
<1>1. FreshFacts'
  BY DEF FreshFacts
<1>2. LimitedFacts'
  BY <1>0 DEF LimitedFacts, Dropped, ParseDiagnostics, Limit, Parsed
<1>3. ResolvedPrefix'
  <2>1. \A f \in Node : ImportDiagnostics(f)' = ImportDiagnostics(f)
    BY <1>0 DEF ImportDiagnostics, IsGap, IsExcluded
  <2> QED
    BY <2>1, <1>0 DEF ResolvedPrefix
<1>4. WalkedGraph'
  BY <1>0 DEF WalkedGraph, Successors, Loads
<1> QED
  BY <1>1, <1>2, <1>3, <1>4 DEF WalkInv

LEMMA WalkPreserves ==
  ASSUME IInv, Walk
  PROVE  IInv'
<1>0. /\ TypeOK /\ WalkedGraph
      /\ pc = "walk" /\ WalkStep
      /\ UNCHANGED <<inputVars, pc, facts, cursor, edges, reportVars>>
  BY DEF IInv, Walk
<1>1. WalkInv' /\ outgoing' = outgoing
  BY <1>0, MarkTargetPreserves, PopFrontPreserves
  DEF WalkedGraph, WalkStep, MarkTarget, PopFront
<1>2. /\ FreshFacts' /\ LimitedFacts' /\ ResolvedPrefix' /\ WalkedGraph'
      /\ WalkTypeOK'
  BY <1>0, <1>1, LaterStagesFrame
<1>3. TypeOK'
  BY <1>0, <1>2 DEF TypeOK, inputVars, reportVars
<1>4. ReportInv'
  BY <1>0 DEF ReportInv
<1> QED
  BY <1>2, <1>3, <1>4 DEF IInv

LEMMA ClassifyPreserves ==
  ASSUME IInv, Classify
  PROVE  IInv'
<1>0. /\ TypeOK /\ WalkedGraph
      /\ pc = "walk" /\ pc' = "done" /\ WalkIdle
      /\ UNCHANGED <<walkVars, inputVars, facts, cursor, edges>>
  BY DEF IInv, Classify
<1>1. WalkInv'
  BY <1>0
  DEF WalkedGraph, WalkInv, WalkTypeOK, WalkSound, WalkFrontier, Successors, walkVars
<1>2. /\ FreshFacts' /\ LimitedFacts' /\ ResolvedPrefix' /\ WalkedGraph'
      /\ WalkTypeOK'
  BY <1>0, <1>1, LaterStagesFrame DEF walkVars
<1>3. ReportInv'
  <2>1. /\ \A f \in Node : Classified(f)' = Classified(f)
        /\ ReachableBlocker' = ReachableBlocker
        /\ \A f \in Node : Blocked(f)' = Blocked(f)
    BY <1>0
    DEF Classified, ReachableBlocker, HasFatal, Blocked, Diagnostics, walkVars
  <2>2. \A inc \in SUBSET Node : ComponentsWithin(inc)' = ComponentsWithin(inc)
    BY <1>0 DEF ComponentsWithin, walkVars
  <2>3. WalkIdle'
    BY <1>0 DEF WalkIdle, walkVars
  <2> QED
    BY <2>1, <2>2, <2>3 DEF ReportInv, Classify
<1>4. TypeOK'
  <2>1. statuses' \in [Node -> FileStatuses]
    BY DEF Classify, Classified, FileStatuses
  <2>2. findings' \subseteq SUBSET Node
    BY DEF Classify, ComponentsWithin
  <2>3. status' \in {"Complete", "Incomplete"}
    BY DEF Classify
  <2> QED
    BY <2>1, <2>2, <2>3, <1>0, <1>2 DEF TypeOK, inputVars, Stages
<1> QED
  BY <1>2, <1>3, <1>4 DEF IInv

LEMMA StutterPreserves ==
  ASSUME IInv, UNCHANGED vars
  PROVE  IInv'
<1>0. /\ UNCHANGED <<outgoing, roots, todo, queue, reachable>>
      /\ UNCHANGED <<program, universe, pluginEdges, pc, facts, cursor, edges>>
      /\ UNCHANGED <<statuses, findings, status>>
      /\ TypeOK /\ FreshFacts /\ LimitedFacts /\ ResolvedPrefix
      /\ WalkedGraph /\ ReportInv
  BY DEF IInv, vars, walkVars, inputVars, reportVars
<1>1. TypeOK'
  BY <1>0 DEF TypeOK, WalkTypeOK
<1>2. FreshFacts' /\ LimitedFacts'
  BY <1>0 DEF FreshFacts, LimitedFacts, Dropped, ParseDiagnostics, Parsed
<1>3. ResolvedPrefix'
  <2>1. \A f \in Node : ImportDiagnostics(f)' = ImportDiagnostics(f)
    BY <1>0 DEF ImportDiagnostics, IsGap, IsExcluded
  <2>2. \A f \in Node : ImportTargets(f)' = ImportTargets(f)
    BY <1>0 DEF ImportTargets
  <2> QED
    BY <2>1, <2>2, <1>0 DEF ResolvedPrefix
<1>4. WalkedGraph'
  <2>1. Successors' = Successors /\ Loads' = Loads
    BY <1>0 DEF Successors, Loads
  <2>2. WalkInv => WalkInv'
    BY <2>1, <1>0
    DEF WalkInv, WalkTypeOK, WalkSound, WalkFrontier, ClosedUnder
  <2> QED
    BY <2>1, <2>2, <1>0 DEF WalkedGraph
<1>5. ReportInv'
  <2>1. /\ \A f \in Node : Classified(f)' = Classified(f)
        /\ ReachableBlocker' = ReachableBlocker
        /\ \A f \in Node : Blocked(f)' = Blocked(f)
    BY <1>0 DEF Classified, ReachableBlocker, HasFatal, Blocked, Diagnostics
  <2>2. \A inc \in SUBSET Node : ComponentsWithin(inc)' = ComponentsWithin(inc)
    BY <1>0 DEF ComponentsWithin
  <2>3. WalkIdle' = WalkIdle
    BY <1>0 DEF WalkIdle
  <2> QED
    BY <2>1, <2>2, <2>3, <1>0 DEF ReportInv
<1> QED
  BY <1>1, <1>2, <1>3, <1>4, <1>5 DEF IInv

THEOREM Invariant == Spec => []IInv
<1>1. IInv /\ [Next]_vars => IInv'
  BY LimitPreserves, ResolvePreserves, FinishPreserves, WalkPreserves,
     ClassifyPreserves, StutterPreserves DEF Next, Done
<1> QED
  BY InitEstablishes, <1>1, PTL DEF Spec

-----------------------------------------------------------------------------
(* What the invariant says of a finished report                            *)

LEMMA DoneFacts ==
  ASSUME IInv, pc = "done"
  PROVE  /\ reachable = Live
         /\ statuses = [f \in Node |-> Classified(f)]
         /\ findings = IF ReachableBlocker THEN {}
                       ELSE ComponentsWithin({f \in Node : Classified(f) = "Unreachable"})
         /\ status = IF \E f \in Node : Blocked(f) THEN "Incomplete" ELSE "Complete"
         /\ \A f \in Node : facts[f].imports = ImportDiagnostics(f)
<1>1. reachable = ReachableFrom(Successors, Range(roots))
  <2>1. WalkInv /\ WalkIdle
    BY DEF IInv, WalkedGraph, ReportInv
  <2> QED
    BY <2>1, IdleWalkIsExact
<1>2. reachable = Live
  BY <1>1 DEF Live, IInv, WalkedGraph
<1>3. \A f \in Node : f < cursor
  BY FileAssumption DEF IInv, WalkedGraph
<1> QED
  BY <1>2, <1>3 DEF IInv, ReportInv, ResolvedPrefix

(* Every file handed to the component search is in one of its components.  *)
LEMMA ComponentsCover ==
  ASSUME NEW included \in SUBSET Node
  PROVE  UNION ComponentsWithin(included) = included
<1> DEFINE inner == [f \in Node |-> IF f \in included
                                    THEN Range(outgoing[f]) \cap included ELSE {}]
<1>1. \A f \in included : f \in ReachableFrom(inner, {f})
  BY DEF ReachableFrom
<1>2. \A f \in included :
        f \in {g \in included : g \in ReachableFrom(inner, {f})
                              /\ f \in ReachableFrom(inner, {g})}
  BY <1>1
<1>3. ComponentsWithin(included) =
        {{g \in included : g \in ReachableFrom(inner, {f})
                         /\ f \in ReachableFrom(inner, {g})} : f \in included}
  BY DEF ComponentsWithin
<1> HIDE DEF inner
<1> QED
  BY <1>2, <1>3

(* A blocking import or parse diagnostic of the program, as long as it was *)
(* not dropped, blocks its file in the report.                             *)
LEMMA GapBlocks ==
  ASSUME IInv, pc = "done", ~Dropped, NEW f \in Node, CoverageGap(f)
  PROVE  Blocked(f)
<1>1. facts[f].parse = Parsed(f) /\ facts[f].imports = ImportDiagnostics(f)
  BY DoneFacts DEF IInv, LimitedFacts
<1>2. CASE \E i \in DOMAIN program[f].parse : program[f].parse[i].blocks
  <2>1. PICK i \in DOMAIN program[f].parse : program[f].parse[i].blocks
    BY <1>2
  <2>2. Parsed(f)[i] \in Range(facts[f].parse) /\ Parsed(f)[i].blocks
    BY <1>1, <2>1 DEF Parsed, Range
  <2> QED
    BY <2>2 DEF Blocked, Diagnostics
<1>3. CASE \E import \in Range(program[f].imports) : IsGap(import)
  <2>1. [code |-> "unresolved_import", path |-> f, blocks |-> TRUE] \in facts[f].imports
    BY <1>1, <1>3 DEF ImportDiagnostics
  <2> QED
    BY <2>1 DEF Blocked, Diagnostics
<1> QED
  BY <1>2, <1>3 DEF CoverageGap

LEMMA DroppedBlocks ==
  ASSUME IInv, pc = "done", Dropped
  PROVE  Blocked(1)
<1>1. PICK i \in DOMAIN facts[1].parse : facts[1].parse[i].blocks
  BY DEF IInv, LimitedFacts
<1>2. facts[1].parse[i] \in Range(facts[1].parse)
  BY DEF Range
<1> QED
  BY <1>1, <1>2 DEF Blocked, Diagnostics

(* Without a blocked file no file has a fatal diagnostic.                  *)
LEMMA FatalIsBlocked ==
  ASSUME IInv, pc = "done", ~Dropped, NEW f \in Node, HasFatal(f)
  PROVE  Blocked(f)
<1>1. /\ TypeOK
      /\ facts[f].parse = Parsed(f) /\ facts[f].imports = ImportDiagnostics(f)
  BY DoneFacts DEF IInv, LimitedFacts
<1>2. \A d \in ImportDiagnostics(f) : d.code \notin FatalCodes
  BY DEF ImportDiagnostics, FatalCodes
<1>3. PICK d \in Range(Parsed(f)) : d.code \in FatalCodes
  <2>1. PICK d \in Diagnostics(f) : d.code \in FatalCodes
    BY DEF HasFatal
  <2>2. d \in Range(Parsed(f))
    BY <2>1, <1>1, <1>2 DEF Diagnostics
  <2> QED
    BY <2>1, <2>2
<1>4. PICK i \in DOMAIN program[f].parse : d = Parsed(f)[i]
  BY <1>3, <1>1, ParsedType DEF Range
<1>5. program[f].parse[i].code \in FatalCodes /\ d.blocks = program[f].parse[i].blocks
  BY <1>3, <1>4 DEF Parsed
<1>6. d.blocks
  BY <1>1, <1>4, <1>5, FatalBlocks
<1> QED
  BY <1>1, <1>3, <1>6 DEF Blocked, Diagnostics

-----------------------------------------------------------------------------

(* Every variable of the scan keeps its type.                              *)
THEOREM TypeCorrect == Spec => []TypeOK
<1>1. IInv => TypeOK
  BY DEF IInv
<1> QED
  BY Invariant, <1>1, PTL

(* A complete report lists the files that no chain of imports or plugin    *)
(* edges reaches from an entry, and only those.                            *)
THEOREM CompleteReportIsExact == Spec => []CompleteIsExact
<1>1. IInv => CompleteIsExact
  <2> SUFFICES ASSUME IInv, pc = "done", status = "Complete"
               PROVE  /\ Reported = Node \ Live
                      /\ \A f \in Node : statuses[f] = "Reachable" <=> f \in Live
    BY DEF CompleteIsExact
  <2>1. \A f \in Node : ~Blocked(f)
    BY DoneFacts
  <2>2. ~Dropped
    BY <2>1, DroppedBlocks, FirstFile
  <2>3. \A f \in Node : ~HasFatal(f)
    BY <2>1, <2>2, FatalIsBlocked
  <2>4. ~ReachableBlocker
    BY <2>1 DEF ReachableBlocker, IInv, TypeOK, WalkTypeOK
  <2>5. \A f \in Node : Classified(f) = IF f \in Live THEN "Reachable" ELSE "Unreachable"
    BY <2>3, <2>4, DoneFacts DEF Classified
  <2>6. {f \in Node : Classified(f) = "Unreachable"} = Node \ Live
    BY <2>5
  <2>7. Reported = Node \ Live
    BY <2>4, <2>6, DoneFacts, ComponentsCover DEF Reported
  <2> QED
    BY <2>5, <2>7, DoneFacts
<1> QED
  BY Invariant, <1>1, PTL

(* As long as no diagnostic was dropped, an import, load or source that    *)
(* the scan could not follow in live code withholds every verdict.         *)
THEOREM LiveGapsWithhold == Spec => []LiveGapWithholdsVerdicts
<1>1. IInv => LiveGapWithholdsVerdicts
  <2> SUFFICES ASSUME IInv, pc = "done", ~Dropped, NEW g \in Live, CoverageGap(g)
               PROVE  /\ findings = {}
                      /\ \A f \in Node : statuses[f] # "Unreachable"
                      /\ status = "Incomplete"
    BY DEF LiveGapWithholdsVerdicts
  <2>1. g \in Node /\ g \in reachable
    BY DoneFacts DEF Live, ReachableFrom
  <2>2. Blocked(g)
    BY <2>1, GapBlocks
  <2>3. ReachableBlocker
    BY <2>1, <2>2 DEF ReachableBlocker
  <2>4. \A f \in Node : Classified(f) # "Unreachable"
    BY <2>3 DEF Classified
  <2> QED
    BY <2>1, <2>2, <2>3, <2>4, DoneFacts
<1> QED
  BY Invariant, <1>1, PTL

(* A file that failed to parse is incomplete and never reported.           *)
THEOREM BrokenFilesAreKept == Spec => []BrokenFileIsNeverUnused
<1>1. IInv => BrokenFileIsNeverUnused
  <2> SUFFICES ASSUME IInv, pc = "done", ~Dropped, NEW f \in Node,
                      NEW i \in DOMAIN program[f].parse,
                      program[f].parse[i].code \in FatalCodes
               PROVE  statuses[f] = "Incomplete" /\ f \notin Reported
    BY DEF BrokenFileIsNeverUnused
  <2>1. facts[f].parse = Parsed(f)
    BY DEF IInv, LimitedFacts
  <2>2. Parsed(f)[i] \in Diagnostics(f) /\ Parsed(f)[i].code \in FatalCodes
    BY <2>1 DEF Parsed, Diagnostics, Range
  <2>3. Classified(f) = "Incomplete"
    BY <2>2 DEF HasFatal, Classified
  <2>4. f \notin {g \in Node : Classified(g) = "Unreachable"}
    BY <2>3
  <2>5. f \notin Reported
    BY <2>4, DoneFacts, ComponentsCover DEF Reported
  <2> QED
    BY <2>3, <2>5, DoneFacts
<1> QED
  BY Invariant, <1>1, PTL

(* A report whose diagnostics hit the limit never claims to be complete.   *)
THEOREM DroppedReportsAreIncomplete == Spec => []DroppedIsIncomplete
<1>1. IInv => DroppedIsIncomplete
  BY DroppedBlocks, DoneFacts, FirstFile DEF DroppedIsIncomplete
<1> QED
  BY Invariant, <1>1, PTL

=============================================================================
