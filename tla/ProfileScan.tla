---------------------------- MODULE ProfileScan ----------------------------
(***************************************************************************)
(* The analysis of one target profile, scan_internal in                    *)
(* application/scan.rs: the diagnostic limit on the parsed facts, import   *)
(* resolution into a file graph, the walk from the entries, and the        *)
(* classification of every file.  The walk is module Worklist.             *)
(*                                                                         *)
(* A file is its FileId, its index in path order.  What the parser and the *)
(* resolver say about a file is its program: the diagnostics of parsing,   *)
(* and one record per import fact with the resolver's answer to it.        *)
(***************************************************************************)
EXTENDS Worklist, FiniteSets

CONSTANTS FileCount,       \* number of prepared files
          ParseCodes,      \* the codes of the parser's diagnostics
          Programs,        \* per file, the programs it may have
          EntryLists,      \* the entry lists a request may carry
          PluginEdgeSets,  \* the edges plugins may contribute
          MaxDiagnostics,  \* AnalysisLimits::max_diagnostics
          ListOf           \* sort_unstable and dedup: a list of a set of ids

(* What the resolver and the path checks after it say of a specifier; a    *)
(* "source" is a file of the universe, the import's target.                *)
Answers == {"source", "external", "archive", "dependency", "asset", "outside",
            "foreign", "inside", "vanished", "missing"}

Import == [deferred : BOOLEAN,        \* Activation::Deferred
           mapped   : SUBSET Node,    \* targets of a WorkspaceModuleTarget
           member   : BOOLEAN,        \* the specifier names a workspace package
           declared : BOOLEAN,        \* ... a package of the manifest
           answer   : Answers,
           target   : Node]

ProjectPath == 0         \* the path "<project>"

ScanCodes == {"diagnostic_limit_exceeded", "unresolved_import",
              "resolved_into_excluded_path"}

Diagnostic == [code : ParseCodes \cup ScanCodes, path : Node \cup {ProjectPath},
               blocks : BOOLEAN]

FatalCodes == {"parse_failure", "semantic_failure", "unsupported_source_type"}

ASSUME FileAssumption == FileCount \in Nat \ {0} /\ Node = 1..FileCount

ASSUME ProgramAssumption ==
  /\ DOMAIN Programs = Node
  /\ \A p \in UNION Range(Programs) :
     /\ DOMAIN p = {"imports", "parse"}
     /\ p.imports \in Seq(Import)
     /\ p.parse \in Seq([code : ParseCodes, blocks : BOOLEAN])
     /\ \A i \in DOMAIN p.parse :
           p.parse[i].code \in FatalCodes => p.parse[i].blocks

ASSUME EntryAssumption == EntryLists \subseteq Seq(Node) \ {<<>>}

ASSUME PluginAssumption == PluginEdgeSets \subseteq SUBSET (Node \X Node)

ASSUME ListAssumption ==
  /\ ListOf \in [SUBSET Node -> Seq(Node)]
  /\ \A S \in SUBSET Node : Range(ListOf[S]) = S

ASSUME LimitAssumption == MaxDiagnostics \in Nat

VARIABLES program,     \* per file, what parsing and resolution will say of it
          universe,    \* SourceUniverseKind: "discovered" or "explicit"
          pluginEdges, \* AdditionalFileEdge, as <<from, to>> pairs
          pc,          \* the stage of scan_internal
          facts,       \* per file, its diagnostics: those of parsing in order,
                       \* and those import resolution adds
          cursor,      \* the file resolve_imports works on
          edges,       \* FileGraph under construction: targets per file
          statuses,    \* per file, its FileStatus
          findings,    \* the unusedFiles findings, each a set of files
          status       \* AnalysisStatus of the report

inputVars == <<program, universe, pluginEdges>>
reportVars == <<statuses, findings, status>>
vars == <<walkVars, inputVars, pc, facts, cursor, edges, reportVars>>

Stages == {"limit", "resolve", "walk", "done"}
FileStatuses == {"Reachable", "Unreachable", "Incomplete"}
NoGraph == [f \in Node |-> <<>>]

Parsed(f) == [i \in DOMAIN program[f].parse |->
                [code   |-> program[f].parse[i].code,
                 path   |-> f,
                 blocks |-> program[f].parse[i].blocks]]

TypeOK ==
  /\ WalkTypeOK
  /\ DOMAIN program = Node /\ \A f \in Node : program[f] \in Programs[f]
  /\ universe \in {"discovered", "explicit"}
  /\ pluginEdges \subseteq Node \X Node
  /\ pc \in Stages
  /\ facts \in [Node -> [parse : Seq(Diagnostic), imports : SUBSET Diagnostic]]
  /\ cursor \in 1..FileCount + 1
  /\ edges \in [Node -> SUBSET Node]
  /\ statuses \in [Node -> FileStatuses]
  /\ findings \subseteq SUBSET Node
  /\ status \in {"Complete", "Incomplete"}

Init ==
  /\ program \in {p \in [Node -> UNION Range(Programs)] :
                    \A f \in Node : p[f] \in Programs[f]}
  /\ universe \in {"discovered", "explicit"}
  /\ pluginEdges \in PluginEdgeSets
  /\ roots \in EntryLists
  /\ outgoing = NoGraph /\ todo = <<>> /\ queue = <<>> /\ reachable = {}
  /\ pc = "limit"
  /\ facts = [f \in Node |-> [parse |-> Parsed(f), imports |-> {}]]
  /\ cursor = 1
  /\ edges = [f \in Node |-> {}]
  /\ statuses = [f \in Node |-> "Incomplete"]
  /\ findings = {}
  /\ status = "Incomplete"

-----------------------------------------------------------------------------
(* enforce_diagnostic_limit.  The parsed diagnostics are counted in file   *)
(* order; beyond the limit all but the first limit - 1 are dropped and a   *)
(* blocking marker joins the diagnostics of the FIRST file.                *)

Limit == IF MaxDiagnostics = 0 THEN 1 ELSE MaxDiagnostics

Positions == UNION {{f} \X DOMAIN facts[f].parse : f \in Node}

Before(f, i) == {p \in Positions : p[1] < f \/ (p[1] = f /\ p[2] < i)}

KeptPositions(f) ==
  {i \in DOMAIN facts[f].parse : Cardinality(Before(f, i)) < Limit - 1}

Kept(f) == [i \in 1..Cardinality(KeptPositions(f)) |-> facts[f].parse[i]]

OverLimit == Cardinality(Positions) > Limit

Omitted == {f \in Node : KeptPositions(f) # DOMAIN facts[f].parse}

FirstOmitted == IF Omitted = {} THEN ProjectPath
                ELSE CHOOSE f \in Omitted : \A g \in Omitted : f <= g

LimitMarker ==
  [code |-> "diagnostic_limit_exceeded", path |-> FirstOmitted, blocks |-> TRUE]

TruncatedFacts ==
  [f \in Node |->
     [facts[f] EXCEPT !.parse =
        IF f = 1 THEN Append(Kept(f), LimitMarker) ELSE Kept(f)]]

EnforceDiagnosticLimit ==
  /\ pc = "limit"
  /\ pc' = "resolve"
  /\ facts' = IF OverLimit THEN TruncatedFacts ELSE facts
  /\ UNCHANGED <<walkVars, inputVars, cursor, edges, reportVars>>

-----------------------------------------------------------------------------
(* resolve_imports: what one import adds to the graph and the diagnostics. *)

LooksUp(import) == ~import.deferred /\ import.mapped = {}

Targets(import) ==
  IF import.deferred THEN {}
  ELSE IF import.mapped # {} THEN import.mapped
  ELSE {g \in Node : import.answer = "source" /\ g = import.target}

IsGap(import) ==
  /\ LooksUp(import)
  /\ \/ import.answer \in {"external", "archive"} /\ import.member
     \/ import.answer = "missing" /\ (import.member \/ ~import.declared)
     \/ import.answer = "inside" /\ universe = "explicit"
     \/ import.answer \in {"outside", "foreign", "vanished"}

IsExcluded(import) ==
  LooksUp(import) /\ import.answer = "inside" /\ universe = "discovered"

ImportDiagnostics(f) ==
  {[code |-> "unresolved_import", path |-> f, blocks |-> TRUE] :
     import \in {import \in Range(program[f].imports) : IsGap(import)}}
  \cup
  {[code |-> "resolved_into_excluded_path", path |-> f, blocks |-> FALSE] :
     import \in {import \in Range(program[f].imports) : IsExcluded(import)}}

ImportTargets(f) == UNION {Targets(import) : import \in Range(program[f].imports)}

ResolveFile ==
  /\ pc = "resolve"
  /\ cursor <= FileCount
  /\ edges' = [edges EXCEPT ![cursor] = @ \cup ImportTargets(cursor)]
  /\ facts' = [facts EXCEPT ![cursor].imports = ImportDiagnostics(cursor)]
  /\ cursor' = cursor + 1
  /\ UNCHANGED <<walkVars, inputVars, pc, reportVars>>

(* Variant: the plugins' edges are left out.                               *)
WithoutPluginEdges == [f \in Node |-> edges[f]]

(* add_additional_file_edges, FileGraph::finish, and the start of the walk *)
WithPluginEdges == [f \in Node |-> edges[f] \cup {e[2] : e \in {e \in pluginEdges : e[1] = f}}]

FinishGraph ==
  /\ pc = "resolve"
  /\ cursor = FileCount + 1
  /\ pc' = "walk"
  /\ edges' = WithPluginEdges
  /\ StartWalk([f \in Node |-> ListOf[WithPluginEdges[f]]], roots)
  /\ UNCHANGED <<inputVars, facts, cursor, reportVars>>

Walk ==
  /\ pc = "walk"
  /\ WalkStep
  /\ UNCHANGED <<inputVars, pc, facts, cursor, edges, reportVars>>

-----------------------------------------------------------------------------
(* classify_files, build_findings and the status of the report             *)

Diagnostics(f) == Range(facts[f].parse) \cup facts[f].imports

Blocked(f) == \E d \in Diagnostics(f) : d.blocks

HasFatal(f) == \E d \in Diagnostics(f) : d.code \in FatalCodes

(* Variant: only the entries are looked at.                                *)
EntryBlocker == \E f \in Range(roots) : Blocked(f)

ReachableBlocker == \E f \in reachable : Blocked(f)

Classified(f) ==
  IF HasFatal(f) \/ (ReachableBlocker /\ f \notin reachable) THEN "Incomplete"
  ELSE IF f \in reachable THEN "Reachable"
  ELSE "Unreachable"

(* FileGraph::components_within, by what it returns: the strongly          *)
(* connected components of the subgraph of the included files.             *)
ComponentsWithin(included) ==
  LET inner == [f \in Node |-> IF f \in included
                               THEN Range(outgoing[f]) \cap included ELSE {}]
      below(f) == ReachableFrom(inner, {f})
  IN  {{g \in included : g \in below(f) /\ f \in below(g)} : f \in included}

Classify ==
  /\ pc = "walk"
  /\ WalkIdle
  /\ pc' = "done"
  /\ statuses' = [f \in Node |-> Classified(f)]
  /\ findings' = IF ReachableBlocker THEN {}
                 ELSE ComponentsWithin({f \in Node : Classified(f) = "Unreachable"})
  /\ status' = IF \E f \in Node : Blocked(f) THEN "Incomplete" ELSE "Complete"
  /\ UNCHANGED <<walkVars, inputVars, facts, cursor, edges>>

Done == pc = "done" /\ UNCHANGED vars

Next ==
  \/ EnforceDiagnosticLimit
  \/ ResolveFile
  \/ FinishGraph
  \/ Walk
  \/ Classify
  \/ Done

(* One thread runs the stages to the end.                                  *)
Spec == Init /\ [][Next]_vars /\ WF_vars(Next)

-----------------------------------------------------------------------------
(* What the program of the files says, before any stage has run            *)

Loads ==
  [f \in Node |->
     {g \in Node :
        \/ <<f, g>> \in pluginEdges
        \/ \E import \in Range(program[f].imports) :
              /\ ~import.deferred
              /\ \/ g \in import.mapped
                 \/ import.mapped = {} /\ import.answer = "source" /\ import.target = g}]

Live == ReachableFrom(Loads, Range(roots))

(* Code the analysis cannot see past: an import or a load it could not     *)
(* follow, or a source it could not parse.                                 *)
CoverageGap(f) ==
  \/ \E i \in DOMAIN program[f].parse : program[f].parse[i].blocks
  \/ \E import \in Range(program[f].imports) : IsGap(import)

ParseDiagnostics == UNION {{f} \X DOMAIN program[f].parse : f \in Node}

Dropped == Cardinality(ParseDiagnostics) > Limit

Reported == UNION findings

(* A complete report is exact: the files it reports are the files no chain *)
(* of imports or plugin edges from an entry reaches, and no others (cycles *)
(* do not make themselves reachable).                                      *)
CompleteIsExact ==
  pc = "done" /\ status = "Complete" =>
     /\ Reported = Node \ Live
     /\ \A f \in Node : statuses[f] = "Reachable" <=> f \in Live

(* While no diagnostic was dropped, a gap in live code withholds every     *)
(* verdict: nothing is reported and no file is called unreachable.         *)
LiveGapWithholdsVerdicts ==
  pc = "done" /\ ~Dropped /\ (\E f \in Live : CoverageGap(f)) =>
     /\ findings = {}
     /\ \A f \in Node : statuses[f] # "Unreachable"
     /\ status = "Incomplete"

(* The same without the proviso, as the README promises it: "findings      *)
(* those gaps could invalidate get suppressed".                            *)
GapsAlwaysWithholdVerdicts ==
  pc = "done" /\ (\E f \in Live : CoverageGap(f)) => findings = {}

(* A file that failed to parse is incomplete and never reported unused,    *)
(* live or not (tests/fixture_scans.rs), while no diagnostic was dropped.  *)
BrokenFileIsNeverUnused ==
  pc = "done" /\ ~Dropped =>
     \A f \in Node :
        (\E i \in DOMAIN program[f].parse : program[f].parse[i].code \in FatalCodes)
           => statuses[f] = "Incomplete" /\ f \notin Reported

(* A report that dropped diagnostics says so: it never claims to be        *)
(* complete.                                                               *)
DroppedIsIncomplete == pc = "done" /\ Dropped => status = "Incomplete"

(* The scan always ends with a report.                                     *)
Terminates == <>(pc = "done")

=============================================================================
