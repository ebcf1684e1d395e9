--------------------------- MODULE SymbolLiveness ---------------------------
(***************************************************************************)
(* Which declarations and exports of one profile nothing uses: the links   *)
(* between files in application/scan.rs, the walk over the symbols in      *)
(* analysis/symbols.rs, and the findings on both.  The walk is module      *)
(* Worklist; its nodes are the symbols in each of their two lanes.         *)
(*                                                                         *)
(* A program is what the parser says of all files, with each specifier     *)
(* replaced by the file it resolves to, if any.  The analysis is that of a *)
(* scan without a reachable blocking diagnostic (ProfileScan says when).   *)
(***************************************************************************)
EXTENDS Worklist, FiniteSets

CONSTANTS File, Symbol, Region, ExportName,
          Programs,        \* the programs to analyse
          ListOf           \* a list of a set of nodes

NoFile == "no file"
NoSymbol == "no symbol"
NoRegion == "no region"
AllNames == "*"            \* a namespace import or require, export * as

Lane == {"Runtime", "Type"}

ASSUME NodeAssumption == Node = Symbol \X Lane

ASSUME NothingAssumption ==
  NoFile \notin File /\ NoSymbol \notin Symbol /\ NoRegion \notin Region
    /\ AllNames \notin ExportName

(* A region runs with its parent when it is eager; a function owned by a   *)
(* declaration runs through it.  inline is what the parser does not say:   *)
(* the function expression is called, or passed to a caller, on the spot.  *)
RegionFact == [file : File, parent : Region \cup {NoRegion}, eager : BOOLEAN,
               owner : Symbol \cup {NoSymbol}, inline : BOOLEAN]

(* within is the declaration a reference stands in, its region's or not.   *)
Reference == [region : Region, within : Symbol \cup {NoSymbol},
              target : Symbol, usage : Lane]

(* required: the local is a variable that a require() initializes.         *)
Binding == [local : Symbol, source : File \cup {NoFile},
            name : ExportName \cup {AllNames}, required : BOOLEAN]

(* A module that a region loads and binds to nothing: import(), require()  *)
(* inside an expression, a worker.                                         *)
Load == [region : Region, source : File]

Export == [file : File, name : ExportName \cup {AllNames}, star : BOOLEAN,
           local : Symbol \cup {NoSymbol}, source : File \cup {NoFile},
           imported : ExportName \cup {AllNames}, lane : Lane]

Program == [home       : [Symbol -> File],
            kept       : SUBSET Symbol,    \* of kinds that are not reported
            typed      : SUBSET Symbol,    \* in the type namespace, too
            regions    : [Region -> RegionFact],
            references : SUBSET Reference,
            bindings   : SUBSET Binding,
            loads      : SUBSET Load,
            exports    : SUBSET Export,
            hidden     : SUBSET File,      \* DirectEval or DynamicScope
            computed   : SUBSET File,      \* ... CommonJS export guards
            reached    : SUBSET File,
            open       : SUBSET File]

ASSUME ProgramAssumption == \A p \in Programs : p \in Program

(* What a program of the parser and the resolver has beyond its types.     *)
(* Regions, their owners and the symbols a reference names are of one      *)
(* file; an export declares a name or passes one on; a reached file's      *)
(* resolved specifiers lead to reached files, and so do the entries, the   *)
(* only files that can be open.                                            *)
WellResolved(p) ==
  /\ \A r \in Region :
       LET fact == p.regions[r]
       IN  /\ fact.parent # NoRegion => p.regions[fact.parent].file = fact.file
           /\ fact.owner # NoSymbol => p.home[fact.owner] = fact.file
  /\ \A r \in p.references :
       /\ p.home[r.target] = p.regions[r.region].file
       /\ r.within # NoSymbol => p.home[r.within] = p.regions[r.region].file
  /\ \A e \in p.exports :
       /\ e.star <=> e.name = AllNames
       /\ e.local # NoSymbol => p.home[e.local] = e.file /\ e.source = NoFile /\ ~e.star
       /\ e.file \in p.reached /\ e.source # NoFile => e.source \in p.reached
  /\ \A b \in p.bindings :
       /\ b.required => b.name = AllNames
       /\ p.home[b.local] \in p.reached /\ b.source # NoFile => b.source \in p.reached
  /\ \A l \in p.loads : p.regions[l.region].file \in p.reached => l.source \in p.reached
  /\ p.open \subseteq p.reached

ASSUME ResolvedAssumption == \A p \in Programs : WellResolved(p)

ASSUME FiniteAssumption ==
  IsFiniteSet(File) /\ IsFiniteSet(Symbol) /\ IsFiniteSet(Region) /\ IsFiniteSet(ExportName)

ASSUME ListAssumption ==
  \A S \in SUBSET Node : ListOf[S] \in Seq(Node) /\ Range(ListOf[S]) = S

VARIABLES pc, program,
          links,           \* ResolvedSymbolLinks, without the source's lane
          unusedExports,   \* the exports reported, ORP1002
          deadGroups       \* the declarations of each ORP1003

vars == <<walkVars, pc, program, links, unusedExports, deadGroups>>

(* What from leads to, any number of steps along succ.                     *)
Closure(succ, from) ==
  LET grown[k \in Nat] ==
        IF k = 0 THEN from
        ELSE LET before == grown[k - 1]
             IN  before \cup UNION {succ[n] : n \in before}
  IN  grown[Cardinality(DOMAIN succ)]

Init ==
  /\ program \in Programs
  /\ pc = "link"
  /\ links = {} /\ unusedExports = {} /\ deadGroups = {}
  /\ outgoing = [n \in Node |-> <<>>]
  /\ roots = <<>> /\ todo = <<>> /\ queue = <<>> /\ reachable = {}
-----------------------------------------------------------------------------
(* links from import bindings to the declarations behind exports           *)

IsDeclared(e) == e.local # NoSymbol

Matches(e, file, name) == e.file = file /\ (e.name = name \/ e.star)

(* Where an export declaration sends the search for name.                  *)
Forwarded(e, name) ==
  <<e.source, IF e.star \/ e.imported = AllNames THEN name ELSE e.imported>>

Forwards ==
  [at \in File \X ExportName |->
     {Forwarded(e, at[2]) : e \in {e \in program.exports :
        Matches(e, at[1], at[2]) /\ e.source # NoFile}}]

(* resolve_export_targets: its visited set makes it a search of the pairs  *)
(* of a file and a name, every one of which adds its own declarations.     *)
ExportTargets(file, name) ==
  {<<e.local, e.lane>> : e \in {e \in program.exports :
     IsDeclared(e) /\ \E at \in Closure(Forwards, {<<file, name>>}) :
                         Matches(e, at[1], at[2])}}

StarSources ==
  [f \in File |-> {e.source : e \in {e \in program.exports :
                     e.file = f /\ e.star /\ e.source # NoFile}}]

ExportedNames(file) ==
  {e.name : e \in {e \in program.exports :
     ~e.star /\ e.file \in Closure(StarSources, {file})}}

(* Variant: what a namespace object has from export * is forgotten.        *)
ImportedNamesDirectly(b) ==
  IF b.name = AllNames
  THEN {e.name : e \in {e \in program.exports : ~e.star /\ e.file = b.source}}
  ELSE {b.name}

ImportedNames(b) ==
  IF b.name = AllNames THEN ExportedNames(b.source) ELSE {b.name}

BuildSymbolLinks ==
  /\ pc = "link"
  /\ links' = UNION {{[source |-> b.local, target |-> t[1], lane |-> t[2]] :
                        t \in UNION {ExportTargets(b.source, n) : n \in ImportedNames(b)}} :
                     b \in {b \in program.bindings : b.source # NoFile}}
  /\ pc' = "mark"
  /\ UNCHANGED <<walkVars, program, unusedExports, deadGroups>>
-----------------------------------------------------------------------------
(* the graph, its roots and the walk                                       *)

(* ReferenceOwner::Symbol, or NoSymbol for ReferenceOwner::Region.         *)
Owner(r) ==
  IF r.usage = "Type" /\ r.within # NoSymbol
  THEN r.within
  ELSE program.regions[r.region].owner

(* Variant: a type that a declaration mentions is no use of it.            *)
RuntimeEdgesOf(symbol) ==
  {<<r.target, r.usage>> : r \in {r \in program.references :
                                  Owner(r) = symbol /\ r.usage = "Runtime"}}
    \cup {<<l.target, l.lane>> : l \in {l \in links : l.source = symbol}}

EdgesOf(symbol) ==
  {<<r.target, r.usage>> : r \in {r \in program.references : Owner(r) = symbol}}
    \cup {<<l.target, l.lane>> : l \in {l \in links : l.source = symbol}}

(* Variant: every function is taken to run with its parent.                *)
AllChildren == [r \in Region |-> {c \in Region : program.regions[c].parent = r}]

EagerChildren ==
  [r \in Region |-> {c \in Region : /\ program.regions[c].eager
                                    /\ program.regions[c].parent = r}]

ModuleRegions(files) ==
  {r \in Region : /\ program.regions[r].parent = NoRegion
                  /\ program.regions[r].file \in files}

(* active_eager_regions of the reachable files.                            *)
ActiveRegions == Closure(EagerChildren, ModuleRegions(program.reached))

ReferenceRoots ==
  {<<r.target, r.usage>> : r \in {r \in program.references : r.region \in ActiveRegions}}

OpenExports == {e \in program.exports : e.file \in program.open}

(* Variant: the names are looked for where the re-export points.           *)
ReexportRootsAtSource ==
  UNION {ExportTargets(e.source, e.name) :
         e \in {e \in OpenExports : ~IsDeclared(e) /\ ~e.star /\ e.source # NoFile}}

(* open_world_reexport_roots                                               *)
ReexportRoots ==
  UNION {UNION {ExportTargets(e.file, n) :
                  n \in IF ~e.star THEN {e.name}
                        ELSE IF e.source = NoFile THEN {}
                        ELSE ExportedNames(e.source)} :
         e \in {e \in OpenExports : ~IsDeclared(e)}}

OpenExportRoots ==
  UNION {IF e.lane = "Type" THEN {<<e.local, "Type">>}
         ELSE {<<e.local, "Runtime">>}
                \cup {<<s, "Type">> : s \in {e.local} \cap program.typed} :
         e \in {e \in OpenExports : IsDeclared(e) /\ e.file \in program.reached}}

(* An edge is followed from either lane, so both have the same list.       *)
SymbolGraph == [n \in Node |-> ListOf[EdgesOf(n[1])]]

SymbolRoots == ReexportRoots \cup ReferenceRoots \cup OpenExportRoots

StartMarking ==
  /\ pc = "mark"
  /\ StartWalk(SymbolGraph, ListOf[SymbolRoots])
  /\ pc' = "walk"
  /\ UNCHANGED <<program, links, unusedExports, deadGroups>>

Walk ==
  /\ pc = "walk"
  /\ WalkStep
  /\ UNCHANGED <<pc, program, links, unusedExports, deadGroups>>
-----------------------------------------------------------------------------
(* findings                                                                *)

IsImport(s) == \E b \in program.bindings : b.local = s /\ ~b.required

IsDeadCandidate(s) ==
  /\ program.home[s] \in program.reached \ program.hidden
  /\ \A lane \in Lane : <<s, lane>> \notin reachable
  /\ s \notin program.kept

(* dead_strongly_connected_components, by what it returns.                 *)
DeadComponents(candidates) ==
  LET succ == [s \in candidates |->
                 {t \in candidates : \E lane \in Lane : <<t, lane>> \in EdgesOf(s)}]
      below == [s \in candidates |-> Closure(succ, {s})]
  IN  {{t \in candidates : t \in below[s] /\ s \in below[t]} : s \in candidates}

IsConsumed(e) == \E l \in links : l.target = e.local /\ l.lane = e.lane

BuildSymbolFindings ==
  /\ pc = "walk" /\ WalkIdle
  /\ unusedExports' =
       {e \in program.exports :
          /\ e.file \in program.reached \ (program.open \cup program.computed)
          /\ IsDeclared(e) /\ ~IsConsumed(e)}
  /\ deadGroups' =
       {{s \in group : ~IsImport(s)} :
          group \in DeadComponents({s \in Symbol : IsDeadCandidate(s)})} \ {{}}
  /\ pc' = "done"
  /\ UNCHANGED <<walkVars, program, links>>

Done == pc = "done" /\ UNCHANGED vars

Next == BuildSymbolLinks \/ StartMarking \/ Walk \/ BuildSymbolFindings \/ Done

Spec == Init /\ [][Next]_vars
-----------------------------------------------------------------------------
(* What is used, by the language's own rules and without the parser's      *)
(* owners: the least set of symbols, regions and exports that holds what   *)
(* runs by itself and what any of its members needs to run or to compile.  *)
(* Whoever loads a module can use all it exports.  The loads that count    *)
(* are a parameter: no link comes from one, so to the analysis a load      *)
(* makes a file reachable and uses nothing of it.                          *)

Entity == {<<"symbol", s>> : s \in Symbol} \cup {<<"region", r>> : r \in Region}
            \cup {<<"export", f, n>> : f \in File, n \in ExportName}

AllExports(file) == {<<"export", file, n>> : n \in ExportName}

NeedsOfSymbol(s) ==
  {<<"region", r>> : r \in {r \in Region : program.regions[r].owner = s}}
    \cup UNION {IF b.name = AllNames THEN AllExports(b.source)
                ELSE {<<"export", b.source, b.name>>} :
                b \in {b \in program.bindings : b.local = s /\ b.source # NoFile}}

NeedsOfRegion(r, loads) ==
  {<<"region", c>> : c \in {c \in Region :
      /\ program.regions[c].parent = r
      /\ program.regions[c].eager \/ program.regions[c].inline}}
    \cup {<<"symbol", u.target>> : u \in {u \in program.references : u.region = r}}
    \cup UNION {AllExports(l.source) : l \in {l \in loads : l.region = r}}

(* An explicit export hides those of the same name behind export *, which  *)
(* never passes a default export on.                                       *)
NeedsOfExport(file, name) ==
  LET explicit == {e \in program.exports : e.file = file /\ ~e.star /\ e.name = name}
      stars == {e \in program.exports : e.file = file /\ e.star /\ e.source # NoFile}
  IN  {<<"symbol", e.local>> : e \in {e \in explicit : IsDeclared(e)}}
        \cup (UNION {IF e.imported = AllNames THEN AllExports(e.source)
                     ELSE {<<"export", e.source, e.imported>>} :
                     e \in {e \in explicit : e.source # NoFile}})
        \cup {<<"export", e.source, name>> :
                e \in IF explicit = {} /\ name # "default" THEN stars ELSE {}}

Needs(loads) ==
  [x \in Entity |-> CASE x[1] = "symbol" -> NeedsOfSymbol(x[2])
                      [] x[1] = "region" -> NeedsOfRegion(x[2], loads)
                      [] x[1] = "export" -> NeedsOfExport(x[2], x[3])]

(* Used by the program, and by outsiders who import all they can of open.  *)
Used(open, loads) ==
  Closure(Needs(loads),
          {<<"region", r>> : r \in ModuleRegions(program.reached)}
            \cup UNION {AllExports(f) : f \in open})

UsedByName(open) == Used(open, {})

(* The regions that run when their file does, were it reached.             *)
TopLevel == Closure(EagerChildren, ModuleRegions(File))

(* The parser's owners account for what a region mentions.  One that runs  *)
(* with its parent is eager where the parent is top level, and elsewhere   *)
(* has the parent's owner, as a type in a function has; and there is no    *)
(* export * as.                                                            *)
IsAccounted ==
  /\ \A r \in Region :
       LET fact == program.regions[r]
       IN  fact.parent # NoRegion /\ (fact.eager \/ fact.inline) =>
             \/ fact.eager /\ fact.parent \in TopLevel
             \/ /\ fact.parent \notin TopLevel
                /\ fact.owner # NoSymbol /\ fact.owner = program.regions[fact.parent].owner
  /\ \A r \in program.references :
       Owner(r) # program.regions[r.region].owner => r.region \in TopLevel
  /\ \A e \in program.exports : ~e.star /\ e.source # NoFile => e.imported # AllNames
-----------------------------------------------------------------------------
(* properties                                                              *)

(* Every variable keeps to its type; findings name existing things.        *)
TypeOK ==
  /\ WalkTypeOK
  /\ pc \in {"link", "mark", "walk", "done"}
  /\ program \in Program
  /\ links \subseteq [source : Symbol, target : Symbol, lane : Lane]
  /\ unusedExports \subseteq program.exports
  /\ deadGroups \subseteq (SUBSET Symbol) \ {{}}

(* A declaration reported dead is used by nothing: no statement that runs, *)
(* no type that is checked, no importer and, in an open world, no outsider *)
(* reaches it by name, through however many re-exports.  A load without a  *)
(* binding does not count, to the code.                                    *)
UsedIsNeverReported ==
  pc = "done" /\ IsAccounted =>
    \A s \in UNION deadGroups : <<"symbol", s>> \notin UsedByName(program.open)

IsLive(s) == \E lane \in Lane : <<s, lane>> \in reachable

(* The evidence a report gives for a dead declaration is true in terms of  *)
(* the parser's facts, for all programs: no active region, no link from a  *)
(* live import and no live declaration mentions it.                        *)
DeadHasNoLiveUse ==
  pc = "done" =>
    \A s \in UNION deadGroups :
      /\ \A r \in program.references :
           r.target = s => r.region \notin ActiveRegions /\ ~IsLive(Owner(r))
      /\ \A l \in links : l.target = s => ~IsLive(l.source)

(* UsedIsNeverReported without its provisos: what runs is never reported,  *)
(* whatever function expression it runs in and however it is loaded.       *)
NothingUsedIsReported ==
  pc = "done" =>
    \A s \in UNION deadGroups : <<"symbol", s>> \notin Used(program.open, program.loads)

(* An export reported unused is one that no import binding of the          *)
(* project's own running code leads to.                                    *)
ImportedExportIsNeverReported ==
  pc = "done" /\ IsAccounted =>
    \A e \in unusedExports : <<"export", e.file, e.name>> \notin UsedByName({})

(* No export * stands beside what it may or may not pass on.               *)
StarsHideNothing ==
  \A s \in program.exports : s.star =>
    /\ \A e \in program.exports : e.file = s.file => e = s
    /\ \A e \in program.exports : e.name # "default"

(* Nothing dead is missed, where the language leaves no doubt: a reportable *)
(* declaration of a file without guards that nothing uses is in exactly    *)
(* one group.                                                              *)
DeadIsReported ==
  pc = "done" /\ IsAccounted /\ StarsHideNothing =>
    \A s \in Symbol :
      /\ program.home[s] \in program.reached \ program.hidden
      /\ s \notin program.kept /\ ~IsImport(s)
      /\ <<"symbol", s>> \notin Used(program.open, program.loads)
      => Cardinality({g \in deadGroups : s \in g}) = 1
=============================================================================
