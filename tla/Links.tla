------------------------------- MODULE Links -------------------------------
(* What a project scan adds to the imports of the files: the specifiers    *)
(* under which packages of the workspace import each other, mapped to      *)
(* source files, and the links that plugins know between files             *)
(* (workspace_module_targets and collect_plugin_file_edges of              *)
(* application/project.rs).  They are collected for each profile in turn   *)
(* once the entries are, before its files are scanned.                     *)
(*                                                                         *)
(* A specifier is the name of a package and the subpath behind it.  A key  *)
(* or a target of an exports map is a pattern if its last component has a  *)
(* star, and what the star stands for is a path.  A plugin's link has the  *)
(* files that its two patterns match; a transform has for each file that   *)
(* its pattern matches the files that may be generated from it.            *)
EXTENDS Entries

CONSTANTS
  Captures,    \* of a name with a star, the names it matches and what the star is in each
  OutputName   \* the name a source file is compiled to, of those that change it

(* What is exported, and what is compiled, has paths.                      *)
ASSUME PathsAssumption ==
  \A s \in Projects :
    /\ \A n \in DOMAIN s.outputs : s.outputs[n].out \in Seq(STRING) /\ s.outputs[n].root \in Seq(STRING)
    /\ \A p \in DOMAIN s.manifests :
         LET exports == Exports(s.manifests[p]) IN
         "subpaths" \in DOMAIN exports =>
           /\ DOMAIN exports.subpaths \subseteq Seq(STRING)
           /\ \A key \in DOMAIN exports.subpaths : \A t \in exports.subpaths[key] : t.to \in Seq(STRING)

VARIABLES
  unlinked,    \* the profiles whose links are not collected
  discovered,  \* the files on disk that transforms are matched with
  targets,     \* of each profile, the files behind each specifier, by mode
  edges,       \* of each profile, the links of plugins
  gaps         \* the diagnostics of plugins that block verdicts

linkVars == <<unlinked, discovered, targets, edges, gaps>>

LinkInit ==
  /\ Init
  /\ unlinked = project.profiles
  /\ discovered = {}
  /\ targets = [q \in ToSet(project.profiles) |-> <<>>]
  /\ edges = [q \in ToSet(project.profiles) |-> {}]
  /\ gaps = {}

-----------------------------------------------------------------------------
(* Specifiers of packages.                                                 *)

IsPattern(path) == path # <<>> /\ Last(path) \in DOMAIN Captures

(* A package that is not scanned has no configured targets.                *)
TargetsOf(p) == IF p \in Selected THEN Effective(p).targets ELSE <<>>

(* Here the first condition written that applies decides, and nothing      *)
(* follows where its own value selects nothing.                            *)
ConditionalTargets(value, applying) ==
  {target.to : target \in
     {t \in value : \A i \in DOMAIN t.steps :
        LET step == t.steps[i] IN
        IntoObject(step) => IsFirst(step.condition, step.among, applying \cup {"default"})}}

(* The conditions of a reading; those of a command line are the profile's. *)
ReadingConditions(reading) ==
  IF reading = "CommandLine" THEN {} ELSE ToSet(ConditionPriority[reading])

SubpathExports(p, q, reading) ==
  LET exports == Exports(project.manifests[p])
      applying == TargetConditions(q, TargetsOf(p)) \cup ReadingConditions(reading)
  IN  IF "subpaths" \notin DOMAIN exports THEN {}
      ELSE UNION {{key} \X ConditionalTargets(exports.subpaths[key], applying) :
                    key \in DOMAIN exports.subpaths \ {<<>>}}

(* Where a source file may be found after it was compiled.                 *)
RuntimeOutput(path) == Append(Front(path), Field(OutputName, Last(path), Last(path)))

EmittedVariants(file) ==
  LET compiled == {o.out \o Below(o.root, file) :
                     o \in {c \in ToSet(project.outputs) : IsPrefix(c.root, file)}} IN
  {file} \cup compiled \cup {RuntimeOutput(path) : path \in {file} \cup compiled}

(* What the star of a pattern stands for in a path, if it matches.         *)
CapturesIn(pattern, path) ==
  IF IsPrefix(Front(pattern), Front(path)) /\ Last(path) \in DOMAIN Captures[Last(pattern)]
  THEN {Append(Below(Front(pattern), Front(path)), Captures[Last(pattern)][Last(path)])}
  ELSE {}

(* Variant: only the source files themselves are matched with a pattern.   *)
ExpandExportOfSources(p, key, target) ==
  CASE ~IsPattern(key) /\ ~IsPattern(target) -> {key} \X MapEntryToSource(p \o target)
    [] IsPattern(key) /\ IsPattern(target)   ->
         UNION {{Front(key) \o c : c \in CapturesIn(p \o target, f)} \X {f} :
                  f \in {g \in files : IsPrefix(p, g)}}
    [] OTHER -> {}

(* The subpaths that an export stands for, each with a source file.        *)
ExpandExport(p, key, target) ==
  CASE ~IsPattern(key) /\ ~IsPattern(target) -> {key} \X MapEntryToSource(p \o target)
    [] IsPattern(key) /\ IsPattern(target)   ->
         UNION {{Front(key) \o c : c \in UNION {CapturesIn(p \o target, e) : e \in EmittedVariants(f)}}
                  \X {f} : f \in {g \in files : IsPrefix(p, g)}}
    [] OTHER -> {}

(* The subpaths and files of a package under one reading of its manifest.  *)
ReadTargets(p, q, reading) ==
  ({<<>>} \X UNION {MapEntryToSource(p \o t) : t \in PackageEntryRoots(project.manifests[p], reading)})
    \cup UNION {ExpandExport(p, x[1], x[2]) : x \in SubpathExports(p, q, reading)}

ModeOf(reading) == IF reading = "NodeRequire" THEN "CommonJs" ELSE "Esm"

Named == {p \in packages : "name" \in DOMAIN project.manifests[p]}

(* Every specifier that has a file, and the name of every package.         *)
WorkspaceModuleTargets(q) ==
  LET Found(mode) ==
        UNION {UNION {{<<project.manifests[p].name, t[1], t[2]>> : t \in ReadTargets(p, q, r)} :
                        r \in {s \in ManifestProfiles(q, TargetsOf(p)) : ModeOf(s) = mode}} :
                 p \in Named}
      esm == Found("Esm")
      common == Found("CommonJs")
      FilesOf(found, specifier) == {t[3] : t \in {u \in found : <<u[1], u[2]>> = specifier}}
  IN  [specifier \in {<<t[1], t[2]>> : t \in esm \cup common}
                       \cup {<<project.manifests[p].name, <<>>>> : p \in Named} |->
         [Esm |-> FilesOf(esm, specifier), CommonJs |-> FilesOf(common, specifier)]]

(* The files an import of a specifier leads to: what is only there for     *)
(* import serves require, too.                                             *)
WorkspaceFiles(q, specifier, mode) ==
  IF specifier \notin DOMAIN targets[q] THEN {}
  ELSE IF mode = "CommonJs" /\ targets[q][specifier].CommonJs # {}
       THEN targets[q][specifier].CommonJs
       ELSE targets[q][specifier].Esm

-----------------------------------------------------------------------------
(* Links of plugins.                                                       *)

HasTransforms ==
  \E p \in Selected, q \in DOMAIN entries : \E g \in Plugins(p, q) : g.transforms # {}

(* Before anything is ignored the directory is walked for the files that   *)
(* transforms start from, of whatever kind.  A walk that fails or finds    *)
(* too much finds nothing.                                                 *)
OnDisk ==
  {f \in project.sources \cup project.others : ToSet(Front(f)) \cap SkippedDirectories = {}}

DiscoverTransformSources ==
  IF ~HasTransforms THEN discovered' = files /\ UNCHANGED gaps
  ELSE \/ /\ Cardinality(OnDisk) <= project.limit
          /\ discovered' = OnDisk
          /\ UNCHANGED gaps
       \/ \* an entry could not be read, or there are more than the limit
          /\ discovered' = {}
          /\ gaps' = gaps \cup {"plugin_transform_discovery_incomplete"}

(* A link that several contributions state is counted for each.            *)
DeclaredEdges(p, q) ==
  UNION {UNION {{[from |-> p \o x[1], to |-> p \o x[2], reason |-> e.reason] : x \in e.from \X e.to} :
                  e \in g.edges} : g \in Plugins(p, q)}

TransformsOf(p, q) == UNION {g.transforms : g \in Plugins(p, q)}

Outputs(p, transform, source) == {p \o b : b \in transform.outputs[source]} \cap files

(* The files that a transform starts from, of those given.                 *)
Matched(p, transform, given) == {a \in DOMAIN transform.outputs : p \o a \in given}

TransformEdges(p, q) ==
  UNION {UNION {{[from |-> p \o a, to |-> b, reason |-> t.reason] : b \in Outputs(p, t, a) \ {p \o a}} :
                  a \in Matched(p, t, files)} : t \in TransformsOf(p, q)}

TransformGaps(p, q) ==
  {"plugin_transform_source_unmodeled" :
     t \in {u \in TransformsOf(p, q) : Matched(p, u, files) = {} /\ Matched(p, u, discovered) # {}}}
  \cup
  {"plugin_transform_output_missing" :
     t \in {u \in TransformsOf(p, q) : \E a \in Matched(p, u, files) : Outputs(p, u, a) = {}}}

(* Too many links are none, and a gap.                                     *)
CollectPluginEdges(q) ==
  LET found == {e \in UNION {DeclaredEdges(p, q) \cup TransformEdges(p, q) : p \in Selected} :
                  {e.from, e.to} \subseteq files}
      beyond == Cardinality(found) > project.expansions
  IN  /\ edges' = [edges EXCEPT ![q] = IF beyond THEN {} ELSE found]
      /\ gaps' = gaps \cup (UNION {TransformGaps(p, q) : p \in Selected})
                      \cup (IF beyond THEN {"plugin_pattern_limit_exceeded"} ELSE {})

(* One profile gets its links, or the scan ends with the first package it  *)
(* cannot be read for.                                                     *)
LinkProfile ==
  /\ phase = "done"
  /\ unlinked # <<>>
  /\ LET q == Head(unlinked)
         unknown == {p \in Named : ~IsKnown(q, TargetsOf(p))}
         unsafe == {p \in Named \ unknown :
                      \E r \in ManifestProfiles(q, TargetsOf(p)) :
                        \E t \in PackageEntryRoots(project.manifests[p], r) : ~Safe(t)}
     IN  \/ /\ unknown # {}
            /\ phase' = "UnknownTargetProfile"
            /\ UNCHANGED linkVars
         \/ /\ unsafe # {}
            /\ phase' = "UnsafeEntry"
            /\ UNCHANGED linkVars
         \/ /\ unknown \cup unsafe = {}
            /\ targets' = [targets EXCEPT ![q] = WorkspaceModuleTargets(q)]
            /\ CollectPluginEdges(q)
            /\ unlinked' = Tail(unlinked)
            /\ UNCHANGED <<phase, discovered>>
  /\ UNCHANGED <<project, packages, loaded, files, conditions, todo, left, entries, missing>>

CollectEntries ==
  /\ Next
  /\ IF phase = "ignore" THEN DiscoverTransformSources ELSE UNCHANGED <<discovered, gaps>>
  /\ UNCHANGED <<unlinked, targets, edges>>

LinkNext == CollectEntries \/ LinkProfile

LinkSpec == LinkInit /\ [][LinkNext]_<<vars, linkVars>>

-----------------------------------------------------------------------------
Linked == IF phase = "done" THEN DOMAIN entries \ ToSet(unlinked) ELSE {}

(* A type invariant.                                                       *)
LinkTypeOK ==
  /\ unlinked \in Seq(DOMAIN entries)
  /\ DOMAIN targets = DOMAIN entries /\ DOMAIN edges = DOMAIN entries
  /\ \A q \in DOMAIN entries :
       /\ \A specifier \in DOMAIN targets[q] :
            targets[q][specifier].Esm \cup targets[q][specifier].CommonJs \subseteq files
       /\ \A e \in edges[q] : {e.from, e.to} \subseteq files

(* What a consumer with these conditions loads: of an array the first, of  *)
(* conditions the first written that holds for it.                         *)
LoadsAsWritten(value, consumer) ==
  {target.to : target \in
     {t \in value : \A i \in DOMAIN t.steps :
        LET step == t.steps[i] IN
        IF IntoObject(step) THEN IsFirst(step.condition, step.among, consumer \cup {"default"})
        ELSE step.position = 1}}

(* What a consumer that imports or requires a subpath of a package loads,  *)
(* under its own conditions and those of its profile, is mapped to its     *)
(* source, whether the exports map spells it or a pattern does: a pattern  *)
(* leads to every source file that a compiled name under it is made from.  *)
PackageImportsLead ==
  \A q \in Linked : \A p \in Named, c \in Consumers(q) :
    LET manifest == project.manifests[p]
        exports == Exports(manifest)
        holding == c \cup TargetConditions(q, TargetsOf(p))
        Leads(subpath) ==
          WorkspaceFiles(q, <<manifest.name, subpath>>, IF "require" \in c THEN "CommonJs" ELSE "Esm")
    IN  /\ \A t \in Loads(RootExportValue(exports), c) : MapEntryToSource(p \o t) \subseteq Leads(<<>>)
        /\ "subpaths" \in DOMAIN exports =>
             \A key \in DOMAIN exports.subpaths \ {<<>>} :
               \A t \in LoadsAsWritten(exports.subpaths[key], holding) :
               IF ~IsPattern(key)
               THEN IsPattern(t) \/ MapEntryToSource(p \o t) \subseteq Leads(key)
               ELSE IsPattern(t) =>
                      \A name \in DOMAIN Captures[Last(t)] :
                        \A f \in MapEntryToSource(p \o Append(Front(t), name)) :
                          IsPrefix(p, f) /\ Field(OutputName, Last(f), Last(f)) = name =>
                            f \in Leads(Append(Front(key), Captures[Last(t)][name]))

(* Every link that a plugin of a scanned package knows between files that  *)
(* are scanned is in the graph, and a transform that some file on disk is  *)
(* a source of has one that is scanned, with an output that is: what       *)
(* cannot be linked leaves a diagnostic that withholds verdicts.           *)
PluginLinksAreWhole ==
  gaps = {} =>
    \A q \in Linked : \A p \in Selected : \A g \in Plugins(p, q) :
      LET IsEdge(a, b) == \E e \in edges[q] : e.from = a /\ e.to = b IN
      /\ \A e \in g.edges : \A a \in e.from, b \in e.to :
           {p \o a, p \o b} \subseteq files => IsEdge(p \o a, p \o b)
      /\ \A t \in g.transforms :
           /\ Matched(p, t, OnDisk) # {} => Matched(p, t, files) # {}
           /\ \A a \in Matched(p, t, files) :
                /\ Outputs(p, t, a) # {}
                /\ \A b \in Outputs(p, t, a) : b = p \o a \/ IsEdge(p \o a, b)

(* A link that is missing has left a diagnostic, of imports between        *)
(* packages as of links that plugins know.                                 *)
LinksAreWhole == PackageImportsLead /\ PluginLinksAreWhole

(* What the documentation says, that --target selects built-in or          *)
(* configured profiles: a profile that every scanned package knows, with   *)
(* no cycle, is no reason to refuse the scan.                              *)
ConfiguredTargetsAreKnown ==
  phase \in {"UnknownTargetProfile", "TargetProfileCycle"} =>
    \E p \in Selected, q \in DOMAIN entries :
      LET configured == Effective(p).targets IN
      ~IsKnown(q, configured) \/ HasCycle(q, configured)
=============================================================================
