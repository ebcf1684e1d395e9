------------------------------ MODULE Entries ------------------------------
(* How a project scan finds its packages, its source files and, for each   *)
(* target profile, the entries that reachability starts from               *)
(* (scan_project_measured of application/project.rs and discovery/).  The  *)
(* stages follow one another and any of them may end the scan; the         *)
(* packages of a profile add their entries one after the other, and a      *)
(* conventional entry is tried where nothing else named one.               *)
(*                                                                         *)
(* A path is the sequence of its components, the root is the empty one.  A *)
(* project is a record of what the scan reads:                             *)
(*   order      - the directories with a package.json, in path order       *)
(*   manifests  - the manifest in each: a record of the fields it has      *)
(*   members    - the directories that the workspace patterns select       *)
(*   boundaries - the directories that are repositories of their own       *)
(*   sources    - the source files that no ignore file excludes            *)
(*   package    - the static configuration in the root's manifest          *)
(*   jsonc      - the one in orphanode.jsonc                               *)
(*   plugins    - of each package and profile, what its plugins say: the   *)
(*                paths their patterns match, as entries or exclusions,    *)
(*                conditions, and the links between files that they know   *)
(*   outputs    - of the compiler configurations, in order, the output     *)
(*                directory and the directory it is compiled from          *)
(*   workspace  - the package asked for, in a sequence, or an empty one    *)
(*   requested  - the entries asked for                                    *)
(*   cli        - the configuration that command line options stand for    *)
(*   profiles   - the profiles asked for, in order                         *)
(*   limit      - how many files may be discovered                         *)
(*   expansions - how many links plugins may add to a profile              *)
(*   others     - the files that are no source files                       *)
(*                                                                         *)
(* A configuration override is a record of the fields it states, and       *)
(* "targets", which it always has.  A rule is the set of the paths it      *)
(* matches below the directory it is meant for.                            *)
(*                                                                         *)
(* What a manifest exports is one value, or one for each subpath.  A value *)
(* is the set of the targets in it, each with the steps that lead to it:   *)
(* into an array at a position, or into an object at a condition, among    *)
(* those that are written there, in order.                                 *)
EXTENDS Naturals, Scripts

CONSTANTS
  Projects,      \* the projects examined
  PathOf,        \* the path that a word of a script spells
  VariantsOf,    \* the names of source files that may stand for a name, in order
  NameRoles      \* the roles that names of files say: tests and the like

Root == <<>>

(* Both lists are sorted and free of duplicates, and the root is the first *)
(* of all directories; the command line may name one package, and states   *)
(* neither rules nor entries.                                              *)
ASSUME ProjectsAssumption ==
  \A s \in Projects :
    /\ DOMAIN s.manifests \subseteq Seq(STRING) /\ s.order \in Seq(DOMAIN s.manifests)
    /\ IsInjective(s.order)
    /\ s.order # <<>> /\ s.order[1] = Root
    /\ s.sources \subseteq Seq(STRING) \ {<<>>}
    /\ s.profiles \in Seq(STRING) /\ IsInjective(s.profiles)
    /\ s.workspace = <<>> \/ \E p \in DOMAIN s.manifests : s.workspace = <<p>>
    /\ {"entry", "ignore"} \cap DOMAIN s.cli = {}

(* A name comes before those of the same file in another language: its     *)
(* extension is the first in the alphabet of those it may stand for.       *)
ASSUME VariantsAssumption ==
  \A name \in DOMAIN VariantsOf : VariantsOf[name] # <<>> /\ VariantsOf[name][1] = name

SkippedPackageDirectories ==
  {"node_modules", ".git", ".hg", ".svn", "target", "dist", "build", "coverage",
   ".next", ".nuxt", ".cache", ".orphanode"}
SkippedDirectories == SkippedPackageDirectories \cup {".svelte-kit", ".turbo"}

VARIABLES
  project,      \* what is scanned
  phase,        \* the stage under way, "done", or the error that ended the scan
  packages,     \* the packages of the workspace
  loaded,       \* the static configuration
  files,        \* the files to scan
  conditions,   \* the conditions that imports are resolved under
  todo,         \* the profiles whose entries are not complete
  left,         \* the packages the first of them has not asked yet
  entries,      \* the entries of each profile
  missing       \* the candidates that no source file stands for

vars == <<project, phase, packages, loaded, files, conditions, todo, left, entries, missing>>

NoOverride == [targets |-> <<>>]
Nothing == [root |-> NoOverride, workspaces |-> <<>>]

Init ==
  /\ project \in Projects
  /\ phase = "workspace"
  /\ packages = {}
  /\ loaded = Nothing
  /\ files = {}
  /\ conditions = {}
  /\ todo = project.profiles
  /\ left = {}
  /\ entries = [q \in ToSet(project.profiles) |-> {}]
  /\ missing = {}

Field(record, field, otherwise) == IF field \in DOMAIN record THEN record[field] ELSE otherwise

(* What one states, and where it states nothing the other.                 *)
Over(high, low) ==
  [x \in DOMAIN high \cup DOMAIN low |-> IF x \in DOMAIN high THEN high[x] ELSE low[x]]

Below(dir, path) == SubSeq(path, Len(dir) + 1, Len(path))

-----------------------------------------------------------------------------
(* Packages.                                                               *)

(* A walk from one directory gets to another unless a directory on the way *)
(* is skipped by name or is a repository of its own.                       *)
Walked(from, dir, skipped) ==
  \A n \in (Len(from) + 1)..Len(dir) :
    SubSeq(dir, 1, n) \notin project.boundaries /\ dir[n] \notin skipped

IsWorkspacePackage(dir) ==
  dir = Root \/ (dir \in project.members /\ Walked(Root, dir, SkippedPackageDirectories))

DuplicateNames(dirs) ==
  \E d, e \in {p \in dirs : "name" \in DOMAIN project.manifests[p]} :
    d # e /\ project.manifests[d].name = project.manifests[e].name

DiscoverWorkspace ==
  /\ phase = "workspace"
  /\ packages' = {p \in ToSet(project.order) : IsWorkspacePackage(p)}
  /\ LET duplicate == DuplicateNames(packages') IN
     phase' = CASE duplicate -> "DuplicatePackageName"
                [] ~duplicate /\ ~(ToSet(project.workspace) \subseteq packages')
                             -> "UnknownWorkspace"
                [] OTHER     -> "configuration"
  /\ UNCHANGED <<project, loaded, files, conditions, todo, left, entries, missing>>

Selected == IF project.workspace = <<>> THEN packages ELSE ToSet(project.workspace)

ExplicitlySelected(p) == project.workspace = <<p>>

(* The nearest package that contains a path.                               *)
PackageForPath(path) ==
  CHOOSE p \in packages :
    /\ IsPrefix(p, path)
    /\ \A o \in packages : IsPrefix(o, path) => Len(o) <= Len(p)

-----------------------------------------------------------------------------
(* Target profiles.                                                        *)

BuiltinTargets ==
  {"node", "production", "worker", "browser", "bundler", "types", "cli", "test", "development"}

Parents(names, targets) == UNION {ToSet(targets[n].extends) : n \in names \cap DOMAIN targets}

Above(name, targets) ==
  LET Up[n \in Nat] == IF n = 0 THEN Parents({name}, targets)
                       ELSE Up[n - 1] \cup Parents(Up[n - 1], targets)
  IN  Up[Cardinality(DOMAIN targets)]

Lineage(name, targets) == {name} \cup Above(name, targets)

HasCycle(name, targets) == \E n \in Lineage(name, targets) : n \in Above(n, targets)

IsKnown(name, targets) == Lineage(name, targets) \subseteq DOMAIN targets \cup BuiltinTargets

BuiltinConditions(name) ==
  (BuiltinTargets \cap {name})
    \cup (IF name \in {"production", "worker", "cli", "test", "development"} THEN {"node"} ELSE {})
    \cup (IF name = "bundler" THEN {"browser"} ELSE {})

TargetConditions(name, targets) ==
  (UNION {BuiltinConditions(n) : n \in Lineage(name, targets)})
    \cup UNION {targets[n].conditions : n \in Lineage(name, targets) \cap DOMAIN targets}

(* The ways a profile reads a manifest.                                    *)
ManifestProfiles(name, targets) ==
  LET named == TargetConditions(name, targets)
      read == (IF named \cap {"node", "production", "worker"} # {}
               THEN {"NodeImport", "NodeRequire"} ELSE {})
              \cup (IF named \cap {"browser", "bundler"} # {} THEN {"Browser", "Bundler"} ELSE {})
              \cup (IF "types" \in named THEN {"Types"} ELSE {})
              \cup (IF "cli" \in named THEN {"CommandLine"} ELSE {})
  IN  IF read = {} THEN {"NodeImport"} ELSE read

-----------------------------------------------------------------------------
(* Static configuration: each source of it is checked by itself.           *)
Safe(path) == path # <<>> /\ ".." \notin ToSet(path)

ValidTargets(targets) ==
  \A n \in DOMAIN targets : ~HasCycle(n, targets) /\ IsKnown(n, targets)

ValidConfiguration(c) ==
  /\ ValidTargets(c.root.targets)
  /\ \A e \in Field(c.root, "entry", {}) : Safe(e)
  /\ \A w \in DOMAIN c.workspaces :
       /\ ".." \notin ToSet(w)
       /\ \A e \in Field(c.workspaces[w], "entry", {}) : Safe(e)
       /\ ValidTargets(Over(c.workspaces[w].targets, c.root.targets))

(* Variant: what both state is left as the lower has it.                   *)
MergeOverrideUnder(low, high) == [Over(low, high) EXCEPT !.targets = Over(high.targets, low.targets)]

(* A field stated by both is the higher one's, whole; targets are merged   *)
(* by name.                                                                *)
MergeOverride(low, high) == [Over(high, low) EXCEPT !.targets = Over(high.targets, low.targets)]

Merged ==
  LET low == project.package  high == project.jsonc
      both == [w \in DOMAIN low.workspaces \cap DOMAIN high.workspaces |->
                 MergeOverride(low.workspaces[w], high.workspaces[w])]
  IN  [root |-> MergeOverride(low.root, high.root),
       workspaces |-> Over(both, Over(high.workspaces, low.workspaces))]

LoadConfiguration ==
  /\ phase = "configuration"
  /\ IF ValidConfiguration(project.package) /\ ValidConfiguration(project.jsonc)
     THEN loaded' = Merged /\ phase' = "files"
     ELSE phase' = "InvalidConfiguration" /\ UNCHANGED loaded
  /\ UNCHANGED <<project, packages, files, conditions, todo, left, entries, missing>>

(* The context of a package: what holds in it, from the lowest layer up.   *)
Inferred(p) ==
  [targets |-> <<>>,
   world   |-> IF Field(project.manifests[p], "private", FALSE) THEN "Closed" ELSE "Open"]

PackageConfiguration(p) == Field(loaded.workspaces, p, NoOverride)

Effective(p) ==
  MergeOverride(MergeOverride(MergeOverride(Inferred(p), loaded.root), PackageConfiguration(p)),
                project.cli)

(* The root's entries are its own; a package has those stated for it.      *)
ConfiguredEntries(p) ==
  Field(IF p = Root THEN Effective(p) ELSE PackageConfiguration(p), "entry", {})

(* Variant: rules are always relative to the package.                      *)
IgnoreBaseOfPackage(p) == p

(* The root's rules are relative to the root wherever they apply.          *)
IgnoreBase(p) == IF "ignore" \in DOMAIN PackageConfiguration(p) THEN p ELSE Root

-----------------------------------------------------------------------------
(* Files.                                                                  *)

(* A walk of a package passes by the packages below it.                    *)
InPackage(p, dir) ==
  /\ IsPrefix(p, dir)
  /\ Walked(p, dir, SkippedDirectories)
  /\ \A o \in packages : IsStrictPrefix(p, o) => ~IsPrefix(o, dir)

StrayManifests(p) == {d \in DOMAIN project.manifests : d # p /\ InPackage(p, d)}

SourceFiles == {f \in project.sources : \E p \in Selected : InPackage(p, Front(f))}

DiscoverFiles ==
  /\ phase = "files"
  /\ LET stray == \E p \in Selected : StrayManifests(p) # {}
         beyond == Cardinality(SourceFiles) > project.limit
     IN  \/ stray /\ phase' = "NestedPackage"
         \/ beyond /\ phase' = "FileLimitExceeded"
         \/ ~stray /\ ~beyond /\ phase' = IF SourceFiles = {} THEN "NoSourceFiles" ELSE "ignore"
  /\ files' = SourceFiles
  /\ UNCHANGED <<project, packages, loaded, conditions, todo, left, entries, missing>>

Plugins(p, q) == project.plugins[p][q]

ConfiguredIgnore(f) ==
  LET p == PackageForPath(f) IN
  \E rule \in Field(Effective(p), "ignore", {}) : Below(IgnoreBase(p), f) \in rule

(* A file is left out for its plugins only where every profile's do so.    *)
PluginExclusion(f) ==
  LET p == PackageForPath(f) IN
  project.profiles # <<>> /\
  \A q \in ToSet(project.profiles) : \E g \in Plugins(p, q) : Below(p, f) \in g.exclusions

ApplyIgnoreRules ==
  /\ phase = "ignore"
  /\ files' = {f \in files : ~ConfiguredIgnore(f) /\ ~PluginExclusion(f)}
  /\ phase' = IF files' = {} THEN "NoSourceFiles" ELSE "targets"
  /\ UNCHANGED <<project, packages, loaded, conditions, todo, left, entries, missing>>

(* One set of conditions for all profiles and packages.                    *)
ResolveTargetConditions ==
  /\ phase = "targets"
  /\ LET asked == ToSet(project.profiles) \X Selected
         cycle == \E a \in asked : HasCycle(a[1], Effective(a[2]).targets)
         unknown == \E a \in asked : ~IsKnown(a[1], Effective(a[2]).targets)
     IN  \/ cycle /\ phase' = "TargetProfileCycle" /\ UNCHANGED <<conditions, left>>
         \/ unknown /\ phase' = "UnknownTargetProfile" /\ UNCHANGED <<conditions, left>>
         \/ /\ ~cycle /\ ~unknown
            /\ conditions' = {"default"}
                 \cup (UNION {TargetConditions(a[1], Effective(a[2]).targets) : a \in asked})
                 \cup UNION {UNION {g.conditions : g \in Plugins(a[2], a[1])} : a \in asked}
            /\ phase' = IF project.requested = {} THEN "entries" ELSE "requested"
            /\ left' = Selected
  /\ UNCHANGED <<project, packages, loaded, files, todo, entries, missing>>

-----------------------------------------------------------------------------
(* Entries.                                                                *)

(* Entries asked for are those of every profile, or an error.              *)
UseRequestedEntries ==
  /\ phase = "requested"
  /\ LET base == IF project.workspace = <<>> THEN Root ELSE Head(project.workspace)
         asked == {base \o e : e \in project.requested}
     IN  IF asked \subseteq files
         THEN entries' = [q \in DOMAIN entries |-> asked] /\ phase' = "done"
         ELSE phase' = "EntryNotSupplied" /\ UNCHANGED entries
  /\ UNCHANGED <<project, packages, loaded, files, conditions, todo, left, missing>>

(* What a manifest exports, if it exports anything.                        *)
Exports(manifest) == Field(manifest, "exports", [value |-> {}])

(* The value of the package itself in a manifest's exports, whose key is   *)
(* the empty subpath.                                                      *)
RootExportValue(exports) ==
  IF "subpaths" \in DOMAIN exports THEN Field(exports.subpaths, <<>>, {}) ELSE exports.value

IsFirst(name, order, offered) ==
  /\ name \in offered
  /\ \E i \in DOMAIN order : order[i] = name /\ \A j \in 1..(i - 1) : order[j] \notin offered

IntoObject(step) == "condition" \in DOMAIN step

(* Of a conditional value the branch of the first condition by priority is *)
(* taken, not the first written; an array gives all its values.            *)
ExportTargets(value, priority) ==
  {target.to : target \in
     {t \in value : \A i \in DOMAIN t.steps :
        LET step == t.steps[i] IN
        IntoObject(step) => IsFirst(step.condition, Append(priority, "default"), ToSet(step.among))}}

ConditionPriority ==
  [Types |-> <<"types">>, NodeImport |-> <<"node", "import">>, NodeRequire |-> <<"node", "require">>,
   Bundler |-> <<"import", "module">>, Browser |-> <<"browser", "import">>]

FieldPriority ==
  [Types |-> <<"types", "typings">>, NodeImport |-> <<"main">>, NodeRequire |-> <<"main">>,
   Bundler |-> <<"module", "main">>, Browser |-> <<"browser", "module", "main">>]

(* Exports come first; only where they select nothing does a field count.  *)
PackageEntryRoots(manifest, reading) ==
  IF reading = "CommandLine" THEN Field(manifest, "bin", {})
  ELSE LET exported == ExportTargets(RootExportValue(Exports(manifest)), ConditionPriority[reading]) IN
       IF exported # {} THEN exported
       ELSE {manifest[f] : f \in {g \in DOMAIN manifest :
                                     IsFirst(g, FieldPriority[reading], DOMAIN manifest)}}

(* Variant: a profile reads the manifest as every profile does.            *)
ManifestEntriesOfAnyProfile(p, q) ==
  IF Field(project.manifests[p], "private", FALSE) /\ p # Root /\ ~ExplicitlySelected(p) THEN {}
  ELSE UNION {PackageEntryRoots(project.manifests[p], r) :
                r \in UNION {ManifestProfiles(o, Effective(p).targets) : o \in DOMAIN entries}}

ManifestEntries(p, q) ==
  IF Field(project.manifests[p], "private", FALSE) /\ p # Root /\ ~ExplicitlySelected(p) THEN {}
  ELSE UNION {PackageEntryRoots(project.manifests[p], r) :
                r \in ManifestProfiles(q, Effective(p).targets)}

ScriptsOf(p) == Field(project.manifests[p], "scripts", <<>>)

ScriptEntries(p) ==
  {PathOf[r.value] : r \in {s \in AnalyzeScripts(ScriptsOf(p)).references : s.kind = "File"}}

Candidates(p, q) == {p \o c : c \in ConfiguredEntries(p) \cup ManifestEntries(p, q) \cup ScriptEntries(p)}

(* The paths of source files that may stand for a path, in order.          *)
Variants(path) ==
  [i \in DOMAIN Field(VariantsOf, Last(path), <<Last(path)>>) |->
     Append(Front(path), Field(VariantsOf, Last(path), <<Last(path)>>)[i])]

(* Of what a candidate is compiled from, by the n-th configuration.        *)
OriginalVariants(candidate, n) ==
  LET o == project.outputs[n] IN
  IF IsStrictPrefix(o.out, candidate) THEN Variants(o.root \o Below(o.out, candidate)) ELSE <<>>

SourceVariants(candidate) ==
  ToSet(Variants(candidate))
    \cup UNION {ToSet(OriginalVariants(candidate, n)) : n \in DOMAIN project.outputs}

FirstPresent(paths) == {f \in files : IsFirst(f, paths, files)}

(* The variants of a candidate come before those of what it is compiled    *)
(* from, which the first configuration decides that has one.               *)
MapEntryToSource(candidate) ==
  IF ToSet(Variants(candidate)) \cap files # {} THEN FirstPresent(Variants(candidate))
  ELSE UNION {FirstPresent(OriginalVariants(candidate, n)) :
                n \in {m \in DOMAIN project.outputs :
                         \A l \in 1..(m - 1) : ToSet(OriginalVariants(candidate, l)) \cap files = {}}}

PluginEntries(p, q) ==
  {f \in files : IsPrefix(p, f) /\ \E g \in Plugins(p, q) : Below(p, f) \in g.entries}

(* What the directories and the name of a file say of it.                  *)
FirstDirectories ==
  [test |-> {"test", "tests"}, benchmark |-> {"benchmark", "benchmarks"},
   story |-> {"stories", ".storybook"}, example |-> {"example", "examples"}]

InnerDirectories ==
  [test |-> {"__tests__"}, benchmark |-> {}, story |-> {".storybook"}, example |-> {"examples"}]

HasRole(path, role) ==
  \/ Len(path) > 1 /\ path[1] \in FirstDirectories[role]
  \/ \E n \in 2..(Len(path) - 1) : path[n] \in InnerDirectories[role]
  \/ role \in Field(NameRoles, Last(path), {})

RolesOfProfile(q) ==
  CASE q = "test"                      -> {"test", "benchmark"}
    [] q \in {"browser", "bundler"}    -> {"story", "example"}
    [] q \in {"node", "development"}   -> {"example"}
    [] OTHER                           -> {}

ConventionalEntries(p, q) ==
  {f \in files : IsPrefix(p, f) /\ \E role \in RolesOfProfile(q) : HasRole(Below(p, f), role)}

Fallbacks ==
  {<<"src", name>> : name \in {"index.ts", "index.tsx", "index.js", "main.ts", "main.js", "cli.ts"}}
    \cup {<<"src", "cli", "index.ts">>, <<"index.ts">>, <<"index.js">>}

(* Everything that names an entry in a package, and where there is no entry *)
(* below it yet the conventional one.                                      *)
NamedEntries(p, q) ==
  (UNION {MapEntryToSource(c) : c \in Candidates(p, q)})
    \cup PluginEntries(p, q) \cup ConventionalEntries(p, q)

FallbackEntries(p, sofar) ==
  IF (p = Root \/ ExplicitlySelected(p)) /\ ~\E e \in sofar : IsPrefix(p, e)
  THEN {p \o c : c \in Fallbacks} \cap files
  ELSE {}

Precedes(o, p) ==
  \E i, j \in DOMAIN project.order : i < j /\ project.order[i] = o /\ project.order[j] = p

(* One package gives its entries to the first profile.                     *)
CollectPackageEntries(p) ==
  /\ phase = "entries"
  /\ todo # <<>>
  /\ ~\E o \in left : Precedes(o, p)
  /\ LET q == Head(todo)
         named == entries[q] \cup NamedEntries(p, q)
     IN  IF \E c \in ManifestEntries(p, q) : ~Safe(c)
         THEN phase' = "UnsafeEntry" /\ UNCHANGED <<entries, missing, left>>
         ELSE /\ entries' = [entries EXCEPT ![q] = named \cup FallbackEntries(p, named)]
              /\ missing' = missing \cup {c \in Candidates(p, q) : MapEntryToSource(c) = {}}
              /\ left' = left \ {p}
              /\ UNCHANGED phase
  /\ UNCHANGED <<project, packages, loaded, files, conditions, todo>>

(* A profile without an entry ends the scan.                               *)
EndProfile ==
  /\ phase = "entries"
  /\ todo # <<>>
  /\ left = {}
  /\ todo' = Tail(todo)
  /\ left' = Selected
  /\ phase' = CASE entries[Head(todo)] = {} -> "NoEntryRoots"
                [] entries[Head(todo)] # {} /\ Len(todo) = 1 -> "done"
                [] OTHER -> "entries"
  /\ UNCHANGED <<project, packages, loaded, files, conditions, entries, missing>>

Next ==
  \/ DiscoverWorkspace
  \/ LoadConfiguration
  \/ DiscoverFiles
  \/ ApplyIgnoreRules
  \/ ResolveTargetConditions
  \/ UseRequestedEntries
  \/ \E p \in left : CollectPackageEntries(p)
  \/ EndProfile

Spec == Init /\ [][Next]_vars

(* The entries whose exports anybody may use.                              *)
OpenWorldEntries(q) ==
  {e \in entries[q] : Effective(PackageForPath(e)).world = "Open"}

-----------------------------------------------------------------------------
Done == phase = "done"

(* The layers of static configuration that a package is under, the one     *)
(* that counts most first, each with the directory it is meant for.        *)
Layers(p) ==
  <<[of |-> project.cli, at |-> Root],
    [of |-> Field(project.jsonc.workspaces, p, NoOverride), at |-> p],
    [of |-> Field(project.package.workspaces, p, NoOverride), at |-> p],
    [of |-> project.jsonc.root, at |-> Root],
    [of |-> project.package.root, at |-> Root]>>

(* The layer that decides a field, of those meant for some directories.    *)
Deciding(p, field, dirs) ==
  LET States(l) == l.at \in dirs /\ field \in DOMAIN l.of IN
  {Layers(p)[i] : i \in {k \in 1..5 : /\ States(Layers(p)[k])
                                     /\ \A j \in 1..(k - 1) : ~States(Layers(p)[j])}}

RuledOut(p, f) ==
  \E layer \in Deciding(p, "ignore", {p, Root}) :
    \E rule \in layer.of.ignore : Below(layer.at, f) \in rule

(* What plugins leave out of the scan of a profile does not leave the scan *)
(* of a project where another profile's do not.                            *)
LeftOut(p, f) ==
  /\ DOMAIN entries # {}
  /\ \A q \in DOMAIN entries : \E g \in Plugins(p, q) : Below(p, f) \in g.exclusions

(* A package asked for by name, the root and what others may install.      *)
Published(p) ==
  p = Root \/ ExplicitlySelected(p) \/ ~Field(project.manifests[p], "private", FALSE)

(* What a consumer with these conditions loads, where no two of them       *)
(* compete for a branch: of an array it is the first.                      *)
Loads(value, consumer) ==
  {target.to : target \in
     {t \in value : \A i \in DOMAIN t.steps :
        LET step == t.steps[i] IN
        IF IntoObject(step)
        THEN LET apply == consumer \cap ToSet(step.among) IN
             \/ apply = {step.condition}
             \/ apply = {} /\ step.condition = "default" /\ "default" \in ToSet(step.among)
        ELSE step.position = 1}}

Consumers(q) ==
  CASE q = "types" -> {{"types"}}
    [] q = "browser" -> {{"browser", "import"}}
    [] q \in {"node", "test", "cli"} -> {{"node", "import"}, {"node", "require"}}
    [] OTHER -> {}

(* What the manifest of a package offers the consumers of a profile.       *)
Offered(manifest, q) ==
  (IF "exports" \in DOMAIN manifest
   THEN UNION {Loads(RootExportValue(manifest.exports), c) : c \in Consumers(q)}
   ELSE IF q \in {"node", "test", "cli"} /\ "main" \in DOMAIN manifest THEN {manifest.main}
   ELSE IF q = "types" /\ "types" \in DOMAIN manifest THEN {manifest.types}
   ELSE {})
  \cup (IF q = "cli" THEN Field(manifest, "bin", {}) ELSE {})

(* The files that a package's scripts name to be loaded, in segments that  *)
(* the analysis models and where it looks: as node's or one of 13 tools'   *)
(* arguments, or in NODE_OPTIONS.                                          *)
Loaded(p) == {PathOf[w] : w \in UNION {NamesFiles(c) : c \in Modeled(ScriptsOf(p))}}

StatedEntries(p) == UNION {l.of.entry : l \in Deciding(p, "entry", {p})}

(* A type invariant.                                                       *)
TypeOK ==
  /\ packages \subseteq DOMAIN project.manifests
  /\ files \subseteq project.sources
  /\ DOMAIN entries = ToSet(project.profiles)
  /\ \A q \in DOMAIN entries : entries[q] \subseteq files
  /\ todo \in Seq(DOMAIN entries)
  /\ left \subseteq DOMAIN project.manifests

(* The highest layer that states a rule list or a world decides, for every *)
(* package, and rules are read where that layer is meant: what they match  *)
(* is scanned for no profile, not as an entry either, and everything else  *)
(* that plugins do not exclude for every profile is.                       *)
LayersDecide ==
  Done =>
    /\ files = {f \in SourceFiles : LET p == PackageForPath(f) IN ~RuledOut(p, f) /\ ~LeftOut(p, f)}
    /\ \A q \in DOMAIN entries : entries[q] \subseteq files
    /\ \A q \in DOMAIN entries : \A e \in entries[q] :
         LET p == PackageForPath(e) IN
         e \in OpenWorldEntries(q) <=>
           IF Deciding(p, "world", {p, Root}) = {} THEN ~Field(project.manifests[p], "private", FALSE)
           ELSE \E l \in Deciding(p, "world", {p, Root}) : l.of.world = "Open"

(* What the configuration states as an entry of a package, what a package  *)
(* offers its consumers and what its scripts name to be loaded, where the  *)
(* analysis looks, is an entry of each profile concerned if it is scanned  *)
(* at all; and the root's conventional entry is one exactly where nothing  *)
(* of the root's own names any.                                            *)
NamedFilesAreEntries ==
  Done /\ project.requested = {} =>
    \A p \in Selected, q \in DOMAIN entries :
      /\ {p \o e : e \in StatedEntries(p) \cup Loaded(p)} \cap files \subseteq entries[q]
      /\ Published(p) => {p \o e : e \in Offered(project.manifests[p], q)} \cap files \subseteq entries[q]
      /\ p = Root /\ NamedEntries(p, q) = {} => {p \o c : c \in Fallbacks} \cap files \subseteq entries[q]

(* The converse: an entry of a profile is named by something of a package  *)
(* around it that this profile reads, or stands for such a name, or is the *)
(* conventional one where nothing was.                                     *)
OnlyNamedFilesAreEntries ==
  Done /\ project.requested = {} =>
    \A q \in DOMAIN entries : \A e \in entries[q] :
      \E p \in Selected :
        \/ \E c \in StatedEntries(p) \cup Loaded(p) : e \in SourceVariants(p \o c)
        \/ /\ Published(p)
           /\ \E c \in UNION {PackageEntryRoots(project.manifests[p], r) :
                               r \in ManifestProfiles(q, Effective(p).targets)} :
                e \in SourceVariants(p \o c)
        \/ e \in PluginEntries(p, q) \cup ConventionalEntries(p, q)
        \/ Below(p, e) \in Fallbacks /\ NamedEntries(p, q) = {}

(* What the documentation says, that scripts are picked up: each file that *)
(* one has some program load, written as a file, is an entry.              *)
ScriptFilesAreEntries ==
  Done /\ project.requested = {} =>
    \A p \in Selected, q \in DOMAIN entries :
      LET run == UNION {RunsFiles(g.command) : g \in Segments(ScriptsOf(p))}
      IN  {p \o PathOf[w] : w \in run \cap LooksLikeFile} \cap files \subseteq entries[q]

(* What the documentation says, that package exports are picked up: each   *)
(* file that a public package exports, under whatever subpath, is an entry *)
(* of the profiles whose consumers load it.                                *)
PackageExportsAreEntries ==
  Done /\ project.requested = {} =>
    \A p \in Selected, q \in DOMAIN entries :
      LET exports == Exports(project.manifests[p]) IN
      Published(p) /\ "subpaths" \in DOMAIN exports =>
        \A subpath \in DOMAIN exports.subpaths, c \in Consumers(q) :
          {p \o e : e \in Loads(exports.subpaths[subpath], c)} \cap files \subseteq entries[q]
=============================================================================
