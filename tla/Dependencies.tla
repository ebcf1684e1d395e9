---------------------------- MODULE Dependencies ----------------------------
(* Direct dependencies: the evidence a project scan gathers for them       *)
(* (append_dependency_results of application/project.rs) and what it       *)
(* concludes (analysis/dependencies.rs).  The profiles are scanned one     *)
(* after the other and their file statuses merged; then the packages of    *)
(* the workspace are read in order, each adding what its scripts and       *)
(* plugins reference and who owns the binaries installed in it; then the   *)
(* compiler configurations and the blocking diagnostics; then each         *)
(* declared or referenced package gets one outcome.  What is dropped for   *)
(* blocking diagnostics is dropped last.                                   *)
(*                                                                         *)
(* A project is a record of what the scan reads:                           *)
(*   workspaces - the workspaces in order, Root first                      *)
(*   declared   - of each, the categories it declares each package under   *)
(*   target     - of each, the package an npm: requirement names           *)
(*   bundled    - of each, the packages it bundles                         *)
(*   installed  - of each, the binaries of the packages in its own         *)
(*                node_modules                                             *)
(*   scripts    - of each, its package scripts                             *)
(*   plugins    - of each, what its plugins reference                      *)
(*   configs    - the compiler configurations, each with its workspace, the *)
(*                packages and the types it names, and the configuration   *)
(*                of the project it extends                                *)
(*   files      - of each file, its workspace and its imports              *)
(*   reach      - of each profile, the files it reaches                    *)
(*   gaps       - the workspaces other diagnostics block                   *)
(*   manager    - whether one supported package manager is recognised      *)
EXTENDS Naturals, Scripts

CONSTANTS
  Projects,    \* the projects examined
  Profiles,    \* the target profiles, in order
  Root,        \* the root workspace
  Builtins,    \* the modules of Node itself
  TypesOf,     \* the package that holds the declarations of a name
  Runner       \* the binary that `run-s`, `run-p` and `npm-run-all` belong to

ASSUME ProfilesAssumption == Profiles \in Seq(STRING)

ASSUME ProjectsAssumption ==
  \A p \in Projects :
    /\ p.workspaces \in Seq(DOMAIN p.declared)
    /\ p.gaps \subseteq ToSet(p.workspaces)

Categories == {"runtime", "development", "peer", "optional"}

VARIABLES
  project,     \* what is scanned
  phase,       \* "scan", "collect", "report" or "done"
  todo,        \* the profiles not scanned, then the workspaces not read yet
  status,      \* the status of each file, merged over the profiles scanned
  evidence,    \* the references found, as they are written
  blockers,    \* the workspaces in which nothing may be called unused
  owners,      \* the package that owns each binary
  outcomes,    \* what was concluded of each package
  findings     \* what is reported

dependencyVars == <<project, phase, todo, status, evidence, blockers, owners, outcomes, findings>>

DependencyInit ==
  /\ project \in Projects
  /\ phase = "scan"
  /\ todo = Profiles
  /\ status = [f \in DOMAIN project.files |-> "unreachable"]
  /\ evidence = {}
  /\ blockers = {}
  /\ owners = <<>>
  /\ outcomes = {}
  /\ findings = {}

-----------------------------------------------------------------------------
(* Variant: the status of the last profile counts.                         *)
LastFileStatus(left, right) == right

(* One profile is scanned and its statuses are merged into those so far.   *)
MergeFileStatus(left, right) ==
  IF "reachable" \in {left, right} THEN "reachable" ELSE "unreachable"

ScanProfile ==
  /\ phase = "scan"
  /\ todo # <<>>
  /\ status' = [f \in DOMAIN status |->
                  MergeFileStatus(status[f],
                    IF f \in project.reach[Head(todo)] THEN "reachable" ELSE "unreachable")]
  /\ todo' = Tail(todo)
  /\ UNCHANGED <<project, phase, evidence, blockers, owners, outcomes, findings>>

Evidence(workspace, reference, kind) ==
  [workspace |-> workspace, reference |-> reference, kind |-> kind]

(* An import that resolved to a file of the project, also one that policy  *)
(* excludes, is not a use of a package.  Builtins are not packages.        *)
Internal(import) ==
  import.status = "resolved" \/ (import.status = "external" /\ import.target)

IsPackage(name) == name \notin Builtins

(* Variant: what the root declares is not asked for in other workspaces.   *)
SourceEvidenceBelowRoot ==
  UNION {{Evidence(project.files[f].workspace, i.package, "import") :
            i \in {j \in project.files[f].imports :
                     ~Internal(j) /\ IsPackage(j.package)
                       /\ j.package \notin DOMAIN project.declared[Root]}} :
         f \in {g \in DOMAIN status : status[g] = "reachable"}}

SourceEvidence ==
  UNION {{Evidence(project.files[f].workspace, i.package, "import") :
            i \in {j \in project.files[f].imports : ~Internal(j) /\ IsPackage(j.package)}} :
         f \in {g \in DOMAIN status : status[g] = "reachable"}}

StartDependencies ==
  /\ phase = "scan"
  /\ todo = <<>>
  /\ phase' = "collect"
  /\ evidence' = SourceEvidence
  /\ todo' = project.workspaces
  /\ UNCHANGED <<project, status, blockers, owners, outcomes, findings>>

-----------------------------------------------------------------------------
(* The package that owns a binary: one of those in this workspace's own    *)
(* node_modules that it declares in one of three categories (which of them *)
(* goes by category and name, and is left open here), and an owner from a  *)
(* later workspace replaces one from an earlier.                           *)
Linked(w) ==
  {p \in DOMAIN project.installed[w] \cap DOMAIN project.declared[w] :
     project.declared[w][p] \cap {"runtime", "development", "optional"} # {}}

CollectBinaryOwners(w) ==
  LET named == UNION {project.installed[w][p] : p \in Linked(w)} IN
  {f \in [named -> Linked(w)] : \A b \in named : b \in project.installed[w][f[b]]}

Overwrite(old, new) ==
  [b \in DOMAIN old \cup DOMAIN new |-> IF b \in DOMAIN new THEN new[b] ELSE old[b]]

ScriptEvidence(w) ==
  {Evidence(w, r.value, IF r.kind = "Binary" THEN "binary" ELSE "script") :
     r \in {s \in AnalyzeScripts(project.scripts[w]).references : s.kind # "File"}}

PluginEvidence(w) ==
  {Evidence(w, r.value, IF r.kind = "Binary" THEN "binary" ELSE "config") :
     r \in project.plugins[w]}

ReadContext ==
  /\ phase = "collect"
  /\ todo # <<>>
  /\ LET w == Head(todo) IN
       /\ evidence' = evidence \cup ScriptEvidence(w) \cup PluginEvidence(w)
       /\ blockers' = IF AnalyzeScripts(project.scripts[w]).unmodeled # {}
                      THEN blockers \cup {w} ELSE blockers
       /\ \E new \in CollectBinaryOwners(w) : owners' = Overwrite(owners, new)
  /\ todo' = Tail(todo)
  /\ UNCHANGED <<project, phase, status, outcomes, findings>>

(* The workspaces with a diagnostic that blocks reachability.              *)
Blocked ==
  project.gaps \cup
  {w \in ToSet(project.workspaces) : BlocksReachability(AnalyzeScripts(project.scripts[w]))}

(* A configuration stands for what it names and for what every one it      *)
(* extends names, in its own workspace.  A type is taken for the package   *)
(* of its name.                                                            *)
Chain[n \in Nat] ==
  IF n = 0 THEN {<<c, c>> : c \in DOMAIN project.configs}
  ELSE Chain[n - 1] \cup
       {<<e[1], project.configs[e[2]].parent>> :
          e \in {d \in Chain[n - 1] : project.configs[d[2]].parent \in DOMAIN project.configs}}

Inherited(c) == {e[2] : e \in {d \in Chain[Cardinality(DOMAIN project.configs)] : d[1] = c}}

Configurations ==
  UNION {{Evidence(project.configs[c].workspace, p, "config") :
            p \in UNION {project.configs[d].packages \cup project.configs[d].types :
                           d \in Inherited(c)}} :
         c \in DOMAIN project.configs}

-----------------------------------------------------------------------------
(* The conclusions.                                                        *)

(* The packages a workspace declares; bundling what is not declared counts *)
(* for nothing.                                                            *)
Declared(w) == {p \in DOMAIN project.declared[w] : IsPackage(p)}

Aliases(w, package) == {p \in Declared(w) \cap DOMAIN project.target[w] :
                          project.target[w][p] = package}

Unmapped(items) == {e \in items : e.kind = "binary" /\ e.reference \notin DOMAIN owners}

(* Variant: a binary nobody owns blocks nothing.                           *)
StuckByDiagnostics(items, blocking) == blocking

(* A workspace that runs a binary nobody owns is blocked too.              *)
Stuck(items, blocking) == blocking \cup {e.workspace : e \in Unmapped(items)}

(* A binary is a use of its owner or, where the workspace declares that    *)
(* package under one other name only, of that name.                        *)
OwnerFor(w, owner) ==
  IF owner \notin Declared(w) /\ Cardinality(Aliases(w, owner)) = 1
  THEN CHOOSE p \in Aliases(w, owner) : TRUE
  ELSE owner

NormalizeEvidence(items) ==
  {[workspace |-> e.workspace, package |-> OwnerFor(e.workspace, owners[e.reference])] :
     e \in {i \in items : i.kind = "binary"} \ Unmapped(items)}
  \cup {[workspace |-> e.workspace, package |-> e.reference] :
          e \in {i \in items : i.kind # "binary" /\ IsPackage(i.reference)}}

(* What a declared package comes to.                                       *)
DeclarationOutcome(categories, used, blocked) ==
  CASE used                       -> "retained"
    [] ~used /\ blocked           -> "undetermined"
    [] ~used /\ ~blocked /\ "peer" \in categories -> "unreferencedPeer"
    [] ~used /\ ~blocked /\ "peer" \notin categories /\ "optional" \in categories
                                  -> "unreferencedOptional"
    [] OTHER                      -> "unused"

Outcome(w, p, kind) == [workspace |-> w, package |-> p, kind |-> kind]

AnalyzeDependencies(items, blocking) ==
  LET normalized == NormalizeEvidence(items)
      stuck == Stuck(items, blocking)
      IsUsed(w, p) == [workspace |-> w, package |-> p] \in normalized
                        \/ p \in project.bundled[w]
  IN
  (UNION {{Outcome(w, p, DeclarationOutcome(project.declared[w][p], IsUsed(w, p), w \in stuck)) :
             p \in Declared(w)} : w \in ToSet(project.workspaces)})
  \cup {Outcome(e.workspace, e.package,
                IF e.workspace # Root /\ e.package \in Declared(Root)
                THEN "misplaced" ELSE "unlisted") :
          e \in {n \in normalized : n.package \notin Declared(n.workspace)}}

Analyze ==
  /\ phase = "collect"
  /\ todo = <<>>
  /\ evidence' = evidence \cup Configurations
  /\ blockers' = blockers \cup Blocked
  /\ outcomes' = AnalyzeDependencies(evidence', blockers')
  /\ phase' = "report"
  /\ UNCHANGED <<project, todo, status, owners, findings>>

(* Fixes are offered for high confidence, and for a declaration only.      *)
FixEligibility(kind) ==
  CASE kind = "unused" /\ project.manager -> "eligible"
    [] kind \in {"unreferencedPeer", "unreferencedOptional"} -> "blocked"
    [] OTHER -> "previewOnly"

DependencyFinding(o) ==
  [workspace |-> o.workspace, package |-> o.package, kind |-> o.kind,
   fix |-> FixEligibility(o.kind)]

(* A blocking diagnostic withholds the findings of its workspace, and one  *)
(* of the root those of every workspace.                                   *)
Withheld(w) == Root \in Blocked \/ w \in Blocked

Report ==
  /\ phase = "report"
  /\ findings' = {DependencyFinding(o) :
                    o \in {u \in outcomes : u.kind \notin {"retained", "undetermined"}
                                              /\ ~Withheld(u.workspace)}}
  /\ phase' = "done"
  /\ UNCHANGED <<project, todo, status, evidence, blockers, owners, outcomes>>

DependencyNext ==
  \/ ScanProfile
  \/ StartDependencies
  \/ ReadContext
  \/ Analyze
  \/ Report

DependencySpec == DependencyInit /\ [][DependencyNext]_dependencyVars

-----------------------------------------------------------------------------
(* What is used: by an import of a file that some profile reaches, by a    *)
(* script, by a plugin, by a compiler configuration.                       *)
IsImported(w, p) ==
  \E f \in DOMAIN project.files, q \in ToSet(Profiles) :
    /\ project.files[f].workspace = w
    /\ f \in project.reach[q]
    /\ \E i \in project.files[f].imports : i.package = p /\ ~Internal(i)

Commands(w) == {g.command : g \in Segments(project.scripts[w])}

Binaries(w, p) == IF p \in DOMAIN project.installed[w] THEN project.installed[w][p] ELSE {}

(* The binary is of this package, and of no other of the project but the   *)
(* one this package is an alias of.                                        *)
OnlyOwner(w, p, b) ==
  /\ b \in Binaries(w, p)
  /\ \A v \in ToSet(project.workspaces) : \A o \in DOMAIN project.installed[v] :
       b \in project.installed[v][o] => o = p \/ (Aliases(w, o) = {p} /\ o \notin Declared(w))

RunsBinary(w, p) ==
  \E c \in Commands(w) : \E b \in Runs(project.scripts[w], c, Runner) : OnlyOwner(w, p, b)

(* The binary that a command names as its program.                         *)
NamesBinary(w, p) ==
  \E c \in Commands(w) : c.form \in {"tool", "other", "exec", "concurrently"} /\ OnlyOwner(w, p, c.word)

(* What a command names as a package, among node's loaders or as what exec *)
(* is to install, or a plugin.  A loader written like a file is taken for  *)
(* one, even where a package has that name.                                *)
NamesPackage(w, p) ==
  \/ \E c \in Commands(w) :
        \/ p \in c.options \ LooksLikeFile
        \/ c.form \in {"node", "inline"} /\ p \in c.preloads \ LooksLikeFile
        \/ c.form = "exec" /\ p \in c.packages
  \/ Reference("Package", p) \in project.plugins[w]
  \/ \E b \in Binaries(w, p) : Reference("Binary", b) \in project.plugins[w] /\ OnlyOwner(w, p, b)

NamesTypes(w, p) ==
  \E c \in DOMAIN project.configs :
    /\ project.configs[c].workspace = w
    /\ \E t \in project.configs[c].types : t \in DOMAIN TypesOf /\ TypesOf[t] = p

NamesInConfiguration(w, p) ==
  \E c \in DOMAIN project.configs, d \in DOMAIN project.configs :
    /\ project.configs[c].workspace = w
    /\ d \in Inherited(c)
    /\ p \in project.configs[d].packages

Unused == {"unused", "unreferencedPeer", "unreferencedOptional"}

UnusedFindings == {f \in findings : f.kind \in Unused}

(* A type invariant.                                                       *)
DependencyTypeOK ==
  /\ phase \in {"scan", "collect", "report", "done"}
  /\ status \in [DOMAIN project.files -> {"reachable", "unreachable"}]
  /\ blockers \subseteq ToSet(project.workspaces)
  /\ \A o \in outcomes : o.kind \in
       Unused \cup {"retained", "undetermined", "misplaced", "unlisted"}
  /\ \A f \in findings : f.fix \in {"eligible", "previewOnly", "blocked"}

(* A package that its workspace uses is not reported unused there, however *)
(* it does: by an import of a file that only one profile reaches, by a     *)
(* command of a script whose program is a binary that it alone owns, or    *)
(* that has node load it, even in a segment that is not modelled, by a     *)
(* plugin, or in a configuration that one of its own extends.  What other  *)
(* programs than node are told to load or to start does not count, to the  *)
(* code (PickedUpDependenciesAreKept).                                     *)
UsedDependenciesAreKept ==
  \A f \in UnusedFindings : LET w == f.workspace  p == f.package IN
    /\ ~IsImported(w, p)
    /\ ~NamesPackage(w, p)
    /\ ~NamesInConfiguration(w, p)
    /\ ~NamesBinary(w, p)

(* A fix is offered only on whole evidence: nothing blocks the workspace   *)
(* or the root, each of the workspace's commands is modelled and every     *)
(* binary that a script or a plugin of it names has an owner; and never    *)
(* for a package other packages are to provide.                            *)
FixesRestOnWholeEvidence ==
  \A f \in findings : f.fix = "eligible" =>
    LET w == f.workspace IN
    /\ {w, Root} \cap project.gaps = {}
    /\ \A g \in Segments(project.scripts[w]) : g.spans = {} /\ g.command.wrapper # "opaque"
    /\ \A e \in evidence : e.workspace = w /\ e.kind = "binary" =>
         \E v \in ToSet(project.workspaces) : \E p \in Linked(v) : e.reference \in Binaries(v, p)
    /\ {"peer", "optional"} \cap project.declared[w][f.package] = {}

(* An import of a package that its workspace does not declare is reported  *)
(* unless a diagnostic withholds it, and the package is called misplaced   *)
(* exactly where the root declares it.                                     *)
MissingDeclarationsAreReported ==
  phase = "done" =>
    \A w \in ToSet(project.workspaces) : \A p \in UNION {{i.package : i \in project.files[f].imports} :
                                                          f \in DOMAIN project.files} :
      IsImported(w, p) /\ p \notin Declared(w) /\ IsPackage(p) /\ ~Withheld(w) =>
        \E f \in findings :
          /\ f.workspace = w /\ f.package = p
          /\ f.kind = IF w # Root /\ p \in DOMAIN project.declared[Root]
                      THEN "misplaced" ELSE "unlisted"

(* What the documentation says of scripts and compiler configurations, that *)
(* they are picked up: whatever a script runs or has loaded and whatever    *)
(* types a configuration names is not reported unused.                      *)
PickedUpDependenciesAreKept ==
  \A f \in UnusedFindings :
    /\ ~RunsBinary(f.workspace, f.package)
    /\ \A c \in Commands(f.workspace) : f.package \notin c.preloads \ LooksLikeFile
    /\ ~NamesTypes(f.workspace, f.package)
=============================================================================
