# Orphanode in TLA+

Orphanode finds source files, exports, members, dependencies and workspace
packages that nothing can reach, and can remove some of them. A wrong verdict
deletes live code, so the properties here are about verdicts: when may the
program say "unused", when must it hold back, and what may a fix do with what
it said.

Paths below are relative to `src/crates/orphanode/src/`.

## The system

| Part | State | Operations | Talks to |
| --- | --- | --- | --- |
| File graph (`domain/graph.rs`) | adjacency lists, marks, work list | `add_edge`, `finish`, `reachable_from_many`, `components_within` | built and asked by the profile scan |
| Profile scan (`application/scan.rs`) | facts and diagnostics per file, import graph, statuses, findings | parse, limit, resolve, walk, classify | graph, symbol and member analysis, fact cache |
| Project policy (`application/project.rs`) | reports per profile, the aggregate | scan each profile, merge, limit, workspace findings, eligibility, suppress, retain, filter | profile scan, discovery, plugins |
| Fix workflow (`main.rs`, `fixes/`) | plan, preview, hashes, the disk | plan, preview, verify, remove, run package manager, rescan | project scan (twice), disk, package manager |
| Symbol liveness (`analysis/symbols.rs`, `scan.rs`) | links, marks in a runtime and a type lane | link, mark, walk, group the dead | profile scan |
| Members (`analysis/members.rs`, `escape.rs`, `project.rs`) | evidence over all profiles, decisions per profile | decide, defer, collect evidence, decide again | profile scan, deep member evidence |
| Deep member evidence and TypeScript worker (`project.rs`, `typescript_worker.rs`, `worker/`) | child process, its pipes, next id, evidence | spawn, `initialize`, `query`, kill, cache | members, cache, the project's own code |
| Dependencies (`analysis/dependencies.rs`, `project.rs`) | evidence, owners of binaries, blockers | gather per workspace, normalise, conclude | scripts, plugins, configurations, profile scan |
| Plugins (`plugins/`, `project.rs`) | contributions, diagnostics, a child process per call | detect, load, ask, validate, merge | entries, dependencies, programs of others |
| Discovery and configuration (`discovery/`, `project.rs`) | packages, layers, files, conditions, entries | load, merge, discover, ignore, collect entries | project policy, plugins, scripts |
| Cache (`cache/store.rs`) | generations and markers on disk | `load`, `commit`, `prune` | fact cache, deep evidence, other processes |
| Parser, resolver, output | none | functions of files | profile scan |

What is hard in it: verdicts depend on the order of the stages (a gap noticed
after the verdict, eligibility computed before a finding is withheld); limits
drop the very diagnostics that hold verdicts back; profiles disagree; the disk
changes between scan and removal; changes are made one at a time without
rollback; several processes share one cache directory; plugins and the worker are
other programs that may hang, crash, print or leave processes behind; what one
stage collects in the first profile is used in the others.

What makes each part correct:

- graph: the marked nodes are the reachable ones, cycles included, and the loop ends;
- profile scan: a complete report is exact, an incomplete one accuses nobody a gap could
  save;
- project policy: a verdict is neither invented nor lost between the profiles and
  the report, nor widened unless a target is named "default", and what may be fixed
  is dead in every profile;
- fix workflow: only what was analysed is removed, and "passed" means the project is whole;
- symbols: the lanes are independent and a dead group has no live use;
- cache: a load returns a generation that was committed whole, and the newest survives;
- deep evidence: an answer is about the member and the sources it is kept for, or
  its absence is reported; no worker is left behind;
- members: what live code uses stays, and better evidence only adds findings;
- dependencies: what is used stays, and a removal is offered on whole evidence only;
- plugins: what is contributed was vouched for, a failure is never silent, and
  calls end;
- entries: the layer that counts most decides, and an entry is what something names
  where the code looks for names;
- links: an import of another package leads to the source of what its consumer would
  load, and a link that cannot be made leaves a diagnostic.

## Modules

| Module | Models | Extends |
| --- | --- | --- |
| `Worklist` | the marking loop, one target at a time | |
| `ProfileScan` | `scan_internal` for one profile | `Worklist` |
| `ProjectPolicy` | `scan_project_measured` after discovery | |
| `FixWorkflow` | `run_scan --fix`, `FixEngine`, `ProjectRevalidator` | |
| `Cache` | what the persistent cache promises | |
| `CacheStore` | `load`, `commit`, `prune`, `cache clean` of several processes; implements `Cache` | |
| `SymbolLiveness` | `build_symbol_links`, `analyze_symbols`, `build_symbol_findings` | `Worklist` |
| `MemberRules` | `analyze_member`, `analyze_escape`: one decision | |
| `Members` | the loop over profiles that decides, collects and decides again | `MemberRules` |
| `DeepSession` | `collect_deep_member_evidence`, `TypeScriptWorkerHost`, the worker, the evidence cache | |
| `PluginContract` | what `plugins/contract.rs` and `executable.rs` accept, refuse and merge | |
| `PluginHost` | `detect_plugins` and `call_plugin_host`, with the program at the other end | `PluginContract` |
| `Scripts` | `analyze_scripts`, and what a shell does with a script | |
| `Dependencies` | `append_dependency_results`, `analyze_dependencies` | `Scripts` |
| `Entries` | `scan_project_measured` up to the entries of each profile | `Scripts` |
| `Links` | the specifiers between packages and the links of plugins, for each profile | `Entries` |
| `ProfileScanProofs`, `ProjectPolicyProofs`, `SymbolLivenessProofs`, `MembersProofs`, `DeepSessionProofs`, `CacheStoreProofs` | theorems, each about the module it is named for | that module, `TLAPS` |
| `FixWorkflowProofs` | theorems about fixes, and about the dependencies whose removal they may request | `FixWorkflow`, `Dependencies`, `TLAPS` |
| `PackageProofs` | theorems about what a package brings into a scan: its plugins, entries and links | `PluginHost`, `Links`, `TLAPS` |
| `MCProfileScan`, `MCProjectPolicy`, `MCFixWorkflow`, `MCCacheStore`, `MCSymbolLiveness`, `MCMembers`, `MCDeepSession`, `MCPluginHost`, `MCDependencies`, `MCEntries` | instances for TLC | the above |

Every module states the types of its variables in `TypeOK` (`HostTypeOK`,
`DependencyTypeOK`, `LinkTypeOK`: modules that are proved about together name their
`Init`, `Next` and `Spec` apart as well). TLC agrees on the instance
of each run (add it to the configuration to see it), and for the modules proved about
it is a theorem;
the runs list what says more.

A definition marked *Variant* in a comment is a wrong version of the one below
it. The mutation runs put it in that one's place to see the property fail;
the specification never uses it.

### Worklist and ProfileScan

`outgoing`, `queue` and `reachable` are the variables of `reachable_from_many`;
`todo` is the list its inner loop runs over, so that each look at a target is a
step. The symbol graph runs the same loop, which is why it has its own module.

`ProfileScan` follows `scan_internal`: `EnforceDiagnosticLimit`, `ResolveFile`
per file, `FinishGraph` (plugin edges, `FileGraph::finish`, roots), `Walk`,
`Classify`. A file is its index. What parser and resolver say of it is its
*program*: diagnostics, and per import the facts `resolve_imports` branches on
(deferred, mapped by a workspace package, named in the manifest, the resolver's
answer). Every branch of that function is one of the answers. `components_within`
is taken by its result. `ListOf` stands for sorting and deduplicating an
adjacency list; any order will do, and the proofs assume none.

Left out: findings on symbols and members.
They are made from the same reachable set, change no file verdict, and their
diagnostics never block (`SymbolLiveness`, `Members`).

### ProjectPolicy

One action per call in `scan_project_measured`, in the order of the calls. The
scan of a profile is one step and gives what `ProfileScan` establishes of it:
no findings and no `Unreachable` status while a reached file has a gap. The
configuration, plugins, scripts and the request are one record `setting`.
Diagnostics are a set of paths with a blocking flag; `<project>` belongs to no
package and so counts as the root, as `suppress_blocked_findings` has it.
A finding that names the profile "default" alone is given to all
(`assign_project_context`, meant for a project without targets): `Widened`. A target
may have that name, and `VerdictsAreWitnessed` names the exception.

The findings are those on files and workspaces; both have high confidence, so
thresholds never drop them. Findings on dependencies and symbols go through
the same filters and influence neither these nor the status. How the packages,
files and entries come about that a profile is scanned with is `Entries`, the
links added to its imports are `Links`.

### FixWorkflow

The disk is `sources` (at most one content per path), `manifests`, and what is
`installed` in `node_modules`. A scan is the function `ScanOf` of a disk: unreached
files in strongly connected groups, unused and unlisted dependencies, import gaps, and
no findings when there are any. A gap is an import of a file that is not there, or of
a package that is neither declared nor installed. The run captures the manifests,
scans, plans, previews, verifies, and then checks and removes file by file, command by
command, so that `EditFile` and `EditManifest` can come between any two steps, also
between the last hash and the removal. `RemoveFails` is an I/O error, the second
branch of `ExecuteCommand` a failed package manager, whatever it had done. The project
is one closed-world profile with a supported package manager; eligibility is
`ProjectPolicy`'s subject. `FileChange::Modify` is not modelled: the command line
plans only deletions. Symbolic links are not modelled.

The rescan may bring nothing new: no finding, gap or diagnostic. The diagnostics that
depend on what a fix takes away are the blocking ones of gaps, and those of retain and
ignore rules that match no file any more (`StaleRules`). An ignore rule counts here for
that warning only: others bring the files back in that it matches. So a fix can fail
that breaks nothing: one that removes the last file of a rule, or a
dependency that a dead file still uses. `SelfContained` leaves both out, and
`SoundFixPasses` is about what remains.

`removed`, `edits`, `stale` and `disturbed` are history variables: no action's
guard reads them, except `edits` for its bound.

### Cache and CacheStore

`files` and `markers` are the two directories; a generation is its place in the order
of names. A process lists generations, lists markers (and reads these few small files,
in the same step), opens one candidate after the other, and, if a file of the project
was not in the snapshot, writes a generation, its marker, and prunes from a listing it
takes once. Between any two of these steps the others go on, a process may stop
(`Stop`: a crash or an I/O error that `?` returns), a file may be damaged, the cache
cleaned and the clock set back. `contents` holds the version that wrote a file, so
that `Usable` is what `read_generation` accepts. The deep evidence cache is the same
store in a directory of its own.

`steady`, `committed`, `contested` and `spoiled` are history variables.
`ImplementsCache` maps the store to `Cache`, an unordered bag of generations
that may forget any of them but never answers with one that is damaged, half
written, gone or of another version.

Names grow over all processes until the clock is set back; then a newer commit
sorts behind an older one, is not the one loaded, and may lose it while pruning:
work is lost, but what a load answers is still a whole generation and the limits
hold. Assumed: a removal fails only because the file is gone;
`cache clean` is one step. Temporary files are not modelled: no listing shows
them, and a crash leaves them behind for good.

### SymbolLiveness

The analysis of one program whose facts are the parser's: regions with parent,
eagerness and owner, references, import bindings, exports, guards. Specifiers
are replaced by the file they resolve to. `BuildSymbolLinks` follows imports
through re-exports (`resolve_export_targets`, whose visited set makes it a search
over pairs of file and name: `Closure`); `StartMarking` builds the graph and the
roots; `Walk` is `Worklist` over symbols in their two lanes, where an edge is
followed from whichever lane its source was reached in; `BuildSymbolFindings`
reports. Components are taken by what their search returns. It is the analysis
of a scan without reachable blocker; with one, no symbol finding is made.

`Used` is an independent account of what a program needs: the statements that
run, what they mention, what the importing file gets under the language's export
rules (an explicit export hides `export *`, which never passes `default` on),
all an outsider can import from an open file, and all that a module exports which is
loaded without a binding: by `import()`, a member of `require()`, or a worker. The
code makes no link of such a load: it reports what only loads use, although the
repository's README promises a diagnostic instead of a guess (`README.md:111`). The
properties that hold are therefore about `UsedByName`, which leaves loads out, and
`MCSymbolLivenessUnseen` shows the rest. `Used` ignores the parser's owners; a
region has one fact the parser does not record, `inline`: the function expression
is called, or handed over, where it stands. `IsAccounted` names what the owners
miss, each a case in which the code reports what is used:

- a function expression, static block or the like that runs where it stands but
  has no owner, or an owner nothing refers to;
- a type mentioned in a function under a parameter or local nothing refers to;
- `export * as`, which `resolve_export_targets` looks up by its own name.

Findings on unused exports are reported next to those on dead declarations; an
export that an open file re-exports is live, and reported as an unused export all
the same, because only import bindings count as its consumers.

### MemberRules and Members

`AnalyzeMember` is the decision on one candidate: what visibility, hazards, escapes,
mode and evidence have to say, in the order of the code. `Members` follows the loop
over the profiles: `Scan` decides every candidate in the mode of its file without
evidence, `Collect` asks about the deferred ones that no earlier profile asked about
(all of them, or none when the worker fails), `Apply` weighs the evidence against what
this profile reaches and decides again. A project says who uses a member and in which
form; what the scan and the oracle see of it is derived from that, so that the
properties compare a verdict with the use itself. A class is exported by a modifier,
by a list, or without a name; the scan sees each, the oracle only a modifier on a
declaration with a name (`OwnerExported`). So a consumer's call through a base that a
list exports does not keep an override: one of the exceptions in `OutOfSight`. A
member overrides whatever the classes above its own declare under its name, at any
distance, as `collectBaseMembers` walks them. The uses that the analysis does not see,
by design or by mistake, are named in `OutOfSight`.

### DeepSession

One action per call on the way: spawn, send, receive or one of its errors, the
reply to each method, the cache's lookup, load and commit; and one per thing the
worker does. The worker loads code of the project when it is initialised, and
from then on may print, hang or exit at any moment. Requests are counted in
units of the pipe's capacity: one that exceeds it is written as the worker reads
it, and until then there is no deadline. Sources have a version and may be
edited; a cached entry names the version of its digest, so that `EvidenceIsSound`
can compare it with the version the worker had read. Byte offsets are asked and
UTF-16 offsets answered: `Found` maps a member to what lies at its offset, and
the property allows for that (`Meant`), since the code does not convert them.
Another process uses the same cache.

### PluginContract and PluginHost

`PluginContract` is pure: which configurations, plugins, requests and responses
are valid, and what merging them gives. `PluginHost` takes a package's plan
(detection, or configured plugins in order) through selection and the calls of a
program, one per target profile. The pipes have a capacity, the reader is a thread
of its own, and the program reads, writes, closes, forks and exits as it likes.
The message of a failure quotes what the plugin's manifest or program said; where that
is not printable the diagnostic is invalid, and the scan ends in an error.
`accepted` and `stray` are history variables.

### Scripts and Dependencies

A script is a sequence of segments with one command each, and the kinds of span
the tokenizer could not model. `AnalyzeScripts` is what the program makes of
them, `Runs` and `RunsFiles` what a shell would. Loaders are read in the arguments of
`node` and in `NODE_OPTIONS` only, file operands of `node`, under `--test` all of them,
and of 13 tools; other arguments name nothing. `NamesFiles` is what a command loads
and names in such a place: what it names elsewhere is in `RunsFiles` alone, and the
difference is the subject of `MCEntriesScripts` and `MCDependenciesTools`.

`Dependencies` merges the statuses of the profiles, reads the workspaces in order, and
concludes; where two packages of a workspace install the same binary the owner is left
open, since it depends on the order of names.

### Entries

A path is the sequence of its components, and a rule the set of paths it matches, so
that what it is relative to stays visible. Each stage of the scan may end it with an
error, which is the last value of `phase`. Configuration overrides are records of the
fields they state: merging them is a matter of domains. The properties speak of layers
and of what manifests offer a consumer, which is defined without the code's
priorities. What a manifest exports under a subpath is the set of its targets, each
with the steps into arrays and conditions that lead to it: what the code selects on
its way down, and what a consumer loads, is then a condition on the steps of a target,
with no recursion to prove about. The packages that a profile has not asked yet are a
set, asked in the order of the workspace. Globs, the detection of frameworks
(`PluginHost`) and the discovery of compiler configurations are inputs, and so is the
mapping of a file's name to the roles it says.

### Links

`Links` continues `Entries`: the walk for the sources of transforms takes place with
the step that ignores files, and `LinkProfile` is the first half of the loop over
profiles in `scan_project_measured`, for one profile. `targets` is what
`workspace_module_targets` returns, a set of files per specifier and mode (the first
of the list only names the import in the report); `WorkspaceFiles` is how
`resolve_imports` uses it. `edges` is what `collect_plugin_file_edges` returns, and
`gaps` are the diagnostics it adds. A pattern has its star in the last component, and
`Captures` says what the star is; keys or targets with two stars, which the code
passes over, are left out. `ProfileScan` takes both as inputs: an import answered by
a workspace package, and plugin edges.

## Runs

| Run | Question | Result |
| --- | --- | --- |
| `profile_scan` | Are the verdicts of one profile exact, or withheld? Does the scan end? | holds |
| `project` | Does any stage invent or lose a verdict, or widen one? | holds |
| `fix` | What may a fix remove, and what does its verdict mean? | holds |
| `fix_tests` | ... also with `--report-tests`? | violated |
| `cache` | What do a load and a commit guarantee beside other processes and crashes? | holds |
| `symbols` | Is what is reported unused, and what is certainly unused reported? | holds |
| `plugins` | What may a program that crashes, hangs or lies bring into the analysis? Do calls end? | holds |
| `deep` | Is evidence about the right member and sources, are gaps reported, do collections end? | holds |
| `members` | Are used members kept and unused ones found, in every mode and profile? | holds |
| `dependencies` | Are used packages kept, and removals offered on whole evidence only? | holds |
| `entries` | Which files are scanned, which of them are entries of which profile, and do packages' imports and plugins' links lead where they should? | holds |
| `entries_targets` | ... is a configured profile always known? | violated |

The two violations are disagreements of the code with its README:

- `fix_tests`: `run_scan` ignores `--report-tests`; the rescan does not, and
  takes old findings in test files for new ones.
- `entries_targets`: `--workspace app --target edge` ends with `UnknownTargetProfile`
  when `edge` is a configured profile and another package has a name: the packages
  left out are read for their specifiers without any configuration.

### Known deviations

More of the kind were met while modelling. Each has a property that says what one
might expect and a configuration with which TLC shows in which way the code
differs (`tlc -config MCMembersNamed.cfg MCMembers`). They are kept apart from the
runs above, of which all but two hold.

| Configuration | Property | What happens |
| --- | --- | --- |
| `MCProfileScanLimit` | `GapsAlwaysWithholdVerdicts` | The marker of the diagnostic limit is given to the first file in path order. If nothing reaches that file, a gap whose own diagnostic was dropped is not seen, and findings are reported which the README promises to suppress. The report is still incomplete (a theorem), so nothing is applied from it. |
| `MCProjectPolicyEligibility` | `EligibleInEveryProfile` | Eligibility requires a finding to be unused in every profile, but is computed before the retain rules take profiles out of it. |
| `MCProjectPolicyDefault` | `NoVerdictIsWidened` | What a target named "default" alone reports is given to all profiles (`project.rs:2664`). |
| `MCProjectPolicyWorkspaces` | `GapsWithholdWorkspaces` | A workspace is held back by gaps in itself or the root, not by gaps in the code that could load it. |
| `MCFixWorkflowPartial` | `ChangesAreRescanned` | An error between two removals ends the run without a rescan. |
| `MCCacheStoreConcurrent` | `CommitIsActive` | A prune that finds a file already removed still counts it as retained; with a stale listing it goes on to newer generations, and removes the one another process has just activated. `load` recovers with an older one or none, so only the work is lost. |
| `MCSymbolLivenessUnseen` | `NothingUsedIsReported` | A function expression at the top of a file is no eager region and has no owner, so nothing it uses is ever marked. And what only `import()`, a member of `require()` or a worker uses is reported: such a load links to no export (`scan.rs:1807`), and leaves no diagnostic. With `-continue` TLC shows both. |
| `MCPluginHostSameId` | `EveryFailureIsReported` | A later plugin with the same id replaces the contributions and diagnostics of a program that failed (`project.rs:1903`), so nothing blocks. |
| `MCMembersNamed` | `NamedMembersAreKept` | References to a static member are counted in its own file only (`scan.rs:2009`): one that another file names is reported with "No semantic reference reaches the member". |
| `MCEntriesExports` | `PackageExportsAreEntries` | Of an exports map only `"."` leads to entries (`manifest.rs:308`); the other subpaths are known to imports between workspaces. A file that a public package exports as `"./old"` is reported unused, while the README says that package exports get picked up. |
| `MCEntriesScripts` | `ScriptFilesAreEntries` | The files that a script names to other programs than `node` and 13 tools are no entries (`scripts.rs:516`): `nodemon setup.js`, `electron main.js`, `npx tsx setup.ts`. |
| `MCDependenciesTools` | `PickedUpDependenciesAreKept` | `compilerOptions.types` names `node`, the package is `@types/node`; a wrapper such as `cross-env` is taken off a command and not counted; `yarn build` with no script of that name runs a binary nobody counted; `mocha --require ts-node/register` names no package (`scripts.rs:916`), and `nyc mocha` one binary. |

Seen on the way, and stated by no property:

- A segment with a redirection, inline code or an open quote is dropped with the
  files it runs, and its diagnostic does not block (`project.rs:3284`).
- `node src/server`, without an extension, names nothing, nor does `--config=x.js`,
  whose value is attached, nor `node --env-file .env x.js`, where the value of the
  flag is taken for the file.
- `NODE_OPTIONS` before `cross-env-shell` is read, what that sets itself is not.
- `import x = require()` and `import('./x').T` in a type are no imports to the parser.
- `node --require highlight.js` names a file and no package (`scripts.rs:943`): where only
  that loads a declared package, it is reported unused.
- Of a conditional export the branch of the first condition by priority is taken,
  not the first written, which is Node's order (`manifest.rs:319`). Of a subpath it
  is the first written, but nothing follows where that branch selects nothing
  (`project.rs:884`), while Node goes on.
- A pattern does not lead to a `.jsx` source, which is matched under its own name and
  never as `.js` (`project.rs:963`); a target without a star does.
- A source of a transform that is not scanned leaves no diagnostic when the same
  pattern matches one that is (`project.rs:1248`).
- An unsafe `main` of a private package, which gives no entries, ends the scan
  nevertheless (`project.rs:754`).
- Targets are lower-cased when asked for, not when configured: one with a capital
  letter in its name cannot be asked for.
- The two configuration files are checked by themselves: a cycle of targets that
  arises from merging them is an error of the scan, not of the configuration.
- One profile without entries ends the scan of all (`project.rs:1388`).
- A crash leaves temporary files in the cache directory, which nothing removes.
- Two workspaces that install a binary of the same name share its owner, the
  later one (`project.rs:3183`); `OnlyOwner` in `Dependencies` leaves them out.

### Bounds

- `profile_scan`: three files and a limit of two diagnostics, the least with
  which a dead cycle, a live chain, and a limit that drops one file's
  diagnostics and not another's occur together. `MCProfileScan` gives each file
  a few programs that cover every answer of the resolver.
- `project`: two profiles, one of them named "default", three workspaces (the root and
  two packages), three files, limit two. Two profiles
  suffice for every merge, since each report joins an aggregate. The settings
  cover each retaining rule with and without a match.
- `fix`: four files, one of them a test file, two manifests, a retain and an ignore
  rule, dependencies that are or are not installed, two edits by others
  (`MaxEdits`): enough to change a file and change it back, to recreate what was
  removed, or to use a dependency and declare it again.
- `cache`: two processes, three generations of which two are retained, and files of which
  two may exceed the bytes allowed; one fault (damage, clean, or a clock set back), any
  number of crashes. Three names let one process prune what the other is about to open,
  mark or prune. `MaxFilesToScan` (64) is never reached. The violation needs five names,
  since the default retains three.
- `plugins`: seven plugins, of which four are programs, in seven plans; two target
  profiles, so that one call may fail after another has succeeded. Pipes hold one
  unit, requests have one, two and four units and answers one to four: below, at
  and beyond each limit. Ten answers cover what a response can be refused for.
- `deep`: a configuration with three members asked in two batches, one whose
  request is too long, a member no configuration owns and one of a file that is not
  TypeScript; two collections, one edit, one other process. Two collections let
  one find what the other left in the cache.
- `members`: two files, two profiles, a class and one that may extend it. Three
  slices: what surfaces, who uses, who overrides. Classes are exported in each way
  there is.
- `dependencies`: two workspaces, two profiles, four slices: imports, commands,
  aliases and owners, configurations and plugins.
- `entries`: 1,639 projects of a root and one or two packages. Two packages are
  enough for each merge and for an order among them, two profiles for entries
  of one that are none of the other; each error of a stage occurs. For the links
  there are exports by name and by pattern, to sources and to compiled files, and
  transforms of files that are scanned, ignored or of no analysed kind; two links
  are the limit, which some plugins exceed.
- `symbols`: an entry, a barrel and a module, five symbols, and 19,968 programs:
  one family varies what is used from which region, the other how it is imported
  or loaded and exported, with star cycles, renamings and both kinds of open file.

### Fairness

- `ProfileScan`: `WF_vars(Next)`. One thread runs the stages, no stage waits for
  anything, and each is a loop over lists in memory.
- `PluginHost`: the host, its reader thread and the clock each go on while they
  can. Nothing is assumed of the program: `CallsEnd` says that a call without end
  is one whose program never reads the request, which is written before the
  deadline is set, or one that left a process behind which holds its output. Both
  happen: the code bounds neither.
- `DeepSession`: the client goes on while it can, and its deadline, one of its
  steps, passes at last. Nothing is assumed of the worker. `CollectionsEnd` has the
  same exception for a request that the pipe cannot hold.

The other modules are checked for safety only. Their steps never block either, but
a step that calls the package manager may take forever, so no liveness is claimed
for a fix. Deadlock is not checked where a run ends: every `cfg` with
`CHECK_DEADLOCK FALSE` is of a module whose scan or session has a last state.

## Proofs

The walk of `Worklist` is a part of `ProfileScan` and of `SymbolLiveness`, and the proofs
of both start with it. `IdleWalkIsExact` rests on an invariant of the loop: roots
and successors of expanded nodes are marked or still in `todo`, what is marked
and not expanded is in `queue`, and everything marked or in `todo` is reachable.
When both lists are empty the marked set holds the roots and is closed under
the edges, so it contains all that is reachable, and it contains nothing else.
`StartWalk`, `MarkTarget` and `PopFront` keep it.

`ProfileScanProofs`: `Invariant` is the inductive `IInv`. The properties speak
of the end of the scan and of what the programs said at its start, so `IInv`
ties each stage to both: the facts are those of the parser, or their truncation
with the marker in place; the files before `cursor` have their imports'
targets and diagnostics, the others nothing; in the walk the graph is
`Loads`, and the work list invariant holds of it; at the end the report is the
classification of the walk's result. It is needed in full: exactness fails
without the graph's history, the withholding of verdicts without the facts'.
From it follow `TypeCorrect`, `CompleteReportIsExact`, `LiveGapsWithhold`,
`BrokenFilesAreKept` and `DroppedReportsAreIncomplete`, for every number of
files, every set of programs, entries and plugin edges, and every limit.

Assumptions: those named in `ProfileScan` on its constants (files are numbered
from one, a fatal diagnostic blocks, entry lists are not empty, `ListOf` lists
a set), each a fact of the code that builds these values. TLC evaluates them.

`ProjectPolicyProofs`: the properties speak of the last stage, and every stage before
it could break them, so the inductive `IInv` says what each stage leaves behind. The
reports are those of the first profiles in order; a file a merged profile reaches is
reached in the aggregate; a finding on files is a verdict of every profile it names,
or of the one named "default" alone (`Widened` gives it to all when the policy's stage
assigns workspaces), and each verdict of a merged profile is a finding or noted; the
diagnostics are those of the merged profiles, and later what the limit leaves of all.
Two parts were not in the properties. `UnusedIsUnreached` has an exception while
findings are not yet suppressed: a workspace whose only reached file is broken, with
its diagnostic lost to the limit, is reported unused for a while. And
`NothingIsWithheldLater` says that suppression is the last stage that needs to
withhold. All six properties of the run follow: `EligibleFilesAreDead`,
`GapsWithholdTheirFindings`, `MergedVerdictsAreWitnessed`, `NoVerdictIsLost`,
`UnusedWorkspacesAreUnreached` and `CompleteReportsAreCovered`, for all packages,
files, profiles, settings and limits. The least path of a finding exists because paths
are numbers (well-foundedness). The proof does not use `Fixable`'s test of the merged
status: that a finding names all profiles already implies it.

`FixWorkflowProofs`: the run works on a disk that others edit, so `IInv` relates the
disk to what was read, as far as it can. The report is that of a scan; a plan that is
carried out is one that `Accepts` took; a removed file was requested and held what
was scanned or is `stale`; until `disturbed`, what is verified and not yet treated
still matches; and while nobody has edited anything the disk is what the scan read
less the changes of the run itself (`OnlyTheRunChanges`, from which `SoundFixesPass`
follows: the second scan of a sound fix is computed from the first, and has its live
files, and no new gap or stale rule. What is installed changes only where the package
manager runs, and then all that the remaining files use is declared). With it
`OnlyTheAnalyzedIsRemoved`, `OnlyDisturbedRunsStopHalfWay` and `PassedProjectsAreWhole`.

`SymbolLivenessProofs`: the walk's invariant is used for the symbol graph. `IInv` says
that the work list invariant holds throughout, that from the start of the walk the
graph and the roots are those of the program and its links, and that the report is
made from the marks. At the end the marks hold the roots and are closed under the
edges, so whatever mentions an unmarked symbol is itself unmarked and no root:
`DeadDeclarationsHaveNoLiveUse`, for all programs, accounted or not. The other three
compare the report with `Used`, the language's account; of these, the two that say
what is kept take it without the loads that bind nothing (`UsedByName`). Both sides
are least closed sets, and what `Closure` returns is shown to be one (as the limit of
an iterated step), so the comparison goes by closed sets: what the analysis reaches
and the resolution of exports contains the roots of `Used` and is closed under its
steps (`UsedDeclarationsAreKept`, `ImportedExportsAreKept`), and the reverse where
`export *` hides nothing (`DeadDeclarationsAreReported`). The first attempt failed at
a type inside a nested function, and TLC then showed `IsAccounted`, as it stood, too
weak: a nested region that runs on the spot must have its parent's owner, which
`IsAccounted` now says. Assumptions beyond the types: `ResolvedAssumption` (regions,
references, imports and exports name things of their own file, as parser and resolver
make them) and `FiniteAssumption`.

`MembersProofs`: `DeepOnlyAdds` is about the rules alone: a candidate that fast or
balanced mode reports is reported in deep mode, whatever the evidence. `Safety`
is the inductive `IInv`: types, the profile under way, and that every profile
decided so far reports what a faster mode would. In the profile under way a
finding is a finding already, so it is never among the deferred ones `Apply`
decides again. `TypeCorrect` and `FasterFindings` follow, for every project and
list of profiles. `Weighing` says exactly what a decided profile reports: `Final`, the
decision without evidence or, where that is deferred in deep mode, with the evidence
as this profile's files weigh it. It holds although evidence is collected once,
because a verdict that depends on evidence has it already, and evidence is never
replaced. `UsedStayUnreported` and `UnusedAreReported` follow by what the rules make of
a use: for a call through a base, that the base's declaration has a modifier and a
name. Assumptions: profiles differ (`normalized_profiles`); what a member overrides
includes what that overrides (`HierarchyAssumption`); outsiders see what open packages
export (`OutsidersAssumption`).

`DeepSessionProofs`: `IInv` follows a request from the client to the worker and back.
The request on its way is the one the client waits for; a line that is no noise
answers it, is the only one, and is followed by no other request until it is read;
a worker that is queried has loaded the project, from the sources of the digest
unless they were edited in between; what any store holds, another process's included, is
answered and sound; the members before the batch under way are answered, and those of
earlier groups are, or their failure is recorded. So `SessionEvidenceIsSound`,
`OnlyAnswersAreStored`, `SessionGapsAreReported` and `WorkersEndWithTheirSession` hold for
every list of groups, batch size, pipe and interleaving, whatever noise the worker
prints.

`CacheStoreProofs`: no process knows what the others will remove, so the limits rest
on an invariant over all listings at once. For each pruning commit take what was there
when it listed (`seen`), and for the commits that have returned one such set
(`settled`) with all that is committed and still there. Names are used once, so that a
removed generation never returns and a later listing has, of what is left, all that an
earlier one had: any two of these sets are nested (`ListingsAreNested`). What is left
of a commit's own set is bounded by its counters, and by the limits once it is
through: a file that somebody else removed is counted as retained, which errs on the
side of removing more. A commit that returns settles its own set unless a larger one
is settled: hence `RestingCacheStaysBounded`, and that the count of retained
generations never falls below zero, which is in `CacheTypesCorrect`. `NewestStays`
says that, while uncontested, the newest generation's own commit is the only one under
way and spares it, its file and its marker (`UncontestedCommitsStayActive`).
`LoadsFindWhatStays` adds that what was usable all along is still to be opened; its
hypothesis `FewCandidates`, that no load lists more than
`max_generation_files_to_scan`, is the exception `load` itself makes. For
`StoreKeepsItsPromise` each step is mapped: an opened usable file is an `Answer`, the
creation of a file a `Commit`, pruning, damage and cleaning `Forget`, the start of a
commit and the end of a run `Drop`, and the rest stutters.

`PackageProofs` has two invariants, of specifications that share no state. `HostInv`
follows a plan of plugins through the calls of each program. The properties
speak of the report; what they need is what holds between two calls: while a program is
asked, the request is valid, and the answers counted so far are accepted ones of that
program for the first profiles in order (`AskedIsAnswered`); what is kept of a plugin
that no later one replaces blocks or has an accepted answer for every profile
(`KeptHasAnswered`); a fact kept came of such an answer; and a child still running
belongs to the call under way unless it closed its input first. So `FactsAreVouchedFor`,
`SilentMeansAnswered` and `NoProgramOutlivesItsCall` hold for every plan, list of profiles,
pipe and program. Assumption: `HostAssumption` (what a manifest and a program may hold).

`LinkInvariant` is the inductive invariant of `Links`, in three parts. `StagesInv` says
what each stage has left for the later ones: the packages are those of the walk, the
configuration is the merged one, the files are those of the packages less the ignored,
and no entry is there before its stage. `EntriesInv` is about the loop over profiles
and, in it, over packages: every package that was asked has given the profile all its
entries (`Settled`), the root is asked first, before any other package's entry could
stand in the way of its conventional one, profiles not begun have no entries, and every
entry has a package it is there for (`Explained`). `LinkInv` says that a profile that
was linked has what its packages export and its plugins' links, or a diagnostic. All
four properties of the run follow, and that no entry and no end of a link lies outside
of the files scanned (`EntryTypesCorrect`); the rest of the work is about operators:

- `HighestLayerDecides`: merging in the code's order, two files first, then the layers,
  gives a field its value from the first layer that states it (`EffectiveIsDecided`),
  and rules are read where that layer is meant.
- `NamedFilesBecomeEntries`, `EntriesAreNamed`: a target that a consumer loads is one that
  the code's priorities select (`LoadsAreTargets`), the file references of a script are
  exactly what its commands name where the analysis looks (`ScriptsLoad`), and a file that
  is scanned stands for itself first (`VariantsAssumption`: of the names a name may stand
  for it is the first).
- `LinksAreNotLost`: `map_entry_to_source` and `emitted_source_variants` are inverse to
  each other where a name has one compiled form: what a compiled path is mapped to is
  found again under that path (`SourcesAreEmitted`), so that a pattern leads to it
  (`PatternsAreExpanded`).

Failed attempts at these corrected the properties: of a command that the analysis
cannot read only `NODE_OPTIONS` counts (`Loaded`), plugins leave nothing out of a scan
without profiles (`LeftOut`), and under a subpath the conditions of the profile hold
next to the consumer's own, so that the first one written decides among all of them
(`PackageImportsLead`). Assumptions: `ProjectsAssumption` (both lists of
a project have no duplicates, the root is the first package, the command line states
neither rules nor entries), `VariantsAssumption` and `PathsAssumption` (what is spelled
in manifests and outputs are paths), each a fact of the code that builds these values.

In `FixWorkflowProofs`, `DependencyInv` says what each phase of the evidence leaves
behind: the profiles scanned so far have marked what they reach, the imports of marked
files are evidence, a workspace that was read has left its references and, where a
command of it is not modelled, its blocker; each owner installs its binary; the outcomes
are those of the whole evidence. `UsedDependenciesAreKept` then follows use by use: each
is evidence, and evidence of a package or of a binary it alone owns is a use in its
workspace, or the workspace is blocked. So do `FixesRestOnWholeEvidence` and
`MissingDeclarationsAreReported`. The first attempt at `UsedDependenciesAreKept` failed on
a loader: one that is written like a file is taken for a file, even where a declared
package has that name (`node --require highlight.js`), and `NamesPackage` now says so.
Assumption: `ProjectsAssumption` of `Dependencies`: every workspace has a manifest, and
gaps are of workspaces.

Every safety invariant of a run that holds is a theorem, and so is the refinement of
`Cache`. Only model-checked are the liveness properties (`Terminates`, `CallsEnd`,
`CollectionsEnd`: out of the prover's reach). The properties of the runs that are
violated, and of the known deviations, are false and stay with TLC.

## Not modelled

- Parsing: a function from a source text to facts; its threads share nothing, each
  owns its file and is joined in order. The facts are inputs.
- Resolution: a wrapper of an external resolver, whose answers are inputs of
  `ProfileScan`.
- Reading `tsconfig` files, globs and the shell tokenizer: text to values. The
  values, and what cannot be modelled in a script, are inputs.
- The tables of the built-in plugins, and of test and story file names.
- What the worker's oracle finds in a program: the compiler's own work.
- Reports and their formats, benchmarks, fuzz targets and schemas.
- The two searches behind `components_within` and
  `dead_strongly_connected_components`, taken by their result: no property would see one
  of them go wrong.
- How a fix plan is ordered and written, and how a package manager is chosen and called
  (`plan.rs`, `package_manager.rs`), beyond what their callers do with the results.
- What makes a value escape (`escape.rs`) and a cache entry usable (keys, digests,
  schema checks): inputs of `MemberRules`, `CacheStore` and `DeepSession`.
- Symbolic links, and removals that fail for other reasons than
  that the file is gone.

## Plan

1. `Components`: the two searches step by step, implementing the operators that
   `ProfileScan` and `SymbolLiveness` use.
2. Composition: `ProjectPolicy`'s scan step shown to be what `ProfileScan`
   implements, `Members`' collection what `DeepSession` implements.
