--------------------------- MODULE ProjectPolicy ---------------------------
(***************************************************************************)
(* From one report per target profile to the report of the project,        *)
(* application/project.rs: the merge of the profiles, the project's        *)
(* diagnostics and their limit, the findings about workspaces, the fix     *)
(* eligibility, and the rules that withhold findings.                      *)
(*                                                                         *)
(* The findings are those about files and workspaces; those about          *)
(* dependencies and symbols pass through the same filters and touch        *)
(* neither.  Confidence thresholds are absent: both kinds of finding are   *)
(* built with high confidence, which every threshold lets through.         *)
(***************************************************************************)
EXTENDS Integers, Sequences, FiniteSets

CONSTANTS Workspace, Root,   \* the selected packages, and the one at the root
          File,              \* source files, numbered in path order
          Manifest,          \* per workspace, the path of its package.json
          WorkspaceOf,       \* package_for_path, of files and manifests
          ProfileList,       \* the target profiles, in order
          Analyses,          \* what the scan of one profile may find
          Settings,          \* configurations with their plugins and scripts
          TestFiles,         \* files is_test_path accepts
          MaxDiagnostics     \* AnalysisLimits::max_diagnostics

Profile == {ProfileList[i] : i \in DOMAIN ProfileList}

(* The name of the profile of a project that configures no target, which   *)
(* a configured target may have as well.                                   *)
DefaultProfile == "default"

Path == File \cup {Manifest[w] : w \in Workspace}

ProjectPath == 0             \* "<project>", which sorts before every path

ASSUME PathAssumption ==
  /\ Root \in Workspace
  /\ File \subseteq Nat \ {ProjectPath}
  /\ Manifest \in [Workspace -> Nat \ (File \cup {ProjectPath})]
  /\ WorkspaceOf \in [Path -> Workspace]
  /\ \A w \in Workspace : WorkspaceOf[Manifest[w]] = w
  /\ TestFiles \subseteq File
  /\ IsFiniteSet(File) /\ IsFiniteSet(Workspace)

ASSUME ProfileAssumption ==
  /\ ProfileList \in Seq(Profile) /\ ProfileList # <<>>
  /\ \A i, j \in DOMAIN ProfileList : ProfileList[i] = ProfileList[j] => i = j

(* Per profile: the files reached, the files with a blocking diagnostic,   *)
(* those of them without usable facts, and the strongly connected groups   *)
(* the other unreached files fall into.                                    *)
ASSUME AnalysisAssumption ==
  \A a \in Analyses :
     /\ a \in [live : SUBSET File, blocked : SUBSET File,
               broken : SUBSET File, groups : SUBSET (SUBSET File)]
     /\ a.live # {} /\ a.broken \subseteq a.blocked
     /\ UNION a.groups = File \ (a.live \cup a.broken)
     /\ \A g, h \in a.groups : g # {} /\ (g = h \/ g \cap h = {})

Diagnostic == [path : Path \cup {ProjectPath}, blocks : BOOLEAN]

ASSUME SettingAssumption ==
  \A s \in Settings :
     s \in [world     : [Workspace -> {"open", "closed"}],
            retain    : SUBSET (SUBSET File),       \* retain rules, by what they match
            generated : [Profile -> SUBSET File],   \* the plugins' generated files
            private   : SUBSET Workspace,
            imports   : SUBSET (File \X Workspace), \* imports by package name
            scripts   : SUBSET Workspace,           \* named by a package script
            pending   : SUBSET [path : {Manifest[w] : w \in Workspace}, blocks : BOOLEAN],
            issues    : SUBSET {"files", "workspaces"},
            tests     : BOOLEAN]                    \* report_tests

ASSUME LimitAssumption == MaxDiagnostics \in Nat

VARIABLES analysis,    \* per profile, what its scan finds
          setting,     \* the configuration in force
          pc,          \* the stage of the project scan
          reports,     \* profile_reports, in order
          merged,      \* how many of them the aggregate holds
          files,       \* per file, its merged status and its status per profile
          findings,    \* the findings of the aggregate
          retentions,  \* the items the report keeps, and for which profiles
          diagnostics, \* the diagnostics of the aggregate
          status       \* AnalysisStatus of the report

inputVars == <<analysis, setting>>
reportVars == <<files, findings, retentions, diagnostics, status>>
vars == <<inputVars, pc, reports, merged, reportVars>>

FileStatus == {"Reachable", "Unreachable", "Incomplete"}

Finding == [type      : {"unusedFiles", "unusedWorkspace"},
            workspace : Workspace,
            paths     : (SUBSET Path) \ {{}},
            profiles  : SUBSET Profile,
            fix       : {"PreviewOnly", "Eligible", "NotAvailable"}]

Retention == [item : Path, profiles : SUBSET Profile]

TypeOK ==
  /\ analysis \in [Profile -> Analyses] /\ setting \in Settings
  /\ pc \in {"scan", "merge", "diagnostics", "workspaces", "eligibility",
             "suppress", "retain", "finish", "done"}
  /\ \A i \in DOMAIN reports : reports[i].profile = ProfileList[i]
  /\ merged \in 0..Len(ProfileList)
  /\ \A f \in File : /\ files[f].status \in FileStatus
                     /\ \A p \in DOMAIN files[f].targets :
                           p \in Profile /\ files[f].targets[p] \in FileStatus
  /\ findings \subseteq Finding
  /\ retentions \subseteq Retention
  /\ diagnostics \subseteq Diagnostic
  /\ status \in {"Complete", "Incomplete"}

NoTargets == [p \in {} |-> "Unreachable"]

Init ==
  /\ analysis \in [Profile -> Analyses]
  /\ \A p, q \in Profile : analysis[p].broken = analysis[q].broken
  /\ setting \in Settings
  /\ pc = "scan"
  /\ reports = <<>>
  /\ merged = 0
  /\ files = [f \in File |-> [status |-> "Unreachable", targets |-> NoTargets]]
  /\ findings = {}
  /\ retentions = {}
  /\ diagnostics = {}
  /\ status = "Complete"

-----------------------------------------------------------------------------
(* The scan of one profile, by what module ProfileScan shows of it.        *)

LiveGap(p) == analysis[p].live \cap analysis[p].blocked # {}

ScannedStatus(p, f) ==
  IF f \in analysis[p].broken THEN "Incomplete"
  ELSE IF f \in analysis[p].live THEN "Reachable"
  ELSE IF LiveGap(p) THEN "Incomplete" ELSE "Unreachable"

UnusedFiles(p, group) ==
  [type |-> "unusedFiles", workspace |-> Root, paths |-> group,
   profiles |-> {p}, fix |-> "PreviewOnly"]

ProfileReport(p) ==
  [profile     |-> p,
   files       |-> [f \in File |-> ScannedStatus(p, f)],
   findings    |-> IF LiveGap(p) THEN {}
                   ELSE {UnusedFiles(p, g) : g \in analysis[p].groups},
   diagnostics |-> {[path |-> f, blocks |-> TRUE] : f \in analysis[p].blocked}]

ScanProfile ==
  /\ pc = "scan"
  /\ Len(reports) < Len(ProfileList)
  /\ reports' = Append(reports, ProfileReport(ProfileList[Len(reports) + 1]))
  /\ pc' = IF Len(reports') = Len(ProfileList) THEN "merge" ELSE "scan"
  /\ UNCHANGED <<inputVars, merged, reportVars>>

-----------------------------------------------------------------------------
(* merge_profile_reports                                                   *)

Blocking(ds) == {d \in ds : d.blocks}

StatusOf(ds) == IF Blocking(ds) # {} THEN "Incomplete" ELSE "Complete"

(* Variant: the worst status wins, an unreached profile over a reached one. *)
MergeFileStatusWorst(left, right) ==
  IF "Unreachable" \in {left, right} THEN "Unreachable"
  ELSE IF "Incomplete" \in {left, right} THEN "Incomplete" ELSE "Reachable"

MergeFileStatus(left, right) ==
  IF "Reachable" \in {left, right} THEN "Reachable"
  ELSE IF "Incomplete" \in {left, right} THEN "Incomplete" ELSE "Unreachable"

(* Variant: the paths are not compared.                                    *)
SameType(f, g) == f.type = g.type /\ f.workspace = g.workspace

SameFinding(f, g) ==
  f.type = g.type /\ f.workspace = g.workspace /\ f.paths = g.paths

MergeFindings(have, more) ==
  LET alike(f) == {g \in more : SameFinding(f, g)}
  IN  {[f EXCEPT !.profiles = @ \cup UNION {g.profiles : g \in alike(f)}] : f \in have}
      \cup {g \in more : \A f \in have : ~SameFinding(f, g)}

OneTarget(p, s) == [q \in {p} |-> s]

(* The first report, tagged with its profile, is what the others join.     *)
StartMerge ==
  /\ pc = "merge"
  /\ merged = 0
  /\ LET report == reports[1]
     IN  /\ files' = [f \in File |-> [status  |-> report.files[f],
                                      targets |-> OneTarget(report.profile, report.files[f])]]
         /\ findings' = report.findings
         /\ diagnostics' = report.diagnostics
  /\ merged' = 1
  /\ UNCHANGED <<inputVars, pc, reports, retentions, status>>

MergeNext ==
  /\ pc = "merge"
  /\ merged \in 1..Len(reports) - 1
  /\ LET report == reports[merged + 1]
     IN  /\ files' = [f \in File |->
                        [status  |-> MergeFileStatus(files[f].status, report.files[f]),
                         targets |-> [p \in (DOMAIN files[f].targets) \cup {report.profile} |->
                                        IF p = report.profile THEN report.files[f]
                                        ELSE files[f].targets[p]]]]
         /\ findings' = MergeFindings(findings, report.findings)
         /\ diagnostics' = diagnostics \cup report.diagnostics
  /\ merged' = merged + 1
  /\ UNCHANGED <<inputVars, pc, reports, retentions, status>>

EndMerge ==
  /\ pc = "merge"
  /\ merged = Len(reports)
  /\ pc' = "diagnostics"
  /\ status' = StatusOf(diagnostics)
  /\ UNCHANGED <<inputVars, reports, merged, files, findings, retentions, diagnostics>>

-----------------------------------------------------------------------------
(* assign_project_context, the pending diagnostics and their limit, and    *)
(* the filter for requests that leave out unused files                     *)

First(paths) == CHOOSE p \in paths : \A q \in paths : p <= q

(* What the profile named "default" found alone is taken for a result of a *)
(* project without targets, and given to all profiles.                     *)
Widened(x) == IF x.profiles = {DefaultProfile} THEN [x EXCEPT !.profiles = Profile] ELSE x

AssignContext(fs) == {Widened([f EXCEPT !.workspace = WorkspaceOf[First(f.paths)]]) : f \in fs}

Limit == IF MaxDiagnostics = 0 THEN 1 ELSE MaxDiagnostics

EnforceLimit(ds) ==
  IF Cardinality(ds) <= Limit THEN ds
  ELSE {d \in ds : Cardinality({e \in ds : e.path < d.path}) < Limit - 1}
       \cup {[path |-> ProjectPath, blocks |-> TRUE]}

AddDiagnostics ==
  /\ pc = "diagnostics"
  /\ pc' = "workspaces"
  /\ diagnostics' = EnforceLimit(diagnostics \cup setting.pending)
  /\ findings' = IF "files" \in setting.issues THEN AssignContext(findings) ELSE {}
  /\ UNCHANGED <<inputVars, reports, merged, files, retentions, status>>

-----------------------------------------------------------------------------
(* append_workspace_results                                                *)

PackageOf(path) == IF path = ProjectPath THEN Root ELSE WorkspaceOf[path]

ReachableFileIn(w) == \E f \in File : WorkspaceOf[f] = w /\ files[f].status = "Reachable"

ImportedByWorkspace(w) ==
  \E f \in File : WorkspaceOf[f] # w /\ <<f, w>> \in setting.imports

BlockedPackage(w) ==
  \E d \in Blocking(diagnostics) : d.path = Manifest[Root] \/ PackageOf(d.path) = w

RetainedPackage(w) ==
  \/ w \notin setting.private
  \/ ReachableFileIn(w)
  \/ ImportedByWorkspace(w)
  \/ w \in setting.scripts
  \/ BlockedPackage(w)

UnusedWorkspace(w) ==
  [type |-> "unusedWorkspace", workspace |-> w, paths |-> {Manifest[w]},
   profiles |-> Profile, fix |-> "NotAvailable"]

AppendWorkspaceResults ==
  /\ pc = "workspaces"
  /\ pc' = "eligibility"
  /\ LET judged == IF "workspaces" \in setting.issues THEN Workspace \ {Root} ELSE {}
     IN  /\ findings' = AssignContext(findings) \cup
                          {UnusedWorkspace(w) : w \in {w \in judged : ~RetainedPackage(w)}}
         /\ retentions' = {Widened(r) : r \in retentions} \cup
                          {[item |-> Manifest[w], profiles |-> Profile] :
                             w \in {w \in judged : RetainedPackage(w)}}
  /\ UNCHANGED <<inputVars, reports, merged, files, diagnostics, status>>

-----------------------------------------------------------------------------
(* apply_file_fix_eligibility                                              *)

(* Variant: any profile's verdict is enough.                               *)
FixableInSomeProfile(f) ==
  /\ setting.world[f.workspace] = "closed"
  /\ f.profiles # {}

Fixable(f) ==
  /\ setting.world[f.workspace] = "closed"
  /\ f.profiles = Profile
  /\ \A p \in f.paths : files[p].status = "Unreachable"

ApplyFileFixEligibility ==
  /\ pc = "eligibility"
  /\ pc' = "suppress"
  /\ findings' = {IF f.type # "unusedFiles" THEN f
                  ELSE [f EXCEPT !.fix = IF Fixable(f) THEN "Eligible" ELSE "PreviewOnly"] :
                    f \in findings}
  /\ UNCHANGED <<inputVars, reports, merged, files, retentions, diagnostics, status>>

-----------------------------------------------------------------------------
(* suppress_blocked_findings                                               *)

BlockingWorkspaces == {PackageOf(d.path) : d \in Blocking(diagnostics)}

(* Variant: a blocked root blocks only itself.                             *)
WithheldLocally(w) == w \in BlockingWorkspaces

Withheld(w) == Root \in BlockingWorkspaces \/ w \in BlockingWorkspaces

Demoted(s) == IF s = "Unreachable" THEN "Incomplete" ELSE s

(* The retentions a withheld finding leaves behind.                        *)
RetentionsFor(fs) == UNION {{[item |-> p, profiles |-> f.profiles] : p \in f.paths} : f \in fs}

SuppressBlockedFindings ==
  /\ pc = "suppress"
  /\ pc' = "retain"
  /\ files' = [f \in File |->
                 IF files[f].status = "Unreachable" /\ Withheld(WorkspaceOf[f])
                 THEN [status  |-> "Incomplete",
                       targets |-> [p \in DOMAIN files[f].targets |->
                                      Demoted(files[f].targets[p])]]
                 ELSE files[f]]
  /\ LET blocked == {f \in findings : Withheld(f.workspace)}
     IN  /\ findings' = findings \ blocked
         /\ retentions' = retentions \cup RetentionsFor(blocked)
  /\ UNCHANGED <<inputVars, reports, merged, diagnostics, status>>

-----------------------------------------------------------------------------
(* apply_retain_rules.  A configured rule retains a finding all of whose   *)
(* paths it matches; a plugin's generated file is looked up by the first   *)
(* path of the finding, profile by profile.                                *)

ConfiguredToRetain(f) == \E rule \in setting.retain : f.paths \subseteq rule

RetainedProfiles(f) == {p \in f.profiles : First(f.paths) \in setting.generated[p]}

(* Variant: nothing is noted of the profiles a plugin takes out.           *)
NotesOfConfigured ==
  RetentionsFor({f \in findings : ConfiguredToRetain(f)})

NotesOfRetained ==
  RetentionsFor({f \in findings : ConfiguredToRetain(f)})
  \cup UNION {RetentionsFor({[f EXCEPT !.profiles = {p}] : p \in RetainedProfiles(f)}) :
                f \in {f \in findings : ~ConfiguredToRetain(f)}}

ApplyRetainRules ==
  /\ pc = "retain"
  /\ pc' = "finish"
  /\ LET open == {f \in findings : ~ConfiguredToRetain(f)}
         left(f) == [f EXCEPT !.profiles = @ \ RetainedProfiles(f)]
     IN  findings' = {left(f) : f \in {f \in open : f.profiles # RetainedProfiles(f)}}
  /\ retentions' = retentions \cup NotesOfRetained
  /\ UNCHANGED <<inputVars, reports, merged, files, diagnostics, status>>

(* The filters for the request's issues and for test files, and            *)
(* refresh_report_state                                                    *)
IsReported(f) ==
  /\ f.type = "unusedFiles" => "files" \in setting.issues
  /\ f.type = "unusedWorkspace" => "workspaces" \in setting.issues
  /\ setting.tests \/ f.paths \cap TestFiles = {}

(* Variant: the status of the merge is kept.                               *)
KeptStatus(ds) == status

FinalStatus(ds) == StatusOf(ds)

FinishReport ==
  /\ pc = "finish"
  /\ pc' = "done"
  /\ findings' = {f \in findings : IsReported(f)}
  /\ status' = FinalStatus(diagnostics)
  /\ UNCHANGED <<inputVars, reports, merged, files, retentions, diagnostics>>

Done == pc = "done" /\ UNCHANGED vars

Next ==
  \/ ScanProfile
  \/ StartMerge \/ MergeNext \/ EndMerge
  \/ AddDiagnostics
  \/ AppendWorkspaceResults
  \/ ApplyFileFixEligibility
  \/ SuppressBlockedFindings
  \/ ApplyRetainRules
  \/ FinishReport
  \/ Done

Spec == Init /\ [][Next]_vars

-----------------------------------------------------------------------------
(* What the profiles and the configuration say, before any merge or limit  *)

LiveAnywhere == UNION {analysis[p].live : p \in Profile}

AllDiagnostics ==
  setting.pending \cup
  {[path |-> f, blocks |-> TRUE] : f \in UNION {analysis[p].blocked : p \in Profile}}

GapIn(w) == \E d \in Blocking(AllDiagnostics) : PackageOf(d.path) \in {Root, w}

(* A profile's own verdict on a group of files.                            *)
IsVerdict(p, g) == ~LiveGap(p) /\ g \in analysis[p].groups

IsOnlyOfDefault(g) == {p \in Profile : IsVerdict(p, g)} = {DefaultProfile}

(* A finding the fix workflow may act on is about files that no selected   *)
(* profile reaches, in a closed workspace, and was made by scans without a *)
(* gap in what they reached, nor one in its workspace or the root.         *)
EligibleIsDeadEverywhere ==
  pc = "done" =>
     \A f \in findings : f.fix = "Eligible" =>
        /\ f.paths \cap LiveAnywhere = {}
        /\ \A p \in Profile : ~LiveGap(p) /\ f.paths \subseteq UNION analysis[p].groups
        /\ setting.world[f.workspace] = "closed"
        /\ ~GapIn(f.workspace)

(* Nothing is reported of a workspace with a coverage gap, of its own or   *)
(* in the root, even when the gap's diagnostic fell to the limit.          *)
GapsWithholdFindings ==
  pc = "done" => \A f \in findings : ~GapIn(f.workspace)

(* Every profile a finding names did report it, in a scan of its own that  *)
(* had no gap: the merge invents no verdict, and widens none but those of  *)
(* a target named "default", where no other profile reports the same.      *)
VerdictsAreWitnessed ==
  pc = "done" =>
     \A f \in findings : f.type = "unusedFiles" =>
        /\ f.profiles # {}
        /\ (\A p \in f.profiles : IsVerdict(p, f.paths)) \/ IsOnlyOfDefault(f.paths)

(* The same for targets of any name: a finding names no profile that did   *)
(* not report it (assign_project_context).                                 *)
NoVerdictIsWidened ==
  pc = "done" =>
     \A f \in findings : f.type = "unusedFiles" =>
        \A p \in f.profiles : IsVerdict(p, f.paths)

(* A verdict of a profile never vanishes: each of its files ends in a      *)
(* finding or in a retention for that profile, unless the request left     *)
(* unused files or test files out.                                         *)
VerdictsAreAccountedFor ==
  pc = "done" /\ "files" \in setting.issues =>
     \A p \in Profile : ~LiveGap(p) =>
        \A g \in analysis[p].groups : \A path \in g :
           \/ \E f \in findings : p \in f.profiles /\ path \in f.paths
           \/ \E r \in retentions : r.item = path /\ p \in r.profiles
           \/ ~setting.tests /\ g \cap TestFiles # {}

(* A workspace reported unused is private, and no profile reaches a file   *)
(* of it, no other workspace imports it, no script names it.               *)
UnusedWorkspaceIsUnreached ==
  pc = "done" =>
     \A f \in findings : f.type = "unusedWorkspace" =>
        /\ f.workspace \in setting.private \ setting.scripts
        /\ \A file \in LiveAnywhere : WorkspaceOf[file] # f.workspace
        /\ ~ImportedByWorkspace(f.workspace)

(* A report is complete only if no profile and no stage met a gap, and no  *)
(* diagnostic was dropped.                                                 *)
CompleteMeansCovered ==
  pc = "done" /\ status = "Complete" =>
     Blocking(AllDiagnostics) = {} /\ diagnostics = AllDiagnostics

(* Per finding, the condition eligibility is computed from: it is unused   *)
(* in every selected profile (unused_in_every_profile).                    *)
EligibleInEveryProfile ==
  pc = "done" => \A f \in findings : f.fix = "Eligible" => f.profiles = Profile

(* README: "Anything it can't fully model becomes a diagnostic, and        *)
(* findings those gaps could invalidate get suppressed."  A gap in code    *)
(* some profile reaches could load any package.                            *)
GapsWithholdWorkspaces ==
  pc = "done" /\ (\E p \in Profile : LiveGap(p)) =>
     \A f \in findings : f.type # "unusedWorkspace"

=============================================================================
