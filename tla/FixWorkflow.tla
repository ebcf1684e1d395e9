---------------------------- MODULE FixWorkflow ----------------------------
(***************************************************************************)
(* One run of `orphanode scan --fix`, main.rs with fixes/apply.rs: the     *)
(* manifests are hashed, the project is scanned, the requested items are   *)
(* planned, previewed and, with --apply, verified again and removed; then  *)
(* the project is scanned anew and compared with the first scan.           *)
(*                                                                         *)
(* Meanwhile somebody may edit the project (EditFile, EditManifest), a     *)
(* removal may fail, and so may the package manager.  A content is         *)
(* compared by value: digests do not collide.  The project is scanned in a *)
(* closed world for one profile, with a supported package manager, so that *)
(* an unused file or dependency is eligible.                               *)
(***************************************************************************)
EXTENDS Integers

CONSTANTS File,              \* paths of source files
          Entries,           \* those the scan starts from
          TestFiles,         \* those is_test_path accepts
          Manifest,          \* package.json files, with a dependency each
          FileContents,      \* what a file may hold: its imports and the
                             \* manifests whose dependency it uses
          ManifestContents,  \* what a manifest may hold
          RetainRules,       \* the files each retain rule matches
          IgnoreRules,       \* the same of ignore rules, where others bring
                             \* all that they match back in
          InitialFiles, InitialManifests, Requests,
          MaxEdits           \* bound on the edits by others

Rules == RetainRules \cup IgnoreRules

ASSUME ContentAssumption ==
  /\ FileContents \subseteq [imports : SUBSET File, uses : SUBSET Manifest]
  /\ ManifestContents \subseteq [declares : BOOLEAN, edition : Nat]
  /\ \A c \in ManifestContents : [c EXCEPT !.declares = FALSE] \in ManifestContents
  /\ InitialFiles \subseteq [File -> {{}} \cup {{c} : c \in FileContents}]
  /\ InitialManifests \subseteq [Manifest -> ManifestContents]
  /\ Entries \subseteq File /\ TestFiles \subseteq File
  /\ Rules \subseteq SUBSET File
  /\ File \cap Manifest = {} /\ MaxEdits \in Nat

(* --fix-file, --fix-dependency, --apply and --report-tests                *)
ASSUME RequestAssumption ==
  Requests \subseteq [files : SUBSET File, deps : SUBSET Manifest,
                      apply : BOOLEAN, tests : BOOLEAN]

VARIABLES sources,    \* the source files on disk: per path the content of the
                      \* file, as a set that is empty when there is none
          manifests,  \* the manifests on disk
          installed,  \* those whose dependency is in node_modules
          request,    \* the command line
          pc,         \* the stage of the run
          captured,   \* analyzed_manifests
          report,     \* the scan the plan is made from
          left,       \* inputs of the plan the stage has still to treat
          current,    \* the inputs between check and change: one or none
          commandFailed,
          rescan,     \* the scan of the revalidation
          outcome     \* what the run ends with

VARIABLES removed,    \* history: the files removed, with what they held
          edits,      \* history: how many edits others made
          stale,      \* history: files edited between their check and removal
          disturbed   \* history: an edit after verification, or an I/O error

runVars == <<request, captured, report, left, current, commandFailed, rescan, outcome>>
historyVars == <<removed, edits, stale, disturbed>>
vars == <<sources, manifests, installed, pc, runVars, historyVars>>

-----------------------------------------------------------------------------
(* scan_project, by what it reports of a state of the disk                 *)

Absent == {}

Existing(src) == {f \in File : src[f] # Absent}

Imports(src, f) == UNION {c.imports : c \in src[f]}

ReachedFrom(src, f) ==
  {g \in Existing(src) :
     \A S \in SUBSET File :
        f \in S /\ (\A h \in S : Imports(src, h) \cap Existing(src) \subseteq S) => g \in S}

LiveFiles(src) == UNION {ReachedFrom(src, f) : f \in Entries \cap Existing(src)}

Uses(src, f) == UNION {c.uses : c \in src[f]}

(* Imports of a file that is not there, and of a package that is neither   *)
(* declared nor installed: each is a blocking diagnostic and an import gap.*)
Gaps(src, man, inst) ==
  {gap \in Existing(src) \X (File \cup Manifest) :
     \/ gap[2] \in Imports(src, gap[1]) \ Existing(src)
     \/ gap[2] \in {m \in Uses(src, gap[1]) : ~man[m].declares} \ inst}

(* The other diagnostics that depend on what is fixed: stale_retain_rule   *)
(* and stale_ignore_rule                                                   *)
StaleRules(src) == {rule \in Rules : rule \cap Existing(src) = {}}

(* The unreached files, in strongly connected groups                       *)
UnusedGroups(src) ==
  LET dead == Existing(src) \ LiveFiles(src)
  IN  {{g \in dead : g \in ReachedFrom(src, f) /\ f \in ReachedFrom(src, g)} : f \in dead}

UsedManifests(src) == UNION {Uses(src, f) : f \in LiveFiles(src)}

IsRetained(g) == \E rule \in RetainRules : g \subseteq rule

FindingsOf(src, man, inst, tests) ==
  IF Gaps(src, man, inst) # {} THEN {}
  ELSE {[kind |-> "unusedFiles", item |-> g] :
           g \in {g \in UnusedGroups(src) :
                    ~IsRetained(g) /\ (tests \/ g \cap TestFiles = {})}}
       \cup {[kind |-> "unusedDependency", item |-> {m}] :
               m \in {m \in Manifest \ UsedManifests(src) : man[m].declares}}
       \cup {[kind |-> "unlistedDependency", item |-> {m}] :
               m \in {m \in UsedManifests(src) : ~man[m].declares}}

ScanOf(src, man, inst, tests) ==
  [failed   |-> Entries \cap Existing(src) = {},
   complete |-> Gaps(src, man, inst) = {},
   findings |-> FindingsOf(src, man, inst, tests),
   gaps     |-> Gaps(src, man, inst),
   warnings |-> StaleRules(src),
   sources  |-> src,
   manifests |-> man,
   installed |-> inst]

NoScan == ScanOf([f \in File |-> Absent], [m \in Manifest |-> [declares |-> FALSE, edition |-> 0]],
                 {}, FALSE)

-----------------------------------------------------------------------------

Stages == {"capture", "scan", "plan", "preview", "verify", "files", "remove",
           "commands", "execute", "revalidate", "ended"}

Outcomes == {"running", "refused", "previewed", "error", "failed", "passed"}

TypeOK ==
  /\ sources \in [File -> {Absent} \cup {{c} : c \in FileContents}]
  /\ manifests \in [Manifest -> ManifestContents] /\ installed \subseteq Manifest
  /\ request \in Requests
  /\ pc \in Stages /\ outcome \in Outcomes
  /\ (pc = "ended") = (outcome # "running")
  /\ captured \in [Manifest -> ManifestContents]
  /\ left \subseteq CASE pc \in {"files", "remove"} -> request.files
                      [] pc \in {"commands", "execute"} -> request.deps
                      [] OTHER -> request.files \cup request.deps
  /\ pc \in {"remove", "execute"} => \E x \in left : current = {x}
  /\ commandFailed \in BOOLEAN
  /\ removed \subseteq File \X FileContents
  /\ edits \in 0..MaxEdits
  /\ stale \subseteq File /\ disturbed \in BOOLEAN

Init ==
  /\ sources \in InitialFiles
  /\ manifests \in InitialManifests /\ installed \in SUBSET Manifest
  /\ request \in Requests
  /\ pc = "capture" /\ outcome = "running"
  /\ captured = manifests
  /\ report = NoScan /\ rescan = NoScan
  /\ left = {} /\ current = {}
  /\ commandFailed = FALSE
  /\ removed = {} /\ edits = 0 /\ stale = {} /\ disturbed = FALSE

End(how) == pc' = "ended" /\ outcome' = how

CaptureManifests ==
  /\ pc = "capture"
  /\ captured' = manifests
  /\ pc' = "scan"
  /\ UNCHANGED <<sources, manifests, installed, request, report, left, current, commandFailed,
                 rescan, outcome, historyVars>>

(* The first scan never asks for the findings in test files: run_scan      *)
(* leaves report_tests out of its request.                                 *)
Scan ==
  /\ pc = "scan"
  /\ report' = ScanOf(sources, manifests, installed, FALSE)
  /\ IF report'.failed THEN End("error") ELSE pc' = "plan" /\ UNCHANGED outcome
  /\ UNCHANGED <<sources, manifests, installed, request, captured, left, current,
                 commandFailed, rescan, historyVars>>

(* run_fix_workflow up to the preview.  A requested item without a finding *)
(* is an error; nothing is applied from an incomplete scan.                *)
Offered == UNION {f.item : f \in {f \in report.findings : f.kind = "unusedFiles"}}

OfferedDependencies ==
  UNION {f.item : f \in {f \in report.findings : f.kind = "unusedDependency"}}

Accepts ==
  /\ request.apply => report.complete
  /\ request.files \subseteq Offered
  /\ request.deps \subseteq OfferedDependencies

Plan ==
  /\ pc = "plan"
  /\ IF Accepts THEN /\ pc' = "preview"
                     /\ left' = request.files \cup request.deps
                     /\ UNCHANGED outcome
     ELSE End("refused") /\ UNCHANGED left
  /\ UNCHANGED <<sources, manifests, installed, request, captured, report, current,
                 commandFailed, rescan, historyVars>>

-----------------------------------------------------------------------------
(* FixEngine: preview and verify_preview_inputs hash every input of the    *)
(* plan; the order of the inputs is left open.                             *)

Matches(x) == IF x \in File THEN sources[x] = report.sources[x]
              ELSE manifests[x] = captured[x]

HashInput(x) ==
  /\ x \in left
  /\ IF Matches(x) THEN left' = left \ {x} /\ UNCHANGED <<pc, outcome>>
     ELSE End("error") /\ UNCHANGED left
  /\ UNCHANGED <<sources, manifests, installed, request, captured, report, current,
                 commandFailed, rescan, historyVars>>

PreviewInput == pc = "preview" /\ \E x \in left : HashInput(x)

FinishPreview ==
  /\ pc = "preview" /\ left = {}
  /\ IF request.apply THEN /\ pc' = "verify"
                           /\ left' = request.files \cup request.deps
                           /\ UNCHANGED outcome
     ELSE End("previewed") /\ UNCHANGED left
  /\ UNCHANGED <<sources, manifests, installed, request, captured, report, current,
                 commandFailed, rescan, historyVars>>

(* Variant: the preview's hashes are taken as good.                        *)
VerifyNothing ==
  /\ pc = "verify"
  /\ \E x \in left : left' = left \ {x}
  /\ UNCHANGED <<sources, manifests, installed, pc, outcome, request, captured, report,
                 current, commandFailed, rescan, historyVars>>

VerifyInput == pc = "verify" /\ \E x \in left : HashInput(x)

FinishVerify ==
  /\ pc = "verify" /\ left = {}
  /\ pc' = "files"
  /\ left' = request.files
  /\ UNCHANGED <<sources, manifests, installed, request, captured, report, current,
                 commandFailed, rescan, outcome, historyVars>>

(* apply_file_change: hash once more, then remove                          *)

(* Variant: without hashing.                                               *)
TakeFile ==
  /\ pc = "files"
  /\ \E f \in left : current' = {f}
  /\ pc' = "remove"
  /\ UNCHANGED <<sources, manifests, installed, request, captured, report, left,
                 commandFailed, rescan, outcome, historyVars>>

CheckFile ==
  /\ pc = "files"
  /\ \E f \in left :
        IF Matches(f) THEN current' = {f} /\ pc' = "remove" /\ UNCHANGED outcome
        ELSE End("error") /\ UNCHANGED current
  /\ UNCHANGED <<sources, manifests, installed, request, captured, report, left,
                 commandFailed, rescan, historyVars>>

RemoveFile ==
  /\ pc = "remove"
  /\ \E f \in current \cap Existing(sources) :
        /\ removed' = removed \cup {<<f, c>> : c \in sources[f]}
        /\ sources' = [sources EXCEPT ![f] = Absent]
  /\ left' = left \ current
  /\ pc' = "files"
  /\ UNCHANGED <<manifests, installed, request, captured, report, current, commandFailed,
                 rescan, outcome, edits, stale, disturbed>>

(* fs::remove_file fails: the file is gone, or the system says no.         *)
RemoveFails ==
  /\ pc = "remove"
  /\ disturbed' = TRUE
  /\ End("error")
  /\ UNCHANGED <<sources, manifests, installed, request, captured, report, left, current,
                 commandFailed, rescan, removed, edits, stale>>

FinishFiles ==
  /\ pc = "files" /\ left = {}
  /\ pc' = "commands"
  /\ left' = request.deps
  /\ UNCHANGED <<sources, manifests, installed, request, captured, report, current,
                 commandFailed, rescan, outcome, historyVars>>

(* The package manager, external, takes out of node_modules what nothing   *)
(* declares, or leaves it.  It runs right after its manifest is hashed; a  *)
(* failure ends the loop, whatever the command had done by then.           *)
CheckManifest ==
  /\ pc = "commands"
  /\ \E m \in left :
        IF Matches(m) THEN current' = {m} /\ pc' = "execute" /\ UNCHANGED outcome
        ELSE End("error") /\ UNCHANGED current
  /\ UNCHANGED <<sources, manifests, installed, request, captured, report, left,
                 commandFailed, rescan, historyVars>>

WithoutDependency ==
  [m \in Manifest |-> [manifests[m] EXCEPT !.declares = @ /\ m \notin current]]

ExecuteCommand ==
  /\ pc = "execute"
  /\ \/ /\ manifests' = WithoutDependency
        /\ left' = left \ current
        /\ pc' = "commands"
        /\ UNCHANGED commandFailed
     \/ /\ commandFailed' = TRUE
        /\ pc' = "revalidate"
        /\ manifests' \in {manifests, WithoutDependency}
        /\ UNCHANGED left
  /\ installed' \in SUBSET installed
  /\ UNCHANGED <<sources, request, captured, report, current, rescan, outcome, historyVars>>

FinishCommands ==
  /\ pc = "commands" /\ left = {}
  /\ pc' = "revalidate"
  /\ UNCHANGED <<sources, manifests, installed, runVars, historyVars>>

-----------------------------------------------------------------------------
(* ProjectRevalidator                                                      *)

Residual(scan) ==
  \/ request.files \cap Existing(scan.sources) # {}
  \/ \E f \in scan.findings : f.kind # "unusedFiles" /\ f.item \cap request.deps # {}

(* Variant: what was to be removed is not looked for.                      *)
NoNews(scan) ==
  /\ ~scan.failed /\ scan.complete
  /\ scan.findings \subseteq report.findings
  /\ scan.warnings \subseteq report.warnings
  /\ scan.gaps \subseteq report.gaps

Valid(scan) ==
  /\ ~scan.failed /\ scan.complete
  /\ ~Residual(scan)
  /\ scan.findings \subseteq report.findings
  /\ scan.warnings \subseteq report.warnings
  /\ scan.gaps \subseteq report.gaps

(* Variant: every finding counts as new.                                   *)
RevalidateStrictly ==
  /\ pc = "revalidate"
  /\ rescan' = ScanOf(sources, manifests, installed, request.tests)
  /\ End(IF ~commandFailed /\ Valid(rescan') /\ rescan'.findings = {}
         THEN "passed" ELSE "failed")
  /\ UNCHANGED <<sources, manifests, installed, request, captured, report, left, current,
                 commandFailed, historyVars>>

Revalidate ==
  /\ pc = "revalidate"
  /\ IF commandFailed THEN End("failed") /\ UNCHANGED rescan
     ELSE /\ rescan' = ScanOf(sources, manifests, installed, request.tests)
          /\ End(IF Valid(rescan') THEN "passed" ELSE "failed")
  /\ UNCHANGED <<sources, manifests, installed, request, captured, report, left, current,
                 commandFailed, historyVars>>

-----------------------------------------------------------------------------
(* Somebody else edits, creates or deletes a file, or edits a manifest and *)
(* perhaps installs or uninstalls its dependency, while the run goes on.   *)

Verified(x) ==
  pc \in {"files", "remove", "commands", "execute", "revalidate"}
    \/ (pc = "verify" /\ x \notin left)

EditFile ==
  /\ pc # "ended" /\ edits < MaxEdits
  /\ \E f \in File, now \in {Absent} \cup {{c} : c \in FileContents} :
        /\ now # sources[f]
        /\ sources' = [sources EXCEPT ![f] = now]
        /\ stale' = IF pc = "remove" /\ f \in current THEN stale \cup {f} ELSE stale
        /\ disturbed' = (disturbed \/ Verified(f))
  /\ edits' = edits + 1
  /\ UNCHANGED <<manifests, installed, pc, runVars, removed>>

EditManifest ==
  /\ pc # "ended" /\ edits < MaxEdits
  /\ \E m \in Manifest, c \in ManifestContents :
        /\ c # manifests[m]
        /\ manifests' = [manifests EXCEPT ![m] = c]
        /\ installed' \in {installed, installed \cup {m}, installed \ {m}}
        /\ disturbed' = (disturbed \/ Verified(m))
  /\ edits' = edits + 1
  /\ UNCHANGED <<sources, pc, runVars, removed, stale>>

Ended == pc = "ended" /\ UNCHANGED vars

Next ==
  \/ CaptureManifests \/ Scan \/ Plan
  \/ PreviewInput \/ FinishPreview
  \/ VerifyInput \/ FinishVerify
  \/ CheckFile \/ RemoveFile \/ RemoveFails \/ FinishFiles
  \/ CheckManifest \/ ExecuteCommand \/ FinishCommands
  \/ Revalidate
  \/ EditFile \/ EditManifest
  \/ Ended

Spec == Init /\ [][Next]_vars

-----------------------------------------------------------------------------

(* The run removes only files that were requested with --apply and that a  *)
(* complete scan found unreached, and what a removed file held is what     *)
(* that scan read, unless it was edited in the moment between the last     *)
(* hash and the removal.                                                   *)
RemovesOnlyWhatWasAnalyzed ==
  \A f \in File, c \in FileContents : <<f, c>> \in removed =>
     /\ request.apply /\ f \in request.files
     /\ report.complete /\ f \notin LiveFiles(report.sources)
     /\ c \in report.sources[f] \/ f \in stale

(* A run that passes leaves the project whole, whatever was edited         *)
(* meanwhile: in the tree of the last scan every import resolves, a        *)
(* requested dependency is declared just when live code uses it, and the   *)
(* run itself removed each requested file.                                 *)
PassedMeansWhole ==
  outcome = "passed" =>
     /\ Gaps(rescan.sources, rescan.manifests, rescan.installed) = {}
     /\ \A m \in request.deps :
           rescan.manifests[m].declares <=> m \in UsedManifests(rescan.sources)
     /\ request.files \cap Existing(rescan.sources) = {}
     /\ {f \in File : \E c \in FileContents : <<f, c>> \in removed} = request.files

(* The run stops with an error half-way through its changes only when      *)
(* something was edited after it was verified, or the system refused.      *)
PartialOnlyWhenDisturbed ==
  outcome = "error" /\ removed # {} => disturbed

(* No file that stays imports one that goes; where the package manager is  *)
(* to run, the packages that files use which stay, dead ones too, are      *)
(* declared and stay so; and no rule loses the last file it matches.       *)
SelfContained ==
  LET kept == Existing(report.sources) \ request.files
  IN  /\ \A f \in kept : Imports(report.sources, f) \cap request.files = {}
      /\ request.deps # {} =>
           \A f \in kept : \A m \in Uses(report.sources, f) :
             report.manifests[m].declares /\ m \notin request.deps
      /\ \A rule \in Rules :
           rule \cap request.files # {} => rule \cap kept # {}

(* Such a fix is accepted, if nobody edits the project and the commands    *)
(* succeed: what the first scan had already reported is not held against   *)
(* it.                                                                     *)
SoundFixPasses ==
  outcome = "failed" /\ edits = 0 /\ ~commandFailed /\ ~request.tests => ~SelfContained

(* README: with --report-tests "Also report findings in test files".  The  *)
(* same of every run.                                                      *)
SoundFixPassesWithTests ==
  outcome = "failed" /\ edits = 0 /\ ~commandFailed => ~SelfContained

(* README: fixes "verify file and manifest hashes right before writing,    *)
(* then re-scan the whole project".  A run that changed the project ends   *)
(* with a verdict on the changed project.                                  *)
ChangesAreRescanned ==
  pc = "ended" /\ removed # {} => outcome \in {"passed", "failed"}

=============================================================================
