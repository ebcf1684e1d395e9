------------------------ MODULE ProjectPolicyProofs -------------------------
(***************************************************************************)
(* The report of a project is no more than its profiles found, loses no    *)
(* verdict without a note, and withholds what a gap could invalidate: for  *)
(* any workspaces, files, profiles and configuration, and any limit.       *)
(***************************************************************************)
EXTENDS ProjectPolicy, SequenceTheorems, WellFoundedInduction, TLAPS

Merging == {"scan", "merge", "diagnostics"}

Settled == {"retain", "finish", "done"}

Merged == {ProfileList[i] : i \in 1..merged}

ReportsAreInOrder ==
  /\ Len(reports) \in 0..Len(ProfileList)
  /\ reports = [i \in 1..Len(reports) |-> ProfileReport(ProfileList[i])]
  /\ pc = "scan" => merged = 0
  /\ pc # "scan" => Len(reports) = Len(ProfileList)
  /\ pc \notin {"scan", "merge"} => merged = Len(ProfileList)

(* Until verdicts are withheld, a file is reached if a merged profile      *)
(* reaches it.                                                             *)
FilesAreMerged ==
  pc \notin Settled =>
    \A f \in File : \A p \in Merged :
      /\ ScannedStatus(p, f) = "Reachable" => files[f].status = "Reachable"
      /\ files[f].status = "Unreachable" => ScannedStatus(p, f) = "Unreachable"

IsWitnessed(f) == (\A p \in f.profiles : IsVerdict(p, f.paths)) \/ IsOnlyOfDefault(f.paths)

(* While profiles are merged, there is one finding for a group of files,   *)
(* which names the profiles with that verdict.                             *)
IsMergedOnce(f) ==
  /\ f.workspace = Root /\ \A g \in findings : g.paths = f.paths => g = f
  /\ \A p \in f.profiles : IsVerdict(p, f.paths)

FindingsAreVerdicts ==
  /\ pc \in Merging => retentions = {} /\ \A f \in findings : IsMergedOnce(f)
  /\ \A f \in findings :
       /\ pc \in Merging \cup {"workspaces"} => f.type = "unusedFiles"
       /\ pc = "workspaces" /\ f.profiles = {DefaultProfile} => f.profiles = Profile
       /\ f.type = "unusedFiles" => f.profiles # {} /\ IsWitnessed(f)

IsPlaced(p, g, path) ==
  \/ \E f \in findings : f.type = "unusedFiles" /\ p \in f.profiles /\ f.paths = g
  \/ \E r \in retentions : r.item = path /\ p \in r.profiles

(* A verdict of a merged profile is a finding of its own, or noted.        *)
VerdictsAreKept ==
  pc \in Merging \/ "files" \in setting.issues =>
    \A p \in Merged : \A g \in analysis[p].groups : IsVerdict(p, g) =>
      \A path \in g :
        IsPlaced(p, g, path) \/ (pc = "done" /\ ~setting.tests /\ g \cap TestFiles # {})

IsDeadIn(p, paths) == ~LiveGap(p) /\ paths \subseteq UNION analysis[p].groups

EligibleIsJustified ==
  \A f \in findings :
    f.fix = "Eligible" =>
      /\ pc \notin Merging \cup {"workspaces", "eligibility"}
      /\ setting.world[f.workspace] = "closed"
      /\ \A p \in Profile : IsDeadIn(p, f.paths)

Blockers(ps) == {[path |-> f, blocks |-> TRUE] : f \in UNION {analysis[p].blocked : p \in ps}}

DiagnosticsAreLimited ==
  /\ pc \in Merging => diagnostics = Blockers(Merged)
  /\ pc \notin Merging => diagnostics = EnforceLimit(AllDiagnostics)
  /\ pc = "done" => status = StatusOf(diagnostics)

(* A reached file of a workspace reported unused is broken, and its        *)
(* diagnostic fell to the limit: the finding will be withheld.             *)
UnusedIsUnreached ==
  \A f \in findings :
    f.type = "unusedWorkspace" =>
      /\ f.workspace \in setting.private \ setting.scripts
      /\ ~ImportedByWorkspace(f.workspace)
      /\ Withheld(f.workspace) \/ \A file \in LiveAnywhere : WorkspaceOf[file] # f.workspace

NothingIsWithheldLater == pc \in Settled => \A f \in findings : ~Withheld(f.workspace)

FindingsInv ==
  /\ FindingsAreVerdicts /\ VerdictsAreKept /\ EligibleIsJustified /\ UnusedIsUnreached
  /\ NothingIsWithheldLater

IInv == TypeOK /\ ReportsAreInOrder /\ FilesAreMerged /\ DiagnosticsAreLimited /\ FindingsInv
-----------------------------------------------------------------------------
(* The constants.                                                          *)

LEMMA ProfilesInOrder ==
  /\ Len(ProfileList) \in Nat /\ Len(ProfileList) >= 1
  /\ \A i \in 1..Len(ProfileList) : ProfileList[i] \in Profile
  /\ \A p \in Profile : \E i \in 1..Len(ProfileList) : p = ProfileList[i]
BY ProfileAssumption DEF Profile

LEMMA PathsAreNumbers == Path \subseteq Nat /\ File \subseteq Path
<1>1. \A w \in Workspace : Manifest[w] \in Nat
  BY PathAssumption
<1>2. File \subseteq Nat
  BY PathAssumption
<1>3. QED
  BY <1>1, <1>2 DEF Path

(* A finding has a first path, and it lies in a workspace.                 *)
LEMMA FirstPath ==
  ASSUME NEW paths \in (SUBSET Path) \ {{}}
  PROVE  First(paths) \in paths /\ WorkspaceOf[First(paths)] \in Workspace
<1>1. paths \subseteq Nat /\ paths # {}
  BY PathsAreNumbers
<1>2. PICK least \in paths : \A q \in paths : <<q, least>> \notin OpToRel(<, Nat)
  BY <1>1, NatLessThanWellFounded, WFMin
<1>3. \A q \in paths : least <= q
  <2>1. \A q \in paths : ~(q < least)
    BY <1>1, <1>2 DEF OpToRel
  <2>2. QED
    BY <1>1, <2>1
<1>4. First(paths) \in paths
  BY <1>2, <1>3 DEF First
<1>5. QED
  BY <1>4, PathAssumption

LEMMA AnalysisOf ==
  ASSUME TypeOK, NEW p \in Profile
  PROVE  /\ analysis[p].live \subseteq File /\ analysis[p].blocked \subseteq File
         /\ analysis[p].broken \subseteq analysis[p].blocked
         /\ \A g \in analysis[p].groups :
              g \subseteq File /\ g \in (SUBSET Path) \ {{}}
              /\ g \cap analysis[p].live = {}
<1>1. analysis[p] \in Analyses
  BY DEF TypeOK
<1> DEFINE a == analysis[p]
<1>2. /\ a.live \subseteq File /\ a.blocked \subseteq File /\ a.broken \subseteq a.blocked
      /\ a.groups \subseteq SUBSET File
      /\ UNION a.groups = File \ (a.live \cup a.broken)
      /\ \A g \in a.groups : g # {}
  BY <1>1, AnalysisAssumption
<1>3. QED
  BY <1>2, PathsAreNumbers

LEMMA SettingOf ==
  ASSUME TypeOK
  PROVE  /\ setting.pending \subseteq Diagnostic
         /\ setting.generated \in [Profile -> SUBSET File]
<1>1. setting \in Settings
  BY DEF TypeOK
<1>2. /\ setting.pending \subseteq [path : {Manifest[w] : w \in Workspace}, blocks : BOOLEAN]
      /\ setting.generated \in [Profile -> SUBSET File]
  BY <1>1, SettingAssumption
<1>3. QED
  BY <1>2 DEF Diagnostic, Path

-----------------------------------------------------------------------------
(* The profiles merged so far.                                             *)

LEMMA ReportOf ==
  ASSUME ReportsAreInOrder, NEW i \in 1..Len(reports)
  PROVE  reports[i] = ProfileReport(ProfileList[i]) /\ ProfileList[i] \in Profile
<1>1. reports = [j \in 1..Len(reports) |-> ProfileReport(ProfileList[j])]
  BY DEF ReportsAreInOrder
<1>2. i \in 1..Len(ProfileList)
  BY ProfilesInOrder DEF ReportsAreInOrder
<1>3. QED
  BY <1>1, <1>2, ProfilesInOrder

LEMMA MergedProfiles ==
  ASSUME TypeOK
  PROVE  /\ Merged \subseteq Profile
         /\ merged = Len(ProfileList) => Merged = Profile
         /\ merged = 0 => Merged = {}
         /\ merged' = merged + 1 => Merged' = Merged \cup {ProfileList[merged + 1]}
<1>1. merged \in 0..Len(ProfileList)
  BY DEF TypeOK
<1>2. Merged \subseteq Profile /\ (merged = 0 => Merged = {})
  BY <1>1, ProfilesInOrder DEF Merged
<1>3. merged = Len(ProfileList) => Merged = Profile
  BY <1>2, ProfilesInOrder DEF Merged
<1>4. merged' = merged + 1 => Merged' = Merged \cup {ProfileList[merged + 1]}
  BY <1>1, ProfilesInOrder DEF Merged
<1>5. QED
  BY <1>2, <1>3, <1>4

LEMMA ScannedStatuses ==
  ASSUME NEW p, NEW f
  PROVE  ScannedStatus(p, f) \in FileStatus
BY DEF ScannedStatus, FileStatus

(* What the scan of one profile reports are its verdicts.                  *)
LEMMA ReportedFindings ==
  ASSUME TypeOK, NEW p \in Profile, NEW f \in ProfileReport(p).findings
  PROVE  /\ f \in Finding /\ f.type = "unusedFiles" /\ f.fix = "PreviewOnly"
         /\ f.profiles = {p} /\ IsVerdict(p, f.paths) /\ f = UnusedFiles(p, f.paths)
<1>1. ~LiveGap(p) /\ f \in {UnusedFiles(p, g) : g \in analysis[p].groups}
  BY DEF ProfileReport
<1>2. PICK g \in analysis[p].groups : f = UnusedFiles(p, g)
  BY <1>1
<1>3. g \in (SUBSET Path) \ {{}}
  BY AnalysisOf
<1>4. QED
  BY <1>1, <1>2, <1>3, PathAssumption DEF UnusedFiles, Finding, IsVerdict

LEMMA ReportedVerdicts ==
  ASSUME NEW p, NEW g, IsVerdict(p, g)
  PROVE  \E f \in ProfileReport(p).findings :
           f.type = "unusedFiles" /\ p \in f.profiles /\ f.paths = g
<1>1. UnusedFiles(p, g) \in ProfileReport(p).findings
  BY DEF IsVerdict, ProfileReport
<1>2. QED
  BY <1>1 DEF UnusedFiles

LEMMA ReportedDiagnostics ==
  ASSUME TypeOK, NEW p \in Profile
  PROVE  /\ ProfileReport(p).diagnostics = Blockers({p})
         /\ Blockers({p}) \subseteq Diagnostic
<1>1. UNION {analysis[q].blocked : q \in {p}} = analysis[p].blocked
  OBVIOUS
<1>2. analysis[p].blocked \subseteq Path
  BY AnalysisOf, PathsAreNumbers
<1>3. Blockers({p}) = {[path |-> f, blocks |-> TRUE] : f \in analysis[p].blocked}
  BY <1>1 DEF Blockers
<1>4. ProfileReport(p).diagnostics = {[path |-> f, blocks |-> TRUE] : f \in analysis[p].blocked}
  BY DEF ProfileReport
<1>5. \A f \in analysis[p].blocked : [path |-> f, blocks |-> TRUE] \in Diagnostic
  BY <1>2 DEF Diagnostic
<1>6. QED
  BY <1>3, <1>4, <1>5

-----------------------------------------------------------------------------
(* What stays when the inputs and the diagnostics do.                      *)

LEMMA InputsStay ==
  ASSUME UNCHANGED inputVars
  PROVE  /\ analysis' = analysis /\ setting' = setting
         /\ \A p, g : IsVerdict(p, g)' <=> IsVerdict(p, g)
         /\ \A p, g : IsDeadIn(p, g)' <=> IsDeadIn(p, g)
         /\ \A g : IsOnlyOfDefault(g)' <=> IsOnlyOfDefault(g)
         /\ \A p, f : ScannedStatus(p, f)' = ScannedStatus(p, f)
         /\ \A p : ProfileReport(p)' = ProfileReport(p)
         /\ \A ps : Blockers(ps)' = Blockers(ps)
         /\ \A w : ImportedByWorkspace(w)' <=> ImportedByWorkspace(w)
         /\ AllDiagnostics' = AllDiagnostics /\ LiveAnywhere' = LiveAnywhere
<1>1. analysis' = analysis /\ setting' = setting
  BY DEF inputVars
<1>2. \A p : LiveGap(p)' <=> LiveGap(p)
  BY <1>1 DEF LiveGap
<1>3. \A p, g : IsVerdict(p, g)' <=> IsVerdict(p, g)
  BY <1>1, <1>2 DEF IsVerdict
<1>4. \A p, f : ScannedStatus(p, f)' = ScannedStatus(p, f)
  BY <1>1, <1>2 DEF ScannedStatus
<1>5. \A p : ProfileReport(p)' = ProfileReport(p)
  BY <1>1, <1>2, <1>4 DEF ProfileReport
<1>6. \A ps : Blockers(ps)' = Blockers(ps)
  BY <1>1 DEF Blockers
<1>7. \A w : ImportedByWorkspace(w)' <=> ImportedByWorkspace(w)
  BY <1>1 DEF ImportedByWorkspace
<1>8. AllDiagnostics' = AllDiagnostics /\ LiveAnywhere' = LiveAnywhere
  BY <1>1 DEF AllDiagnostics, LiveAnywhere
<1>9. \A p, g : IsDeadIn(p, g)' <=> IsDeadIn(p, g)
  BY <1>1, <1>2 DEF IsDeadIn
<1>10. \A g : IsOnlyOfDefault(g)' <=> IsOnlyOfDefault(g)
  BY <1>3 DEF IsOnlyOfDefault
<1>11. QED
  BY <1>1, <1>3, <1>4, <1>5, <1>6, <1>7, <1>8, <1>9, <1>10

LEMMA DiagnosticsStay ==
  ASSUME UNCHANGED diagnostics
  PROVE  \A w : Withheld(w)' <=> Withheld(w)
BY DEF Withheld, BlockingWorkspaces

(* The limit never hides a gap: what it drops is made up for by a marker   *)
(* that withholds everything.                                              *)
LEMMA LimitHidesNoGap ==
  ASSUME diagnostics = EnforceLimit(AllDiagnostics),
         NEW d \in Blocking(AllDiagnostics)
  PROVE  d \in Blocking(diagnostics) \/ Root \in BlockingWorkspaces
<1>1. CASE Cardinality(AllDiagnostics) <= Limit
  BY <1>1 DEF EnforceLimit, Blocking
<1>2. CASE ~(Cardinality(AllDiagnostics) <= Limit)
  <2> DEFINE marker == [path |-> ProjectPath, blocks |-> TRUE]
  <2>1. marker \in Blocking(diagnostics)
    BY <1>2 DEF EnforceLimit, Blocking
  <2>2. PackageOf(marker.path) = Root
    BY DEF PackageOf
  <2>3. QED
    BY <2>1, <2>2 DEF BlockingWorkspaces
<1>3. QED
  BY <1>1, <1>2

LEMMA GapsWithhold ==
  ASSUME diagnostics = EnforceLimit(AllDiagnostics), NEW w, GapIn(w)
  PROVE  Withheld(w)
<1>1. PICK d \in Blocking(AllDiagnostics) : PackageOf(d.path) \in {Root, w}
  BY DEF GapIn
<1>2. CASE d \in Blocking(diagnostics)
  BY <1>1, <1>2 DEF Withheld, BlockingWorkspaces
<1>3. QED
  BY <1>2, LimitHidesNoGap DEF Withheld

-----------------------------------------------------------------------------
(* Initially, and when nothing is done to the findings.                    *)

FindingsTyped == findings \subseteq Finding /\ retentions \subseteq Retention

LEMMA FindingsStay ==
  ASSUME IInv, UNCHANGED inputVars, UNCHANGED <<findings, retentions, diagnostics, merged>>,
         \/ pc' = pc
         \/ pc \in Merging /\ pc' \in Merging
  PROVE  FindingsInv' /\ FindingsTyped'
<1>1. FindingsInv /\ TypeOK
  BY DEF IInv
<1>2. /\ setting' = setting /\ analysis' = analysis
      /\ \A p, g : IsVerdict(p, g)' <=> IsVerdict(p, g)
      /\ \A p, g : IsDeadIn(p, g)' <=> IsDeadIn(p, g)
      /\ \A g : IsOnlyOfDefault(g)' <=> IsOnlyOfDefault(g)
      /\ \A w : Withheld(w)' <=> Withheld(w)
      /\ \A w : ImportedByWorkspace(w)' <=> ImportedByWorkspace(w)
      /\ LiveAnywhere' = LiveAnywhere
  BY InputsStay, DiagnosticsStay
<1>3. \A p, g, path : IsPlaced(p, g, path)' <=> IsPlaced(p, g, path)
  BY DEF IsPlaced
<1>4. Merged' = Merged
  BY DEF Merged
<1>5. FindingsAreVerdicts'
  <2>1. \A f : (IsWitnessed(f)' <=> IsWitnessed(f)) /\ (IsMergedOnce(f)' <=> IsMergedOnce(f))
    BY <1>2 DEF IsWitnessed, IsMergedOnce
  <2>2. QED
    BY <1>1, <2>1 DEF FindingsInv, FindingsAreVerdicts, Merging
<1>6. VerdictsAreKept'
  BY <1>1, <1>2, <1>3, <1>4 DEF FindingsInv, VerdictsAreKept, Merging
<1>7. EligibleIsJustified'
  BY <1>1, <1>2 DEF FindingsInv, EligibleIsJustified, Merging
<1>8. UnusedIsUnreached'
  BY <1>1, <1>2 DEF FindingsInv, UnusedIsUnreached
<1>9. NothingIsWithheldLater'
  BY <1>1, <1>2 DEF FindingsInv, NothingIsWithheldLater, Merging, Settled
<1>10. QED
  BY <1>1, <1>5, <1>6, <1>7, <1>8, <1>9 DEF FindingsInv, FindingsTyped, TypeOK

(* During the merge all findings are verdicts about files, and none is     *)
(* eligible or withheld yet.                                               *)
MergeVerdict(f) ==
  /\ f \in Finding /\ f.type = "unusedFiles" /\ f.fix # "Eligible"
  /\ f.profiles # {} /\ IsWitnessed(f)

LEMMA MergeFindingsInvariant ==
  ASSUME IInv, UNCHANGED inputVars, pc \in Merging, pc' \in Merging \cup {"workspaces"},
         retentions' = retentions,
         \A f \in findings' : MergeVerdict(f),
         pc' \in Merging => \A f \in findings' :
           /\ f.workspace = Root /\ \A g \in findings' : g.paths = f.paths => g = f
           /\ \A p \in f.profiles : IsVerdict(p, f.paths),
         pc' = "workspaces" =>
           \A f \in findings' : f.profiles = {DefaultProfile} => f.profiles = Profile,
         pc' \in Merging \/ "files" \in setting.issues =>
           \A p \in Merged' : \A g : IsVerdict(p, g) =>
             \E f \in findings' : f.type = "unusedFiles" /\ p \in f.profiles /\ f.paths = g
  PROVE  FindingsInv' /\ FindingsTyped'
<1>1. /\ setting' = setting /\ analysis' = analysis
      /\ \A p, g : IsVerdict(p, g)' <=> IsVerdict(p, g)
      /\ \A g : IsOnlyOfDefault(g)' <=> IsOnlyOfDefault(g)
  BY InputsStay
<1>2. FindingsAreVerdicts'
  <2>1. pc' \in Merging => retentions' = {} /\ \A f \in findings' : IsMergedOnce(f)'
    BY <1>1 DEF IInv, FindingsInv, FindingsAreVerdicts, IsMergedOnce
  <2>2. \A f \in findings' : /\ f.type = "unusedFiles" /\ f.profiles # {}
                             /\ IsWitnessed(f)'
    BY <1>1 DEF MergeVerdict, IsWitnessed
  <2>3. QED
    BY <2>1, <2>2 DEF FindingsAreVerdicts
<1>3. VerdictsAreKept'
  BY <1>1 DEF VerdictsAreKept, IsPlaced
<1>4. EligibleIsJustified' /\ UnusedIsUnreached'
  BY DEF EligibleIsJustified, UnusedIsUnreached, MergeVerdict
<1>5. NothingIsWithheldLater'
  BY DEF NothingIsWithheldLater, Merging, Settled
<1>6. FindingsTyped'
  BY DEF FindingsTyped, IInv, TypeOK, MergeVerdict
<1>7. QED
  BY <1>2, <1>3, <1>4, <1>5, <1>6 DEF FindingsInv

LEMMA MergeFindingsHold ==
  ASSUME IInv, pc \in Merging, NEW f \in findings
  PROVE  f.fix # "Eligible" /\ f.type = "unusedFiles" /\ f.profiles # {}
         /\ f.workspace = Root /\ (\A g \in findings : g.paths = f.paths => g = f)
         /\ \A p \in f.profiles : IsVerdict(p, f.paths)
BY DEF IInv, FindingsInv, FindingsAreVerdicts, EligibleIsJustified, Merging, IsMergedOnce

LEMMA StartMergeFindings ==
  ASSUME IInv, StartMerge
  PROVE  FindingsInv' /\ FindingsTyped'
<1> DEFINE p1 == ProfileList[1]
<1>1. /\ UNCHANGED inputVars /\ pc' = pc /\ pc \in Merging /\ retentions' = retentions
      /\ findings' = reports[1].findings /\ merged' = 1
  BY DEF StartMerge, Merging
<1>2. TypeOK /\ 1 \in 1..Len(reports) /\ ReportsAreInOrder
  BY ProfilesInOrder DEF IInv, ReportsAreInOrder, StartMerge
<1>3. reports[1] = ProfileReport(p1) /\ p1 \in Profile
  BY <1>2, ReportOf
<1>4. Merged' = {p1}
  BY <1>1 DEF Merged
<1>5. \A f \in findings' : MergeVerdict(f)
  <2>1. SUFFICES ASSUME NEW f \in ProfileReport(p1).findings PROVE MergeVerdict(f)
    BY <1>1, <1>3
  <2>2. /\ f \in Finding /\ f.type = "unusedFiles" /\ f.fix = "PreviewOnly"
        /\ f.profiles = {p1} /\ IsVerdict(p1, f.paths)
    BY <1>2, <1>3, ReportedFindings
  <2>3. QED
    BY <2>2 DEF MergeVerdict, IsWitnessed
<1>6. \A p \in Merged' : \A g : IsVerdict(p, g) =>
        \E f \in findings' : f.type = "unusedFiles" /\ p \in f.profiles /\ f.paths = g
  BY <1>1, <1>3, <1>4, ReportedVerdicts
<1>7. \A f \in findings' :
        /\ f.workspace = Root /\ \A g \in findings' : g.paths = f.paths => g = f
        /\ \A p \in f.profiles : IsVerdict(p, f.paths)
  <2>1. SUFFICES ASSUME NEW f \in ProfileReport(p1).findings, NEW g \in ProfileReport(p1).findings
                 PROVE  /\ f.workspace = Root /\ (g.paths = f.paths => g = f)
                        /\ \A p \in f.profiles : IsVerdict(p, f.paths)
    BY <1>1, <1>3
  <2>2. /\ f.profiles = {p1} /\ IsVerdict(p1, f.paths)
        /\ f = UnusedFiles(p1, f.paths) /\ g = UnusedFiles(p1, g.paths)
    BY <1>2, <1>3, ReportedFindings
  <2>3. UnusedFiles(p1, f.paths).workspace = Root
    BY DEF UnusedFiles
  <2>4. QED
    BY <2>2, <2>3
<1>8. QED
  BY <1>1, <1>2, <1>5, <1>6, <1>7, MergeFindingsInvariant DEF Merging

(* merge_profile_reports                                                   *)
Joined(f, more) ==
  [f EXCEPT !.profiles = @ \cup UNION {g.profiles : g \in {g \in more : SameFinding(f, g)}}]

LEMMA MergeNextFindings ==
  ASSUME IInv, MergeNext
  PROVE  FindingsInv' /\ FindingsTyped'
<1> DEFINE new == ProfileList[merged + 1]
           more == ProfileReport(new).findings
<1>1. /\ UNCHANGED inputVars /\ pc' = pc /\ pc = "merge" /\ retentions' = retentions
      /\ findings' = MergeFindings(findings, reports[merged + 1].findings)
      /\ merged' = merged + 1 /\ merged \in 1..(Len(reports) - 1)
  BY DEF MergeNext
<1>2. TypeOK /\ merged + 1 \in 1..Len(reports) /\ ReportsAreInOrder
  BY <1>1 DEF IInv, ReportsAreInOrder
<1>3. reports[merged + 1] = ProfileReport(new) /\ new \in Profile
  BY <1>2, ReportOf
<1>4. Merged' = Merged \cup {new} /\ Merged \subseteq Profile
  BY <1>1, <1>2, MergedProfiles
<1>5. /\ findings' = {Joined(f, more) : f \in findings}
                     \cup {g \in more : \A f \in findings : ~SameFinding(f, g)}
  BY <1>1, <1>3 DEF MergeFindings, Joined
<1>6. \A g \in more : /\ g \in Finding /\ g.type = "unusedFiles" /\ g.fix = "PreviewOnly"
                      /\ g.profiles = {new} /\ IsVerdict(new, g.paths)
                      /\ g = UnusedFiles(new, g.paths) /\ g.workspace = Root
  BY <1>2, <1>3, ReportedFindings DEF UnusedFiles
<1> HIDE DEF more, new
<1>7. ASSUME NEW f \in findings
      PROVE  /\ MergeVerdict(Joined(f, more))
             /\ f.profiles \subseteq Joined(f, more).profiles
             /\ Joined(f, more).paths = f.paths
             /\ Joined(f, more).workspace = Root
             /\ \A p \in Joined(f, more).profiles : IsVerdict(p, f.paths)
             /\ \A g \in more : SameFinding(f, g) => g.profiles \subseteq Joined(f, more).profiles
  <2>1. /\ f \in Finding /\ f.type = "unusedFiles" /\ f.profiles # {} /\ f.fix # "Eligible"
        /\ f.workspace = Root
        /\ \A p \in f.profiles : IsVerdict(p, f.paths)
    BY <1>1, <1>2, MergeFindingsHold DEF TypeOK, Merging
  <2> DEFINE extra == UNION {g.profiles : g \in {g \in more : SameFinding(f, g)}}
  <2>2. extra \subseteq {new} /\ (extra # {} => IsVerdict(new, f.paths))
    BY <1>6 DEF SameFinding
  <2>3. \A g \in more : SameFinding(f, g) => g.profiles \subseteq extra
    OBVIOUS
  <2>4. Joined(f, more) = [f EXCEPT !.profiles = f.profiles \cup extra]
    BY DEF Joined
  <2> HIDE DEF extra
  <2>5. /\ Joined(f, more) \in [type : {"unusedFiles", "unusedWorkspace"}, workspace : Workspace,
                                paths : (SUBSET Path) \ {{}}, profiles : SUBSET Profile,
                                fix : {"PreviewOnly", "Eligible", "NotAvailable"}]
        /\ Joined(f, more).type = f.type /\ Joined(f, more).fix = f.fix
        /\ Joined(f, more).paths = f.paths /\ Joined(f, more).profiles = f.profiles \cup extra
        /\ Joined(f, more).workspace = f.workspace
    BY <1>3, <2>1, <2>2, <2>4 DEF Finding
  <2>6. \A p \in Joined(f, more).profiles : IsVerdict(p, f.paths)
    BY <2>1, <2>2, <2>5
  <2>7. MergeVerdict(Joined(f, more))
    BY <2>1, <2>5, <2>6 DEF MergeVerdict, Finding, IsWitnessed
  <2>8. QED
    BY <2>1, <2>3, <2>5, <2>6, <2>7
<1>8. \A f \in findings' : MergeVerdict(f)
  <2>1. \A g \in more : MergeVerdict(g)
    BY <1>6 DEF MergeVerdict, IsWitnessed
  <2>2. QED
    BY <1>5, <1>7, <2>1
<1>9. ASSUME NEW p \in Merged', NEW g, IsVerdict(p, g)
      PROVE  \E f \in findings' : f.type = "unusedFiles" /\ p \in f.profiles /\ f.paths = g
  <2>1. CASE p \in Merged
    <3>1. g \in analysis[p].groups /\ \E path : path \in g
      BY <1>2, <1>4, <1>9, <2>1, AnalysisOf DEF IsVerdict
    <3>2. \A path \in g : IsPlaced(p, g, path)
      BY <1>1, <1>9, <2>1, <3>1 DEF IInv, FindingsInv, VerdictsAreKept, Merging
    <3>3. retentions = {}
      BY <1>1 DEF IInv, FindingsInv, FindingsAreVerdicts, Merging
    <3>4. PICK f \in findings : f.type = "unusedFiles" /\ p \in f.profiles /\ f.paths = g
      BY <3>1, <3>2, <3>3 DEF IsPlaced
    <3>5. Joined(f, more) \in findings' /\ p \in Joined(f, more).profiles
          /\ Joined(f, more).paths = g /\ Joined(f, more).type = "unusedFiles"
      BY <1>5, <1>7, <3>4 DEF MergeVerdict
    <3>6. QED
      BY <3>5
  <2>2. CASE p = new
    <3>1. PICK found \in more : found.type = "unusedFiles" /\ p \in found.profiles /\ found.paths = g
      BY <1>9, <2>2, ReportedVerdicts DEF more
    <3>2. CASE \A f \in findings : ~SameFinding(f, found)
      BY <1>5, <3>1, <3>2
    <3>3. CASE \E f \in findings : SameFinding(f, found)
      <4>1. PICK f \in findings : SameFinding(f, found)
        BY <3>3
      <4>2. Joined(f, more) \in findings' /\ p \in Joined(f, more).profiles
            /\ Joined(f, more).paths = g /\ Joined(f, more).type = "unusedFiles"
        BY <1>5, <1>7, <3>1, <4>1 DEF SameFinding, MergeVerdict
      <4>3. QED
        BY <4>2
    <3>4. QED
      BY <3>2, <3>3
  <2>3. QED
    BY <1>4, <1>9, <2>1, <2>2
<1>10. \A f \in findings' :
         /\ f.workspace = Root /\ \A g \in findings' : g.paths = f.paths => g = f
         /\ \A p \in f.profiles : IsVerdict(p, f.paths)
  <2>1. \A f \in findings : f.type = "unusedFiles" /\ f.workspace = Root
                            /\ \A g \in findings : g.paths = f.paths => g = f
    BY <1>1, MergeFindingsHold DEF Merging
  <2>2. \A f \in findings : \A g \in more : g.paths = f.paths => SameFinding(f, g)
    BY <1>6, <2>1 DEF SameFinding
  <2>3. \A f, g \in more : g.paths = f.paths => g = f
    BY <1>6
  <2>4. ASSUME NEW f \in findings', NEW g \in findings', g.paths = f.paths
        PROVE  g = f
    <3>1. \A h \in findings' : \/ h \in more /\ \A e \in findings : ~SameFinding(e, h)
                               \/ \E e \in findings : h = Joined(e, more) /\ h.paths = e.paths
      BY <1>5, <1>7
    <3>2. CASE f \in more /\ g \in more
      BY <2>3, <2>4, <3>2
    <3>3. CASE (\E e \in findings : f = Joined(e, more) /\ f.paths = e.paths)
               /\ (\E e \in findings : g = Joined(e, more) /\ g.paths = e.paths)
      BY <2>1, <2>4, <3>3
    <3>4. QED
      BY <2>2, <2>4, <3>1, <3>2, <3>3
  <2>5. QED
    BY <1>5, <1>6, <1>7, <2>4
<1>11. QED
  BY <1>1, <1>2, <1>8, <1>9, <1>10, MergeFindingsInvariant DEF Merging

(* assign_project_context                                                  *)
Located(f) == [f EXCEPT !.workspace = WorkspaceOf[First(f.paths)]]

Placed(f) == Widened(Located(f))

LEMMA PlacedFinding ==
  ASSUME NEW f \in Finding
  PROVE  /\ Placed(f) \in Finding /\ Placed(f).type = f.type /\ Placed(f).paths = f.paths
         /\ Placed(f).profiles = (IF f.profiles = {DefaultProfile} THEN Profile ELSE f.profiles)
         /\ f.profiles \subseteq Placed(f).profiles /\ Placed(f).fix = f.fix
<1>1. WorkspaceOf[First(f.paths)] \in Workspace
  BY FirstPath DEF Finding
<1>2. /\ Located(f) \in Finding /\ Located(f).type = f.type /\ Located(f).paths = f.paths
      /\ Located(f).profiles = f.profiles /\ Located(f).fix = f.fix
  BY <1>1 DEF Located, Finding
<1>3. f.profiles \subseteq Profile
  BY DEF Finding
<1>4. CASE f.profiles = {DefaultProfile}
  <2>1. Placed(f) = [Located(f) EXCEPT !.profiles = Profile]
    BY <1>2, <1>4 DEF Placed, Widened
  <2>2. QED
    BY <1>2, <1>3, <1>4, <2>1 DEF Finding
<1>5. CASE f.profiles # {DefaultProfile}
  BY <1>2, <1>5 DEF Placed, Widened
<1>6. QED
  BY <1>4, <1>5

LEMMA PlacedIsWitnessed ==
  ASSUME NEW f \in Finding, IsWitnessed(f),
         f.profiles = {DefaultProfile} => f.profiles = Profile \/ IsOnlyOfDefault(f.paths)
  PROVE  IsWitnessed(Placed(f))
BY PlacedFinding DEF IsWitnessed

LEMMA AddDiagnosticsFindings ==
  ASSUME IInv, AddDiagnostics
  PROVE  FindingsInv' /\ FindingsTyped'
<1>1. /\ UNCHANGED inputVars /\ pc = "diagnostics" /\ pc' = "workspaces" /\ retentions' = retentions
      /\ findings' = IF "files" \in setting.issues THEN {Placed(f) : f \in findings} ELSE {}
      /\ merged' = merged
  BY DEF AddDiagnostics, AssignContext, Placed, Located
<1>2. TypeOK /\ Merged' = Merged /\ Merged = Profile
  BY <1>1, MergedProfiles DEF IInv, Merged, ReportsAreInOrder
<1>3. pc \in Merging /\ pc' \notin Merging
  BY <1>1 DEF Merging
<1>4. ASSUME NEW p \in Merged, NEW g, IsVerdict(p, g)
      PROVE  \E f \in findings : f.type = "unusedFiles" /\ p \in f.profiles /\ f.paths = g
  <2>1. g \in analysis[p].groups /\ \E path : path \in g
    BY <1>2, <1>4, AnalysisOf DEF IsVerdict
  <2>2. \A path \in g : IsPlaced(p, g, path)
    BY <1>1, <1>3, <1>4, <2>1 DEF IInv, FindingsInv, VerdictsAreKept
  <2>3. retentions = {}
    BY <1>3 DEF IInv, FindingsInv, FindingsAreVerdicts
  <2>4. QED
    BY <2>1, <2>2, <2>3 DEF IsPlaced
<1>5. ASSUME NEW f \in findings
      PROVE  /\ MergeVerdict(Placed(f))
             /\ Placed(f).profiles = {DefaultProfile} => Placed(f).profiles = Profile
  <2>1. f \in Finding /\ f.fix # "Eligible" /\ f.type = "unusedFiles" /\ f.profiles # {}
        /\ \A p \in f.profiles : IsVerdict(p, f.paths)
        /\ \A g \in findings : g.paths = f.paths => g = f
    BY <1>2, <1>3, MergeFindingsHold DEF TypeOK
  <2>2. \A p \in Profile : IsVerdict(p, f.paths) => p \in f.profiles
    BY <1>2, <1>4, <2>1
  <2>3. f.profiles \subseteq Profile
    BY <2>1 DEF Finding
  <2>4. f.profiles = {DefaultProfile} => IsOnlyOfDefault(f.paths)
    BY <2>1, <2>2, <2>3 DEF IsOnlyOfDefault
  <2>5. IsWitnessed(f)
    BY <2>1 DEF IsWitnessed
  <2>6. IsWitnessed(Placed(f))
    BY <2>1, <2>4, <2>5, PlacedIsWitnessed
  <2>7. QED
    BY <2>1, <2>6, PlacedFinding DEF MergeVerdict
<1>6. ASSUME "files" \in setting.issues, NEW p \in Merged, NEW g, IsVerdict(p, g)
      PROVE  \E f \in findings' : f.type = "unusedFiles" /\ p \in f.profiles /\ f.paths = g
  <2>1. PICK f \in findings : f.type = "unusedFiles" /\ p \in f.profiles /\ f.paths = g
    BY <1>4, <1>6
  <2>2. f \in Finding
    BY <1>2 DEF TypeOK
  <2>3. Placed(f) \in findings'
    BY <1>1, <1>6, <2>1
  <2>4. QED
    BY <2>1, <2>2, <2>3, PlacedFinding
<1>7. \A f \in findings' : /\ MergeVerdict(f)
                           /\ f.profiles = {DefaultProfile} => f.profiles = Profile
  BY <1>1, <1>5
<1>8. QED
  BY <1>1, <1>2, <1>3, <1>6, <1>7, MergeFindingsInvariant

(* append_workspace_results                                                *)
LEMMA RetainedWorkspaces ==
  ASSUME IInv, pc = "workspaces", NEW w \in Workspace \ {Root}, ~RetainedPackage(w)
  PROVE  /\ w \in setting.private \ setting.scripts /\ ~ImportedByWorkspace(w)
         /\ Withheld(w) \/ \A file \in LiveAnywhere : WorkspaceOf[file] # w
<1>1. w \in setting.private \ setting.scripts /\ ~ImportedByWorkspace(w)
  BY DEF RetainedPackage
<1>2. ASSUME NEW file \in LiveAnywhere, WorkspaceOf[file] = w
      PROVE  Withheld(w)
  <2>1. PICK p \in Profile : file \in analysis[p].live
    BY DEF LiveAnywhere
  <2>2. file \in File /\ TypeOK /\ Merged = Profile
    BY <2>1, AnalysisOf, MergedProfiles DEF IInv, ReportsAreInOrder
  <2>3. CASE ScannedStatus(p, file) = "Reachable"
    <3>1. files[file].status = "Reachable"
      BY <2>2, <2>3 DEF IInv, FilesAreMerged, Settled
    <3>2. QED
      BY <1>2, <2>2, <3>1 DEF RetainedPackage, ReachableFileIn
  <2>4. CASE ScannedStatus(p, file) # "Reachable"
    <3>1. file \in analysis[p].broken
      BY <2>1, <2>4 DEF ScannedStatus
    <3>2. file \in analysis[p].blocked
      BY <2>2, <3>1, AnalysisOf
    <3> DEFINE d == [path |-> file, blocks |-> TRUE]
    <3>3. d \in Blocking(AllDiagnostics)
      BY <3>2 DEF AllDiagnostics, Blocking
    <3>4. diagnostics = EnforceLimit(AllDiagnostics)
      BY DEF IInv, DiagnosticsAreLimited, Merging
    <3>5. CASE d \in Blocking(diagnostics)
      <4>1. PackageOf(d.path) = w
        BY <1>2, <2>2, PathAssumption DEF PackageOf
      <4>2. QED
        BY <3>5, <4>1 DEF RetainedPackage, BlockedPackage
    <3>6. CASE Root \in BlockingWorkspaces
      BY <3>6 DEF Withheld
    <3> HIDE DEF d
    <3>7. QED
      BY <3>3, <3>4, <3>5, <3>6, LimitHidesNoGap
  <2>5. QED
    BY <2>3, <2>4
<1>3. QED
  BY <1>1, <1>2

LEMMA AppendWorkspaceResultsFindings ==
  ASSUME IInv, AppendWorkspaceResults
  PROVE  FindingsInv' /\ FindingsTyped'
<1> DEFINE judged == IF "workspaces" \in setting.issues THEN Workspace \ {Root} ELSE {}
           unused == {w \in judged : ~RetainedPackage(w)}
           notes == {[item |-> Manifest[w], profiles |-> Profile] :
                       w \in {w \in judged : RetainedPackage(w)}}
<1>1. /\ UNCHANGED inputVars /\ pc = "workspaces" /\ pc' = "eligibility"
      /\ retentions' = {Widened(r) : r \in retentions} \cup notes
      /\ findings' = {Placed(f) : f \in findings} \cup {UnusedWorkspace(w) : w \in unused}
      /\ merged' = merged /\ diagnostics' = diagnostics
  BY DEF AppendWorkspaceResults, AssignContext, Placed, Located
<1>2. TypeOK /\ Merged' = Merged /\ Merged \subseteq Profile
  BY <1>1, MergedProfiles DEF IInv, Merged
<1>3. /\ setting' = setting /\ analysis' = analysis
      /\ \A p, g : IsVerdict(p, g)' <=> IsVerdict(p, g)
      /\ \A g : IsOnlyOfDefault(g)' <=> IsOnlyOfDefault(g)
      /\ \A w : Withheld(w)' <=> Withheld(w)
      /\ \A w : ImportedByWorkspace(w)' <=> ImportedByWorkspace(w)
      /\ LiveAnywhere' = LiveAnywhere
  BY <1>1, InputsStay, DiagnosticsStay
<1>4. ASSUME NEW w \in unused
      PROVE  /\ UnusedWorkspace(w) \in Finding /\ UnusedWorkspace(w).type = "unusedWorkspace"
             /\ UnusedWorkspace(w).fix = "NotAvailable" /\ UnusedWorkspace(w).workspace = w
             /\ w \in setting.private \ setting.scripts /\ ~ImportedByWorkspace(w)
             /\ Withheld(w) \/ \A file \in LiveAnywhere : WorkspaceOf[file] # w
  <2>1. w \in Workspace \ {Root} /\ ~RetainedPackage(w)
    OBVIOUS
  <2>2. {Manifest[w]} \in (SUBSET Path) \ {{}}
    BY <2>1 DEF Path
  <2>3. UnusedWorkspace(w) \in Finding
    BY <2>1, <2>2 DEF UnusedWorkspace, Finding
  <2>4. QED
    BY <1>1, <2>1, <2>3, RetainedWorkspaces DEF UnusedWorkspace
<1>5. notes \subseteq Retention
  BY DEF Path, Retention
<1>5a. \A r \in retentions : /\ Widened(r) \in Retention /\ Widened(r).item = r.item
                             /\ r.profiles \subseteq Widened(r).profiles
  BY <1>2 DEF TypeOK, Retention, Widened
<1>6. \A f \in findings : /\ f \in Finding /\ f.fix # "Eligible" /\ f.type = "unusedFiles"
                          /\ f.profiles # {} /\ IsWitnessed(f)
                          /\ f.profiles = {DefaultProfile} => f.profiles = Profile
  BY <1>1, <1>2 DEF IInv, TypeOK, FindingsInv, FindingsAreVerdicts, EligibleIsJustified
<1> HIDE DEF unused, notes
<1>7. \A g \in findings' : \/ \E w \in unused : g = UnusedWorkspace(w)
                           \/ \E f \in findings : g = Placed(f)
  BY <1>1
<1>8. \A f \in findings : MergeVerdict(Placed(f))
  BY <1>6, PlacedFinding, PlacedIsWitnessed DEF MergeVerdict
<1>9. FindingsAreVerdicts'
  <2>1. \A f : IsWitnessed(f)' <=> IsWitnessed(f)
    BY <1>3 DEF IsWitnessed
  <2>2. QED
    BY <1>1, <1>4, <1>7, <1>8, <2>1 DEF FindingsAreVerdicts, MergeVerdict, Merging
<1>10. EligibleIsJustified'
  BY <1>4, <1>7, <1>8 DEF EligibleIsJustified, MergeVerdict
<1>11. UnusedIsUnreached'
  BY <1>3, <1>4, <1>7, <1>8 DEF UnusedIsUnreached, MergeVerdict
<1>12. VerdictsAreKept'
  <2>1. SUFFICES ASSUME "files" \in setting.issues, NEW p \in Merged,
                        NEW g \in analysis[p].groups, IsVerdict(p, g), NEW path \in g
                 PROVE  IsPlaced(p, g, path)'
    BY <1>1, <1>2, <1>3 DEF VerdictsAreKept, Merging
  <2>2. IsPlaced(p, g, path)
    BY <1>1, <2>1 DEF IInv, FindingsInv, VerdictsAreKept
  <2>3. CASE \E r \in retentions : r.item = path /\ p \in r.profiles
    <3>1. PICK r \in retentions : r.item = path /\ p \in r.profiles
      BY <2>3
    <3>2. Widened(r) \in retentions'
      BY <1>1
    <3>3. QED
      BY <1>2, <1>5a, <3>1, <3>2 DEF IsPlaced
  <2>4. CASE \E f \in findings : f.type = "unusedFiles" /\ p \in f.profiles /\ f.paths = g
    <3>1. PICK f \in findings : f.type = "unusedFiles" /\ p \in f.profiles /\ f.paths = g
      BY <2>4
    <3>2. Placed(f) \in findings'
      BY <1>1, <3>1
    <3>3. QED
      BY <1>6, <3>1, <3>2, PlacedFinding DEF IsPlaced
  <2>5. QED
    BY <2>2, <2>3, <2>4 DEF IsPlaced
<1>13. NothingIsWithheldLater'
  BY <1>1 DEF NothingIsWithheldLater, Settled
<1>14. FindingsTyped'
  BY <1>1, <1>2, <1>4, <1>5, <1>7, <1>8, <1>5a DEF FindingsTyped, MergeVerdict, TypeOK
<1>15. QED
  BY <1>9, <1>10, <1>11, <1>12, <1>13, <1>14 DEF FindingsInv

-----------------------------------------------------------------------------
(* The later stages only narrow findings down.                             *)

Derived(g, f) ==
  /\ g \in Finding /\ g.type = f.type /\ g.workspace = f.workspace /\ g.paths = f.paths
  /\ g.profiles \subseteq f.profiles /\ (f.profiles # {} => g.profiles # {})
  /\ g.fix = "Eligible" => \/ f.fix = "Eligible"
                           \/ pc = "eligibility" /\ f.type = "unusedFiles" /\ Fixable(f)

(* Files that every merged profile calls unreachable are dead in each.     *)
LEMMA FixableIsDead ==
  ASSUME IInv, pc = "eligibility", NEW f \in findings, f.type = "unusedFiles", Fixable(f)
  PROVE  \A p \in Profile : IsDeadIn(p, f.paths)
<1>1. TypeOK /\ Merged = Profile /\ f \in Finding /\ FindingsInv
  BY MergedProfiles DEF IInv, ReportsAreInOrder, TypeOK
<1>2. f.paths # {} /\ f.paths \subseteq File
  <2>1. f.paths # {} /\ f.profiles # {} /\ IsWitnessed(f)
    BY <1>1 DEF Finding, FindingsInv, FindingsAreVerdicts
  <2>2. PICK q \in Profile : IsVerdict(q, f.paths)
    BY <1>1, <2>1 DEF IsWitnessed, IsOnlyOfDefault, Finding
  <2>3. QED
    BY <1>1, <2>1, <2>2, AnalysisOf DEF IsVerdict
<1>3. ASSUME NEW p \in Profile, NEW path \in f.paths
      PROVE  ~LiveGap(p) /\ path \in UNION analysis[p].groups
  <2>1. path \in File /\ files[path].status = "Unreachable"
    BY <1>2 DEF Fixable
  <2>2. ScannedStatus(p, path) = "Unreachable"
    BY <1>1, <2>1 DEF IInv, FilesAreMerged, Settled
  <2>3. ~LiveGap(p) /\ path \notin analysis[p].live \cup analysis[p].broken
    BY <2>2 DEF ScannedStatus
  <2>4. analysis[p] \in Analyses
    BY <1>1 DEF TypeOK
  <2>5. UNION analysis[p].groups = File \ (analysis[p].live \cup analysis[p].broken)
    BY <2>4, AnalysisAssumption
  <2>6. QED
    BY <2>1, <2>3, <2>5
<1>4. QED
  BY <1>2, <1>3 DEF IsDeadIn

Later == {"eligibility", "suppress", "retain", "finish", "done"}

(* What was placed stays so, or was left out by the request.               *)
PlacesStay ==
  "files" \in setting.issues =>
    \A p \in Merged : \A g \in analysis[p].groups : \A path \in g :
      IsPlaced(p, g, path) =>
        IsPlaced(p, g, path)' \/ (pc' = "done" /\ ~setting.tests /\ g \cap TestFiles # {})

LEMMA LaterFindings ==
  ASSUME IInv, UNCHANGED inputVars, UNCHANGED <<diagnostics, merged>>,
         pc \in Later \ {"done"}, pc' \in Later \ {"eligibility"},
         \A g \in findings' : \E f \in findings : Derived(g, f),
         pc' \in Settled => \A g \in findings' : ~Withheld(g.workspace),
         retentions' \subseteq Retention, PlacesStay
  PROVE  FindingsInv' /\ FindingsTyped'
<1>1. TypeOK /\ FindingsInv /\ Merged' = Merged /\ Merged \subseteq Profile
  BY MergedProfiles DEF IInv, Merged
<1>2. /\ setting' = setting /\ analysis' = analysis
      /\ \A p, g : IsVerdict(p, g)' <=> IsVerdict(p, g)
      /\ \A p, g : IsDeadIn(p, g)' <=> IsDeadIn(p, g)
      /\ \A g : IsOnlyOfDefault(g)' <=> IsOnlyOfDefault(g)
      /\ \A w : Withheld(w)' <=> Withheld(w)
      /\ \A w : ImportedByWorkspace(w)' <=> ImportedByWorkspace(w)
      /\ LiveAnywhere' = LiveAnywhere
  BY InputsStay, DiagnosticsStay
<1>3. pc' \notin Merging \cup {"workspaces", "eligibility"} /\ pc \notin Merging \cup {"workspaces", "done"}
  BY DEF Merging, Later
<1>4. FindingsAreVerdicts'
  BY <1>1, <1>2, <1>3 DEF FindingsInv, FindingsAreVerdicts, Derived, IsWitnessed
<1>5. EligibleIsJustified'
  <2>1. SUFFICES ASSUME NEW g \in findings', g.fix = "Eligible"
                 PROVE  /\ setting.world[g.workspace] = "closed"
                        /\ \A p \in Profile : IsDeadIn(p, g.paths)
    BY <1>2, <1>3 DEF EligibleIsJustified
  <2>2. PICK f \in findings : Derived(g, f)
    OBVIOUS
  <2>3. CASE f.fix = "Eligible"
    BY <1>1, <2>2, <2>3 DEF FindingsInv, EligibleIsJustified, Derived
  <2>4. CASE pc = "eligibility" /\ f.type = "unusedFiles" /\ Fixable(f)
    <3>1. \A p \in Profile : IsDeadIn(p, f.paths)
      BY <2>4, FixableIsDead
    <3>2. QED
      BY <2>2, <2>4, <3>1 DEF Fixable, Derived
  <2>5. QED
    BY <2>1, <2>2, <2>3, <2>4 DEF Derived
<1>6. UnusedIsUnreached'
  BY <1>1, <1>2 DEF FindingsInv, UnusedIsUnreached, Derived
<1>7. VerdictsAreKept'
  <2>1. SUFFICES ASSUME "files" \in setting.issues, NEW p \in Merged,
                        NEW g \in analysis[p].groups, IsVerdict(p, g), NEW path \in g
                 PROVE  IsPlaced(p, g, path)'
                        \/ (pc' = "done" /\ ~setting.tests /\ g \cap TestFiles # {})
    BY <1>1, <1>2, <1>3 DEF VerdictsAreKept
  <2>2. IsPlaced(p, g, path)
    BY <1>1, <1>3, <2>1 DEF FindingsInv, VerdictsAreKept
  <2>3. QED
    BY <2>1, <2>2 DEF PlacesStay
<1>8. NothingIsWithheldLater'
  BY <1>2 DEF NothingIsWithheldLater
<1>9. FindingsTyped'
  BY DEF FindingsTyped, Derived
<1>10. QED
  BY <1>4, <1>5, <1>6, <1>7, <1>8, <1>9 DEF FindingsInv

(* apply_file_fix_eligibility                                              *)
Judged(f) ==
  IF f.type # "unusedFiles" THEN f
  ELSE [f EXCEPT !.fix = IF Fixable(f) THEN "Eligible" ELSE "PreviewOnly"]

LEMMA ApplyFileFixEligibilityFindings ==
  ASSUME IInv, ApplyFileFixEligibility
  PROVE  FindingsInv' /\ FindingsTyped'
<1>1. /\ UNCHANGED inputVars /\ UNCHANGED <<diagnostics, merged, retentions>>
      /\ pc = "eligibility" /\ pc' = "suppress" /\ findings' = {Judged(f) : f \in findings}
  BY DEF ApplyFileFixEligibility, Judged
<1>2. \A f \in findings : f \in Finding
  BY DEF IInv, TypeOK
<1>3. \A f \in findings : Derived(Judged(f), f) /\ f.profiles = Judged(f).profiles
  BY <1>1, <1>2 DEF Derived, Judged, Finding
<1>4. \A g \in findings' : \E f \in findings : Derived(g, f)
  BY <1>1, <1>3
<1>5. PlacesStay
  <2>1. ASSUME NEW p, NEW g, NEW path, IsPlaced(p, g, path)
        PROVE  IsPlaced(p, g, path)'
    <3>1. CASE \E r \in retentions : r.item = path /\ p \in r.profiles
      BY <1>1, <3>1 DEF IsPlaced
    <3>2. CASE \E f \in findings : f.type = "unusedFiles" /\ p \in f.profiles /\ f.paths = g
      <4>1. PICK f \in findings : f.type = "unusedFiles" /\ p \in f.profiles /\ f.paths = g
        BY <3>2
      <4>2. Judged(f) \in findings'
        BY <1>1, <4>1
      <4>3. QED
        BY <1>3, <4>1, <4>2 DEF IsPlaced, Derived
    <3>3. QED
      BY <2>1, <3>1, <3>2 DEF IsPlaced
  <2>2. QED
    BY <2>1 DEF PlacesStay
<1>6. retentions' \subseteq Retention /\ pc' \notin Settled
  BY <1>1 DEF IInv, TypeOK, Settled
<1>7. pc \in Later \ {"done"} /\ pc' \in Later \ {"eligibility"}
  BY <1>1 DEF Later
<1>8. QED
  BY <1>1, <1>4, <1>5, <1>6, <1>7, LaterFindings

LEMMA NotedRetentions ==
  ASSUME NEW fs, fs \subseteq Finding
  PROVE  /\ RetentionsFor(fs) \subseteq Retention
         /\ \A f \in fs : \A path \in f.paths :
              [item |-> path, profiles |-> f.profiles] \in RetentionsFor(fs)
<1>1. \A f \in fs : \A path \in f.paths : [item |-> path, profiles |-> f.profiles] \in Retention
  BY DEF Finding, Retention
<1>2. QED
  BY <1>1 DEF RetentionsFor

(* suppress_blocked_findings                                               *)
LEMMA SuppressBlockedFindingsFindings ==
  ASSUME IInv, SuppressBlockedFindings
  PROVE  FindingsInv' /\ FindingsTyped'
<1> DEFINE blocked == {f \in findings : Withheld(f.workspace)}
<1>1. /\ UNCHANGED inputVars /\ UNCHANGED <<diagnostics, merged>>
      /\ pc = "suppress" /\ pc' = "retain" /\ findings' = findings \ blocked
      /\ retentions' = retentions \cup RetentionsFor(blocked)
  BY DEF SuppressBlockedFindings
<1>2. findings \subseteq Finding /\ retentions \subseteq Retention
  BY DEF IInv, TypeOK
<1>3. \A g \in findings' : \E f \in findings : Derived(g, f)
  BY <1>1, <1>2 DEF Derived
<1>4. \A g \in findings' : ~Withheld(g.workspace)
  BY <1>1
<1>5. blocked \subseteq Finding
  BY <1>2
<1>6. PlacesStay
  <2>1. ASSUME NEW p, NEW g, NEW path \in g, IsPlaced(p, g, path)
        PROVE  IsPlaced(p, g, path)'
    <3>1. CASE \E r \in retentions : r.item = path /\ p \in r.profiles
      BY <1>1, <3>1 DEF IsPlaced
    <3>2. CASE \E f \in findings : f.type = "unusedFiles" /\ p \in f.profiles /\ f.paths = g
      <4>1. PICK f \in findings : f.type = "unusedFiles" /\ p \in f.profiles /\ f.paths = g
        BY <3>2
      <4>2. CASE f \in blocked
        <5>1. [item |-> path, profiles |-> f.profiles] \in retentions'
          BY <1>1, <1>5, <2>1, <4>1, <4>2, NotedRetentions
        <5>2. QED
          BY <4>1, <5>1 DEF IsPlaced
      <4>3. CASE f \notin blocked
        BY <1>1, <4>1, <4>3 DEF IsPlaced
      <4>4. QED
        BY <4>2, <4>3
    <3>3. QED
      BY <2>1, <3>1, <3>2 DEF IsPlaced
  <2>2. QED
    BY <2>1 DEF PlacesStay
<1>7. retentions' \subseteq Retention
  BY <1>1, <1>2, <1>5, NotedRetentions
<1>8. pc \in Later \ {"done"} /\ pc' \in Later \ {"eligibility"}
  BY <1>1 DEF Later
<1> HIDE DEF blocked
<1>9. QED
  BY <1>1, <1>3, <1>4, <1>6, <1>7, <1>8, LaterFindings

(* apply_retain_rules                                                      *)
Left(f) == [f EXCEPT !.profiles = @ \ RetainedProfiles(f)]

Of(f, p) == [f EXCEPT !.profiles = {p}]

LEMMA ApplyRetainRulesFindings ==
  ASSUME IInv, ApplyRetainRules
  PROVE  FindingsInv' /\ FindingsTyped'
<1> DEFINE open == {f \in findings : ~ConfiguredToRetain(f)}
           configured == {f \in findings : ConfiguredToRetain(f)}
           parts(f) == {Of(f, p) : p \in RetainedProfiles(f)}
<1>1. /\ UNCHANGED inputVars /\ UNCHANGED <<diagnostics, merged>>
      /\ pc = "retain" /\ pc' = "finish"
      /\ findings' = {Left(f) : f \in {f \in open : f.profiles # RetainedProfiles(f)}}
      /\ retentions' = retentions \cup (RetentionsFor(configured)
                         \cup UNION {RetentionsFor(parts(f)) : f \in open})
  BY DEF ApplyRetainRules, NotesOfRetained, Left, Of
<1>2. findings \subseteq Finding /\ retentions \subseteq Retention /\ FindingsInv
  BY DEF IInv, TypeOK
<1>3. \A f \in findings : RetainedProfiles(f) \subseteq f.profiles /\ f.profiles \subseteq Profile
  BY <1>2 DEF RetainedProfiles, Finding
<1>4. ASSUME NEW f \in open, f.profiles # RetainedProfiles(f)
      PROVE  Derived(Left(f), f) /\ Left(f).profiles = f.profiles \ RetainedProfiles(f)
  <2>1. f \in findings /\ f \in Finding
    BY <1>2
  <2>2. Left(f) = [f EXCEPT !.profiles = f.profiles \ RetainedProfiles(f)]
    BY DEF Left
  <2>3. /\ Left(f) \in Finding /\ Left(f).type = f.type /\ Left(f).workspace = f.workspace
        /\ Left(f).paths = f.paths /\ Left(f).profiles = f.profiles \ RetainedProfiles(f)
        /\ Left(f).fix = f.fix
    BY <2>1, <2>2 DEF Finding
  <2>4. f.profiles \ RetainedProfiles(f) # {}
    BY <1>3, <1>4, <2>1
  <2>5. QED
    BY <2>3, <2>4 DEF Derived
<1>5. ASSUME NEW f \in open
      PROVE  /\ parts(f) \subseteq Finding
             /\ \A p \in RetainedProfiles(f) : \A path \in f.paths :
                  [item |-> path, profiles |-> {p}] \in RetentionsFor(parts(f))
  <2>1. f \in findings /\ f \in Finding
    BY <1>2
  <2>2. \A p \in RetainedProfiles(f) : Of(f, p) \in Finding /\ Of(f, p).profiles = {p}
                                       /\ Of(f, p).paths = f.paths
    BY <1>3, <2>1 DEF Of, Finding
  <2>3. parts(f) \subseteq Finding
    BY <2>2
  <2>4. \A p \in RetainedProfiles(f) : Of(f, p) \in parts(f)
    OBVIOUS
  <2> HIDE DEF parts
  <2>5. ASSUME NEW p \in RetainedProfiles(f), NEW path \in f.paths
        PROVE  [item |-> path, profiles |-> {p}] \in RetentionsFor(parts(f))
    <3>1. [item |-> path, profiles |-> Of(f, p).profiles] \in RetentionsFor(parts(f))
      BY <2>2, <2>3, <2>4, NotedRetentions
    <3>2. QED
      BY <2>2, <3>1
  <2>6. QED
    BY <2>3, <2>5
<1>6. \A f \in open : f \in findings
  OBVIOUS
<1>7. configured \subseteq Finding
  BY <1>2
<1>8. \A f \in findings : f \in open \/ f \in configured
  OBVIOUS
<1> HIDE DEF parts, open, configured
<1>9. \A g \in findings' : \E f \in findings : Derived(g, f)
  BY <1>1, <1>4, <1>6
<1>10. \A g \in findings' : ~Withheld(g.workspace)
  BY <1>1, <1>2, <1>9 DEF FindingsInv, NothingIsWithheldLater, Settled, Derived
<1>11. PlacesStay
  <2>1. ASSUME NEW p, NEW g, NEW path \in g, IsPlaced(p, g, path)
        PROVE  IsPlaced(p, g, path)'
    <3>1. CASE \E r \in retentions : r.item = path /\ p \in r.profiles
      BY <1>1, <3>1 DEF IsPlaced
    <3>2. CASE \E f \in findings : f.type = "unusedFiles" /\ p \in f.profiles /\ f.paths = g
      <4>1. PICK f \in findings : f.type = "unusedFiles" /\ p \in f.profiles /\ f.paths = g
        BY <3>2
      <4>2. CASE f \in configured
        <5>1. [item |-> path, profiles |-> f.profiles] \in retentions'
          BY <1>1, <1>7, <2>1, <4>1, <4>2, NotedRetentions
        <5>2. QED
          BY <4>1, <5>1 DEF IsPlaced
      <4>3. CASE f \in open /\ p \in RetainedProfiles(f)
        <5>1. [item |-> path, profiles |-> {p}] \in RetentionsFor(parts(f))
          BY <1>5, <2>1, <4>1, <4>3
        <5>2. [item |-> path, profiles |-> {p}] \in retentions'
          BY <1>1, <4>3, <5>1
        <5>3. QED
          BY <5>2 DEF IsPlaced
      <4>4. CASE f \in open /\ p \notin RetainedProfiles(f)
        <5>1. f.profiles # RetainedProfiles(f)
          BY <4>1, <4>4
        <5>2. Left(f) \in findings'
          BY <1>1, <4>4, <5>1
        <5>3. Derived(Left(f), f) /\ p \in Left(f).profiles
          BY <1>4, <4>1, <4>4, <5>1
        <5>4. QED
          BY <4>1, <5>2, <5>3 DEF IsPlaced, Derived
      <4>5. QED
        BY <1>8, <4>2, <4>3, <4>4
    <3>3. QED
      BY <2>1, <3>1, <3>2 DEF IsPlaced
  <2>2. QED
    BY <2>1 DEF PlacesStay
<1>12. retentions' \subseteq Retention
  <2>1. RetentionsFor(configured) \subseteq Retention
    BY <1>7, NotedRetentions
  <2>2. \A f \in open : RetentionsFor(parts(f)) \subseteq Retention
    BY <1>5, NotedRetentions
  <2>3. QED
    BY <1>1, <1>2, <2>1, <2>2
<1>13. pc \in Later \ {"done"} /\ pc' \in Later \ {"eligibility"}
  BY <1>1 DEF Later
<1>14. QED
  BY <1>1, <1>9, <1>10, <1>11, <1>12, <1>13, LaterFindings

(* The filters for the request, and refresh_report_state                   *)
LEMMA FinishReportFindings ==
  ASSUME IInv, FinishReport
  PROVE  FindingsInv' /\ FindingsTyped'
<1>1. /\ UNCHANGED inputVars /\ UNCHANGED <<diagnostics, merged, retentions>>
      /\ pc = "finish" /\ pc' = "done" /\ findings' = {f \in findings : IsReported(f)}
  BY DEF FinishReport
<1>2. findings \subseteq Finding /\ retentions \subseteq Retention /\ FindingsInv
  BY DEF IInv, TypeOK
<1>3. \A g \in findings' : \E f \in findings : Derived(g, f)
  BY <1>1, <1>2 DEF Derived
<1>4. \A g \in findings' : ~Withheld(g.workspace)
  BY <1>1, <1>2 DEF FindingsInv, NothingIsWithheldLater, Settled
<1>5. PlacesStay
  <2>1. SUFFICES ASSUME "files" \in setting.issues, NEW p, NEW g, NEW path \in g,
                        IsPlaced(p, g, path)
                 PROVE  IsPlaced(p, g, path)' \/ (~setting.tests /\ g \cap TestFiles # {})
    BY <1>1 DEF PlacesStay
  <2>2. CASE \E r \in retentions : r.item = path /\ p \in r.profiles
    BY <1>1, <2>2 DEF IsPlaced
  <2>3. CASE \E f \in findings : f.type = "unusedFiles" /\ p \in f.profiles /\ f.paths = g
    <3>1. PICK f \in findings : f.type = "unusedFiles" /\ p \in f.profiles /\ f.paths = g
      BY <2>3
    <3>2. IsReported(f) \/ (~setting.tests /\ g \cap TestFiles # {})
      BY <2>1, <3>1 DEF IsReported
    <3>3. QED
      BY <1>1, <3>1, <3>2 DEF IsPlaced
  <2>4. QED
    BY <2>1, <2>2, <2>3 DEF IsPlaced
<1>6. pc \in Later \ {"done"} /\ pc' \in Later \ {"eligibility"}
  BY <1>1 DEF Later
<1>7. QED
  BY <1>1, <1>2, <1>3, <1>4, <1>5, <1>6, LaterFindings

LEMMA FindingsStayRight ==
  ASSUME IInv, [Next]_vars
  PROVE  FindingsInv' /\ FindingsTyped'
<1>1. CASE ScanProfile \/ EndMerge
  <2>1. /\ UNCHANGED inputVars /\ UNCHANGED <<findings, retentions, diagnostics, merged>>
        /\ pc \in Merging /\ pc' \in Merging
    BY <1>1 DEF ScanProfile, EndMerge, reportVars, Merging
  <2>2. QED
    BY <2>1, FindingsStay
<1>2. CASE UNCHANGED vars
  BY <1>2, FindingsStay DEF vars, reportVars
<1>3. QED
  BY <1>1, <1>2, StartMergeFindings, MergeNextFindings, AddDiagnosticsFindings,
     AppendWorkspaceResultsFindings, ApplyFileFixEligibilityFindings,
     SuppressBlockedFindingsFindings, ApplyRetainRulesFindings, FinishReportFindings
     DEF Next, Done

-----------------------------------------------------------------------------
(* The reports, the files and the diagnostics.                             *)

LEMMA ReportsStayInOrder ==
  ASSUME IInv, [Next]_vars
  PROVE  /\ ReportsAreInOrder' /\ merged' \in 0..Len(ProfileList)
         /\ \A i \in DOMAIN reports' : reports'[i].profile = ProfileList[i]
<1>1. ReportsAreInOrder /\ TypeOK /\ merged \in 0..Len(ProfileList) /\ Len(ProfileList) \in Nat
      /\ Len(ProfileList) >= 1
  BY ProfilesInOrder DEF IInv, TypeOK
<1>2. UNCHANGED inputVars
  BY DEF Next, ScanProfile, StartMerge, MergeNext, EndMerge, AddDiagnostics,
         AppendWorkspaceResults, ApplyFileFixEligibility, SuppressBlockedFindings,
         ApplyRetainRules, FinishReport, Done, vars
<1>3. \A p : ProfileReport(p)' = ProfileReport(p)
  BY <1>2, InputsStay
<1>4. SUFFICES ReportsAreInOrder' /\ merged' \in 0..Len(ProfileList)
  <2>1. reports' = [i \in 1..Len(reports') |-> ProfileReport(ProfileList[i])']
    BY <1>4 DEF ReportsAreInOrder
  <2>2. ASSUME NEW i \in DOMAIN reports'
        PROVE  reports'[i] = ProfileReport(ProfileList[i])
    <3>1. DOMAIN reports' = 1..Len(reports')
      BY <2>1
    <3>2. reports'[i] = ProfileReport(ProfileList[i])'
      BY <2>1, <3>1
    <3>3. QED
      BY <3>2, <1>3
  <2>3. \A p : ProfileReport(p).profile = p
    BY DEF ProfileReport
  <2>4. QED
    BY <1>4, <2>2, <2>3
<1>5. ASSUME reports' = reports, merged' \in 0..Len(ProfileList),
             pc # "scan" \/ pc' = "scan", pc' = "scan" => pc = "scan" /\ merged' = 0,
             pc' \notin {"scan", "merge"} => merged' = Len(ProfileList)
      PROVE  ReportsAreInOrder' /\ merged' \in 0..Len(ProfileList)
  BY <1>1, <1>3, <1>5 DEF ReportsAreInOrder
<1>6. CASE ScanProfile
  <2> DEFINE new == ProfileReport(ProfileList[Len(reports) + 1])
  <2>1. /\ pc = "scan" /\ Len(reports) < Len(ProfileList) /\ merged' = merged
        /\ reports' = Append(reports, new)
        /\ pc' = IF Len(reports') = Len(ProfileList) THEN "merge" ELSE "scan"
    BY <1>6 DEF ScanProfile
  <2>2. /\ Len(reports) \in Nat /\ merged = 0
        /\ reports = [i \in 1..Len(reports) |-> ProfileReport(ProfileList[i])]
    BY <1>1, <2>1 DEF ReportsAreInOrder
  <2> HIDE DEF new
  <2>3. /\ Len(reports') = Len(reports) + 1
        /\ reports' = [i \in 1..(Len(reports) + 1) |->
                         IF i = Len(reports) + 1 THEN new ELSE reports[i]]
    <3> DEFINE all == {ProfileReport(ProfileList[i]) : i \in 1..Len(reports)}
    <3>1. reports \in [1..Len(reports) -> all]
      BY <2>2
    <3> HIDE DEF all
    <3>2. reports \in Seq(all \cup {new})
      BY <2>2, <3>1
    <3> DEFINE S == all \cup {new}
    <3>3. reports \in Seq(S) /\ new \in S
      BY <3>2
    <3> HIDE DEF S
    <3>4. /\ reports' \in Seq(S) /\ Len(reports') = Len(reports) + 1
          /\ \A i \in 1..Len(reports) : reports'[i] = reports[i]
          /\ reports'[Len(reports) + 1] = new
      BY <2>1, <3>3, AppendProperties
    <3>5. reports' = [i \in 1..Len(reports') |-> reports'[i]]
      BY <3>4
    <3>6. QED
      BY <2>2, <3>4, <3>5
  <2>4. reports' = [i \in 1..(Len(reports) + 1) |-> ProfileReport(ProfileList[i])]
    BY <2>2, <2>3 DEF new
  <2>5. reports' = [i \in 1..Len(reports') |-> ProfileReport(ProfileList[i])']
    BY <1>3, <2>3, <2>4
  <2>6. Len(reports') \in 0..Len(ProfileList)
    BY <1>1, <2>1, <2>2, <2>3
  <2>7. pc' \in {"scan", "merge"} /\ merged' = 0 /\ (pc' # "scan" => Len(reports') = Len(ProfileList))
    BY <2>1, <2>2
  <2>8. ReportsAreInOrder'
    BY <2>5, <2>6, <2>7 DEF ReportsAreInOrder
  <2>9. QED
    BY <1>1, <2>1, <2>8
<1>7. CASE StartMerge \/ MergeNext
  <2>1. reports' = reports /\ pc = "merge" /\ pc' = "merge" /\ Len(reports) = Len(ProfileList)
    BY <1>1, <1>7 DEF StartMerge, MergeNext, ReportsAreInOrder
  <2>2. merged' \in 0..Len(ProfileList)
    BY <1>1, <1>7, <2>1 DEF StartMerge, MergeNext
  <2>3. QED
    BY <1>5, <2>1, <2>2
<1>8. CASE EndMerge
  <2>1. /\ reports' = reports /\ pc = "merge" /\ pc' = "diagnostics" /\ merged' = merged
        /\ merged = Len(reports) /\ Len(reports) = Len(ProfileList)
    BY <1>1, <1>8 DEF EndMerge, ReportsAreInOrder
  <2>2. QED
    BY <1>1, <1>5, <2>1
<1>9. CASE AddDiagnostics \/ AppendWorkspaceResults \/ ApplyFileFixEligibility
           \/ SuppressBlockedFindings \/ ApplyRetainRules \/ FinishReport
  <2>1. reports' = reports /\ merged' = merged /\ pc \notin {"scan", "merge"} /\ pc' # "scan"
    BY <1>9 DEF AddDiagnostics, AppendWorkspaceResults, ApplyFileFixEligibility,
       SuppressBlockedFindings, ApplyRetainRules, FinishReport
  <2>2. merged = Len(ProfileList)
    BY <1>1, <2>1 DEF ReportsAreInOrder
  <2>3. QED
    BY <1>1, <1>5, <2>1, <2>2
<1>10. CASE UNCHANGED vars
  <2>1. reports' = reports /\ merged' = merged /\ pc' = pc
    BY <1>10 DEF vars
  <2>2. QED
    BY <1>1, <1>5, <2>1 DEF ReportsAreInOrder
<1>11. QED
  BY <1>6, <1>7, <1>8, <1>9, <1>10 DEF Next, Done

LEMMA FilesStayMerged ==
  ASSUME IInv, [Next]_vars
  PROVE  /\ FilesAreMerged'
         /\ \A f \in File : /\ files'[f].status \in FileStatus
                            /\ \A p \in DOMAIN files'[f].targets :
                                 p \in Profile /\ files'[f].targets[p] \in FileStatus
<1> DEFINE Typed(file) == /\ file.status \in FileStatus
                          /\ \A p \in DOMAIN file.targets :
                               p \in Profile /\ file.targets[p] \in FileStatus
           Shows(file, f, ps) ==
             \A p \in ps :
               /\ ScannedStatus(p, f) = "Reachable" => file.status = "Reachable"
               /\ file.status = "Unreachable" => ScannedStatus(p, f) = "Unreachable"
<1>1. FilesAreMerged /\ ReportsAreInOrder /\ TypeOK /\ \A f \in File : Typed(files[f])
  BY DEF IInv, TypeOK
<1>2. UNCHANGED inputVars
  BY DEF Next, ScanProfile, StartMerge, MergeNext, EndMerge, AddDiagnostics,
         AppendWorkspaceResults, ApplyFileFixEligibility, SuppressBlockedFindings,
         ApplyRetainRules, FinishReport, Done, vars
<1>3. \A p, f : ScannedStatus(p, f)' = ScannedStatus(p, f)
  BY <1>2, InputsStay
<1>4. SUFFICES ASSUME NEW f \in File
               PROVE  Typed(files'[f]) /\ (pc' \notin Settled => Shows(files'[f], f, Merged'))
  BY <1>3, <1>4 DEF FilesAreMerged
<1>5. Typed(files[f]) /\ (pc \notin Settled => Shows(files[f], f, Merged))
  BY <1>1 DEF FilesAreMerged
<1>6. ASSUME files'[f] = files[f], merged' = merged, pc' \notin Settled => pc \notin Settled
      PROVE  Typed(files'[f]) /\ (pc' \notin Settled => Shows(files'[f], f, Merged'))
  <2>1. Merged' = Merged
    BY <1>6 DEF Merged
  <2>2. QED
    BY <1>5, <1>6, <2>1
<1>7. CASE StartMerge
  <2> DEFINE p1 == ProfileList[1]
             s == ScannedStatus(p1, f)
  <2>1. 1 \in 1..Len(reports)
    BY <1>1, <1>7, ProfilesInOrder DEF StartMerge, ReportsAreInOrder
  <2>2. reports[1] = ProfileReport(p1) /\ p1 \in Profile
    BY <1>1, <2>1, ReportOf
  <2>3. reports[1].profile = p1 /\ reports[1].files[f] = s
    BY <2>2 DEF ProfileReport
  <2>4. files'[f] = [status |-> s, targets |-> OneTarget(p1, s)] /\ Merged' = {p1}
    BY <1>7, <2>3 DEF StartMerge, Merged
  <2>5. s \in FileStatus
    BY ScannedStatuses
  <2> HIDE DEF s
  <2>6. Typed(files'[f])
    BY <2>2, <2>4, <2>5 DEF OneTarget
  <2>7. Shows(files'[f], f, Merged')
    BY <2>4 DEF s
  <2>8. QED
    BY <2>6, <2>7
<1>8. CASE MergeNext
  <2> DEFINE new == ProfileList[merged + 1]
             s == ScannedStatus(new, f)
             targets == [p \in (DOMAIN files[f].targets) \cup {new} |->
                           IF p = new THEN s ELSE files[f].targets[p]]
  <2>1. merged + 1 \in 1..Len(reports) /\ pc \notin Settled
    BY <1>1, <1>8 DEF MergeNext, ReportsAreInOrder, Settled
  <2>2. reports[merged + 1] = ProfileReport(new) /\ new \in Profile
    BY <1>1, <2>1, ReportOf
  <2>3. reports[merged + 1].profile = new /\ reports[merged + 1].files[f] = s
    BY <2>2 DEF ProfileReport
  <2>4. files'[f] = [status |-> MergeFileStatus(files[f].status, s), targets |-> targets]
    BY <1>8, <2>3 DEF MergeNext
  <2>5. Merged' = Merged \cup {new}
    BY <1>1, <1>8, MergedProfiles DEF MergeNext
  <2>6. s \in FileStatus
    BY ScannedStatuses
  <2>7. \A p \in DOMAIN targets : p \in Profile /\ targets[p] \in FileStatus
    BY <1>5, <2>2, <2>6
  <2>8. MergeFileStatus(files[f].status, s) \in FileStatus
    BY DEF MergeFileStatus, FileStatus
  <2>9. Typed(files'[f])
    BY <2>4, <2>7, <2>8
  <2>10. Shows(files'[f], f, Merged')
    BY <1>5, <2>1, <2>4, <2>5, <2>6 DEF MergeFileStatus, FileStatus
  <2>11. QED
    BY <2>9, <2>10
<1>9. CASE SuppressBlockedFindings
  <2>1. pc' \in Settled
    BY <1>9 DEF SuppressBlockedFindings, Settled
  <2>2. CASE files'[f] = files[f]
    BY <1>5, <2>1, <2>2
  <2>3. CASE files'[f] = [status  |-> "Incomplete",
                          targets |-> [p \in DOMAIN files[f].targets |->
                                         Demoted(files[f].targets[p])]]
    BY <1>5, <2>1, <2>3 DEF Demoted, FileStatus
  <2>4. QED
    BY <1>9, <2>2, <2>3 DEF SuppressBlockedFindings
<1>10. CASE ScanProfile \/ EndMerge \/ AddDiagnostics \/ AppendWorkspaceResults
            \/ ApplyFileFixEligibility \/ ApplyRetainRules \/ FinishReport \/ UNCHANGED vars
  <2>1. files' = files /\ merged' = merged
    BY <1>10 DEF ScanProfile, EndMerge, AddDiagnostics, AppendWorkspaceResults,
       ApplyFileFixEligibility, ApplyRetainRules, FinishReport, vars, reportVars
  <2>2. pc' \notin Settled => pc \notin Settled
    BY <1>10 DEF ScanProfile, EndMerge, AddDiagnostics, AppendWorkspaceResults,
       ApplyFileFixEligibility, ApplyRetainRules, FinishReport, vars, Settled
  <2>3. QED
    BY <1>6, <2>1, <2>2
<1>11. QED
  BY <1>7, <1>8, <1>9, <1>10 DEF Next, Done

LEMMA BlockersJoin ==
  ASSUME NEW ps, NEW p
  PROVE  Blockers(ps \cup {p}) = Blockers(ps) \cup Blockers({p})
BY DEF Blockers

LEMMA AllBlockers ==
  AllDiagnostics = setting.pending \cup Blockers(Profile)
BY DEF AllDiagnostics, Blockers

LEMMA DiagnosticsStayLimited ==
  ASSUME IInv, [Next]_vars
  PROVE  DiagnosticsAreLimited' /\ diagnostics' \subseteq Diagnostic
<1>1. DiagnosticsAreLimited /\ ReportsAreInOrder /\ TypeOK /\ diagnostics \subseteq Diagnostic
  BY DEF IInv, TypeOK
<1>2. UNCHANGED inputVars
  BY DEF Next, ScanProfile, StartMerge, MergeNext, EndMerge, AddDiagnostics,
         AppendWorkspaceResults, ApplyFileFixEligibility, SuppressBlockedFindings,
         ApplyRetainRules, FinishReport, Done, vars
<1>3. (\A ps : Blockers(ps)' = Blockers(ps)) /\ AllDiagnostics' = AllDiagnostics
  BY <1>2, InputsStay
<1>4. ASSUME diagnostics' = diagnostics, merged' = merged, pc' \in Merging <=> pc \in Merging,
             pc' = "done" => status' = StatusOf(diagnostics)
      PROVE  DiagnosticsAreLimited' /\ diagnostics' \subseteq Diagnostic
  <2>1. Merged' = Merged
    BY <1>4 DEF Merged
  <2>2. pc' \in Merging => diagnostics' = Blockers(Merged)'
    BY <1>1, <1>3, <1>4, <2>1 DEF DiagnosticsAreLimited
  <2>3. pc' \notin Merging => diagnostics' = EnforceLimit(AllDiagnostics')
    BY <1>1, <1>3, <1>4 DEF DiagnosticsAreLimited
  <2>4. StatusOf(diagnostics') = StatusOf(diagnostics)
    BY <1>4
  <2>5. QED
    BY <1>1, <1>4, <2>2, <2>3, <2>4 DEF DiagnosticsAreLimited
<1>5. CASE StartMerge
  <2> DEFINE p1 == ProfileList[1]
  <2>1. 1 \in 1..Len(reports)
    BY <1>1, <1>5, ProfilesInOrder DEF StartMerge, ReportsAreInOrder
  <2>2. reports[1] = ProfileReport(p1) /\ p1 \in Profile
    BY <1>1, <2>1, ReportOf
  <2>3. diagnostics' = Blockers({p1}) /\ Blockers({p1}) \subseteq Diagnostic
    BY <1>1, <1>5, <2>2, ReportedDiagnostics DEF StartMerge
  <2>4. Merged' = {p1} /\ pc' = "merge"
    BY <1>5 DEF StartMerge, Merged
  <2>5. diagnostics' = Blockers(Merged')
    BY <2>3, <2>4
  <2>6. diagnostics' = Blockers(Merged)'
    BY <1>3, <2>5
  <2>7. QED
    BY <2>3, <2>4, <2>6 DEF DiagnosticsAreLimited, Merging
<1>6. CASE MergeNext
  <2> DEFINE new == ProfileList[merged + 1]
  <2>1. merged + 1 \in 1..Len(reports) /\ pc \in Merging /\ pc' = "merge"
    BY <1>1, <1>6 DEF MergeNext, ReportsAreInOrder, Merging
  <2>2. reports[merged + 1] = ProfileReport(new) /\ new \in Profile
    BY <1>1, <2>1, ReportOf
  <2>3. diagnostics' = diagnostics \cup Blockers({new}) /\ Blockers({new}) \subseteq Diagnostic
    BY <1>1, <1>6, <2>2, ReportedDiagnostics DEF MergeNext
  <2>4. Merged' = Merged \cup {new}
    BY <1>1, <1>6, MergedProfiles DEF MergeNext
  <2>5. diagnostics = Blockers(Merged)
    BY <1>1, <2>1 DEF DiagnosticsAreLimited
  <2>6. diagnostics' = Blockers(Merged')
    BY <2>3, <2>4, <2>5, BlockersJoin
  <2>7. diagnostics' = Blockers(Merged)'
    BY <1>3, <2>6
  <2>8. QED
    BY <1>1, <2>1, <2>3, <2>7 DEF DiagnosticsAreLimited, Merging
<1>7. CASE AddDiagnostics
  <2>1. pc = "diagnostics" /\ pc' = "workspaces"
        /\ diagnostics' = EnforceLimit(diagnostics \cup setting.pending)
    BY <1>7 DEF AddDiagnostics
  <2>2. diagnostics = Blockers(Profile)
    BY <1>1, <2>1, MergedProfiles DEF DiagnosticsAreLimited, Merging, ReportsAreInOrder
  <2>3. diagnostics \cup setting.pending = AllDiagnostics
    BY <2>2, AllBlockers
  <2>4. AllDiagnostics \subseteq Diagnostic
    BY <1>1, <2>3, SettingOf
  <2>5. EnforceLimit(AllDiagnostics) \subseteq Diagnostic
    <3>1. [path |-> ProjectPath, blocks |-> TRUE] \in Diagnostic
      BY DEF Diagnostic
    <3>2. QED
      BY <2>4, <3>1 DEF EnforceLimit
  <2>6. QED
    BY <1>3, <2>1, <2>3, <2>5 DEF DiagnosticsAreLimited, Merging
<1>8. CASE FinishReport
  BY <1>4, <1>8 DEF FinishReport, FinalStatus, Merging
<1>9. CASE ScanProfile \/ EndMerge \/ AppendWorkspaceResults
            \/ ApplyFileFixEligibility \/ SuppressBlockedFindings \/ ApplyRetainRules
  <2>1. diagnostics' = diagnostics /\ merged' = merged /\ pc' # "done"
        /\ (pc' \in Merging <=> pc \in Merging)
    BY <1>9 DEF ScanProfile, EndMerge, AppendWorkspaceResults, ApplyFileFixEligibility,
       SuppressBlockedFindings, ApplyRetainRules, reportVars, Merging
  <2>2. QED
    BY <1>4, <2>1
<1>10. CASE UNCHANGED vars
  <2>1. diagnostics' = diagnostics /\ merged' = merged /\ pc' = pc /\ status' = status
    BY <1>10 DEF vars, reportVars
  <2>2. QED
    BY <1>1, <1>4, <2>1 DEF DiagnosticsAreLimited
<1>11. QED
  BY <1>5, <1>6, <1>7, <1>8, <1>9, <1>10 DEF Next, Done

-----------------------------------------------------------------------------
LEMMA InitEstablishes == Init => IInv
<1> SUFFICES ASSUME Init PROVE IInv
  OBVIOUS
<1>1. TypeOK
  BY ProfilesInOrder DEF Init, TypeOK, FileStatus, NoTargets
<1>2. ReportsAreInOrder
  BY ProfilesInOrder DEF Init, ReportsAreInOrder
<1>3. Merged = {}
  BY <1>1, MergedProfiles DEF Init
<1>4. FilesAreMerged /\ VerdictsAreKept
  BY <1>3 DEF FilesAreMerged, VerdictsAreKept
<1>5. FindingsAreVerdicts /\ EligibleIsJustified /\ UnusedIsUnreached /\ NothingIsWithheldLater
  BY DEF Init, FindingsAreVerdicts, EligibleIsJustified, UnusedIsUnreached, NothingIsWithheldLater
<1>6. DiagnosticsAreLimited
  BY <1>3 DEF Init, DiagnosticsAreLimited, Blockers, Merging
<1>7. QED
  BY <1>1, <1>2, <1>4, <1>5, <1>6 DEF IInv, FindingsInv

LEMMA TypesStay ==
  ASSUME IInv, [Next]_vars
  PROVE  TypeOK'
<1>1. TypeOK
  BY DEF IInv
<1>2. UNCHANGED inputVars
  BY DEF Next, ScanProfile, StartMerge, MergeNext, EndMerge, AddDiagnostics,
         AppendWorkspaceResults, ApplyFileFixEligibility, SuppressBlockedFindings,
         ApplyRetainRules, FinishReport, Done, vars
<1>3. analysis' \in [Profile -> Analyses] /\ setting' \in Settings
  BY <1>1, <1>2 DEF TypeOK, inputVars
<1>4. /\ pc' \in {"scan", "merge", "diagnostics", "workspaces", "eligibility",
                  "suppress", "retain", "finish", "done"}
      /\ status' \in {"Complete", "Incomplete"}
  BY <1>1 DEF TypeOK, Next, ScanProfile, StartMerge, MergeNext, EndMerge, AddDiagnostics,
         AppendWorkspaceResults, ApplyFileFixEligibility, SuppressBlockedFindings,
         ApplyRetainRules, FinishReport, Done, vars, reportVars, StatusOf, FinalStatus
<1>5. QED
  BY <1>3, <1>4, ReportsStayInOrder, FilesStayMerged, FindingsStayRight, DiagnosticsStayLimited
     DEF TypeOK, FindingsTyped

(* A project scan never leaves the states of IInv.                         *)
THEOREM PolicyInvariant == Spec => []IInv
<1>1. IInv /\ [Next]_vars => IInv'
  BY TypesStay, ReportsStayInOrder, FilesStayMerged, DiagnosticsStayLimited, FindingsStayRight
     DEF IInv
<1>2. QED
  BY <1>1, InitEstablishes, PTL DEF Spec

(* Every variable of the project scan keeps its type.                      *)
THEOREM PolicyTypesCorrect == Spec => []TypeOK
<1>1. IInv => TypeOK
  BY DEF IInv
<1>2. QED
  BY <1>1, PolicyInvariant, PTL

LEMMA SettledFindings ==
  ASSUME IInv, pc = "done", NEW f \in findings
  PROVE  ~Withheld(f.workspace) /\ ~GapIn(f.workspace)
<1>1. ~Withheld(f.workspace) /\ diagnostics = EnforceLimit(AllDiagnostics)
  BY DEF IInv, FindingsInv, NothingIsWithheldLater, DiagnosticsAreLimited, Settled, Merging
<1>2. QED
  BY <1>1, GapsWithhold

(* What apply_file_fix_eligibility lets a fix act on is dead in every      *)
(* selected profile, and no gap the project knows of could change that.    *)
THEOREM EligibleFilesAreDead == Spec => []EligibleIsDeadEverywhere
<1>1. IInv => EligibleIsDeadEverywhere
  <2>1. SUFFICES ASSUME IInv, pc = "done", NEW f \in findings, f.fix = "Eligible"
                 PROVE  /\ f.paths \cap LiveAnywhere = {}
                        /\ \A p \in Profile :
                             ~LiveGap(p) /\ f.paths \subseteq UNION analysis[p].groups
                        /\ setting.world[f.workspace] = "closed"
                        /\ ~GapIn(f.workspace)
    BY DEF EligibleIsDeadEverywhere
  <2>2. /\ setting.world[f.workspace] = "closed"
        /\ \A p \in Profile : ~LiveGap(p) /\ f.paths \subseteq UNION analysis[p].groups
    BY <2>1 DEF IInv, FindingsInv, EligibleIsJustified, IsDeadIn
  <2>3. \A p \in Profile : f.paths \cap analysis[p].live = {}
    BY <2>1, <2>2, AnalysisOf DEF IInv
  <2>4. f.paths \cap LiveAnywhere = {}
    BY <2>3 DEF LiveAnywhere
  <2>5. QED
    BY <2>1, <2>2, <2>4, SettledFindings
<1>2. QED
  BY <1>1, PolicyInvariant, PTL

(* suppress_blocked_findings withholds what a gap could invalidate, also   *)
(* when the diagnostic of the gap fell to the limit.                       *)
THEOREM GapsWithholdTheirFindings == Spec => []GapsWithholdFindings
<1>1. IInv => GapsWithholdFindings
  BY SettledFindings DEF GapsWithholdFindings
<1>2. QED
  BY <1>1, PolicyInvariant, PTL

(* merge_profile_reports invents no verdict and widens none, and           *)
(* assign_project_context only what a target named "default" alone says.   *)
THEOREM MergedVerdictsAreWitnessed == Spec => []VerdictsAreWitnessed
<1>1. IInv => VerdictsAreWitnessed
  BY DEF IInv, FindingsInv, FindingsAreVerdicts, VerdictsAreWitnessed, IsWitnessed
<1>2. QED
  BY <1>1, PolicyInvariant, PTL

(* No verdict of a profile is lost: it is reported, noted, or left out by  *)
(* the request.                                                            *)
THEOREM NoVerdictIsLost == Spec => []VerdictsAreAccountedFor
<1>1. IInv => VerdictsAreAccountedFor
  <2>1. SUFFICES ASSUME IInv, pc = "done", "files" \in setting.issues, NEW p \in Profile,
                        ~LiveGap(p), NEW g \in analysis[p].groups, NEW path \in g
                 PROVE  \/ \E f \in findings : p \in f.profiles /\ path \in f.paths
                        \/ \E r \in retentions : r.item = path /\ p \in r.profiles
                        \/ ~setting.tests /\ g \cap TestFiles # {}
    BY DEF VerdictsAreAccountedFor
  <2>2. Merged = Profile
    BY <2>1, MergedProfiles DEF IInv, ReportsAreInOrder
  <2>3. IsPlaced(p, g, path) \/ (~setting.tests /\ g \cap TestFiles # {})
    BY <2>1, <2>2 DEF IInv, FindingsInv, VerdictsAreKept, IsVerdict
  <2>4. QED
    BY <2>1, <2>3 DEF IsPlaced
<1>2. QED
  BY <1>1, PolicyInvariant, PTL

(* append_workspace_results reports no workspace that any profile reaches, *)
(* an import or a script names, or that is published.                      *)
THEOREM UnusedWorkspacesAreUnreached == Spec => []UnusedWorkspaceIsUnreached
<1>1. IInv => UnusedWorkspaceIsUnreached
  <2>1. SUFFICES ASSUME IInv, pc = "done", NEW f \in findings, f.type = "unusedWorkspace"
                 PROVE  /\ f.workspace \in setting.private \ setting.scripts
                        /\ \A file \in LiveAnywhere : WorkspaceOf[file] # f.workspace
                        /\ ~ImportedByWorkspace(f.workspace)
    BY DEF UnusedWorkspaceIsUnreached
  <2>2. /\ f.workspace \in setting.private \ setting.scripts
        /\ ~ImportedByWorkspace(f.workspace)
        /\ Withheld(f.workspace) \/ \A file \in LiveAnywhere : WorkspaceOf[file] # f.workspace
    BY <2>1 DEF IInv, FindingsInv, UnusedIsUnreached
  <2>3. QED
    BY <2>1, <2>2, SettledFindings
<1>2. QED
  BY <1>1, PolicyInvariant, PTL

(* refresh_report_state calls a report complete only if no gap was met and *)
(* no diagnostic was dropped.                                              *)
THEOREM CompleteReportsAreCovered == Spec => []CompleteMeansCovered
<1>1. IInv => CompleteMeansCovered
  <2>1. SUFFICES ASSUME IInv, pc = "done", status = "Complete"
                 PROVE  Blocking(AllDiagnostics) = {} /\ diagnostics = AllDiagnostics
    BY DEF CompleteMeansCovered
  <2>2. diagnostics = EnforceLimit(AllDiagnostics) /\ Blocking(diagnostics) = {}
    BY <2>1 DEF IInv, DiagnosticsAreLimited, Merging, StatusOf
  <2>3. [path |-> ProjectPath, blocks |-> TRUE] \notin diagnostics
    BY <2>2 DEF Blocking
  <2>4. diagnostics = AllDiagnostics
    BY <2>2, <2>3 DEF EnforceLimit
  <2>5. QED
    BY <2>2, <2>4
<1>2. QED
  BY <1>1, PolicyInvariant, PTL

=============================================================================
