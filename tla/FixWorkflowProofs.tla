-------------------------- MODULE FixWorkflowProofs --------------------------
(* What fixes do and what they rest on, for every project.  The            *)
(* specifications are two, FixWorkflow and Dependencies; they share no     *)
(* state, and each has its invariant.                                      *)
(*                                                                         *)
(* A fix removes only what a complete scan found unreached, stops half-way *)
(* only when it was disturbed, passes only when the changed project is     *)
(* whole, and fails no sound fix: for every request and interleaving with  *)
(* the edits of others.                                                    *)
(*                                                                         *)
(* The evidence for a dependency is gathered in phases: the statuses hold  *)
(* what the profiles scanned so far reach, the workspaces read so far have *)
(* left their references and blockers, every owner installs its binary,    *)
(* and the outcomes are those of the whole evidence.                       *)
EXTENDS FixWorkflow, Dependencies, SequenceTheorems, FiniteSetTheorems, TLAPS

Contents == {Absent} \cup {{c} : c \in FileContents}

(* The stages in which the plan is accepted, and those in which it is      *)
(* carried out.                                                            *)
Changing == {"files", "remove", "commands", "execute", "revalidate"}

Approved == Changing \cup {"preview", "verify"}

RemovedFiles == {f \in File : \E c \in FileContents : <<f, c>> \in removed}

(* The report is that of a scan, and the plan is made from nothing else.   *)
ReportIsAScan ==
  /\ report = ScanOf(report.sources, report.manifests, report.installed, FALSE)
  /\ report.sources \in [File -> Contents]
  /\ pc \notin {"capture", "scan"} => report.manifests \in [Manifest -> ManifestContents]

OnlyAcceptedPlansGoOn ==
  /\ pc \in Approved \cup {"plan"} => ~report.failed
  /\ pc \in Approved => Accepts
  /\ pc \in Approved \ {"preview"} => request.apply
  /\ removed # {} => request.apply /\ Accepts /\ pc \in Changing \cup {"ended"}

(* A removed file was requested, and held what the scan read or is stale;  *)
(* so is the file about to be removed.                                     *)
RemovedWasRead ==
  /\ \A f \in File, c \in FileContents :
       <<f, c>> \in removed =>
         f \in request.files /\ (c \in report.sources[f] \/ f \in stale)
  /\ pc = "remove" =>
       \A f \in current : sources[f] = report.sources[f] \/ f \in stale

(* Until somebody disturbs it, what is verified and still to be treated    *)
(* stays as it was.                                                        *)
VerifiedMatches ==
  ~disturbed =>
    \A x \in CASE pc = "verify" -> (request.files \cup request.deps) \ left
               [] pc \in {"files", "remove"} -> left \cup request.deps
               [] pc \in {"commands", "execute"} -> left
               [] OTHER -> {} :
       Matches(x)

(* The files removed are those the stage has treated.                      *)
RemovedIsDone ==
  /\ pc \in {"files", "remove"} => RemovedFiles = request.files \ left
  /\ pc \in Changing \ {"files", "remove"} => RemovedFiles = request.files

PassedIsValid ==
  outcome = "passed" =>
    /\ RemovedFiles = request.files
    /\ rescan = ScanOf(rescan.sources, rescan.manifests, rescan.installed, request.tests)
    /\ Valid(rescan)

Undeclared(m) == [captured[m] EXCEPT !.declares = FALSE]

(* Without edits the disk is what the scan read, less the changes made.    *)
OnlyTheRunChanges ==
  edits = 0 =>
    /\ pc = "scan" => captured = manifests
    /\ pc \notin {"capture", "scan"} =>
         /\ captured = report.manifests
         /\ request.deps = {} => installed = report.installed
         /\ sources = [f \in File |-> IF f \in RemovedFiles THEN Absent
                                      ELSE report.sources[f]]
    /\ pc \in {"plan", "preview", "verify", "files", "remove"} => manifests = captured
    /\ pc \in {"commands", "execute", "revalidate"} /\ ~commandFailed =>
         manifests = [m \in Manifest |-> IF m \in request.deps \ left THEN Undeclared(m)
                                         ELSE captured[m]]
    /\ pc = "revalidate" /\ ~commandFailed => left = {}

IInv ==
  /\ TypeOK /\ ReportIsAScan /\ OnlyAcceptedPlansGoOn
  /\ RemovedWasRead /\ VerifiedMatches /\ PartialOnlyWhenDisturbed
  /\ RemovedIsDone /\ PassedIsValid
  /\ OnlyTheRunChanges /\ SoundFixPasses
-----------------------------------------------------------------------------
LEMMA PlanFrame ==
  ASSUME request' = request, report' = report
  PROVE  /\ Accepts' = Accepts /\ SelfContained' = SelfContained
         /\ \A s : Valid(s)' = Valid(s)
BY DEF Accepts, Offered, OfferedDependencies, SelfContained, Valid, Residual

(* What a removal does: one file of the plan, with the content it has.     *)
LEMMA RemovesOne ==
  ASSUME IInv, RemoveFile
  PROVE  \E f \in left, c \in FileContents :
           /\ current = {f} /\ f \in File
           /\ sources[f] = {c}
           /\ removed' = removed \cup {<<f, c>>}
           /\ sources' = [sources EXCEPT ![f] = Absent]
           /\ left' = left \ {f}
<1>1. PICK f \in left : current = {f}
  BY DEF IInv, TypeOK, RemoveFile
<1>2. /\ f \in File /\ sources[f] # Absent
      /\ removed' = removed \cup {<<f, c>> : c \in sources[f]}
      /\ sources' = [sources EXCEPT ![f] = Absent]
      /\ left' = left \ {f}
  BY <1>1 DEF RemoveFile, Existing
<1>3. PICK c \in FileContents : sources[f] = {c}
  BY <1>2 DEF IInv, TypeOK, Absent
<1>4. {<<f, x>> : x \in sources[f]} = {<<f, c>>}
  BY <1>3
<1> QED
  BY <1>1, <1>2, <1>3, <1>4

(* A command takes the current dependency out of its manifest.             *)
LEMMA DeclaresLess ==
  ASSUME IInv
  PROVE  /\ WithoutDependency \in [Manifest -> ManifestContents]
         /\ \A m \in Manifest :
              WithoutDependency[m] = IF m \in current
                                     THEN [manifests[m] EXCEPT !.declares = FALSE]
                                     ELSE manifests[m]
<1>1. ASSUME NEW m \in Manifest
      PROVE  /\ manifests[m] \in ManifestContents
             /\ [manifests[m] EXCEPT !.declares = FALSE] \in ManifestContents
             /\ manifests[m] \in [declares : BOOLEAN, edition : Nat]
  BY <1>1, ContentAssumption DEF IInv, TypeOK
<1>2. ASSUME NEW m \in Manifest
      PROVE  WithoutDependency[m] = IF m \in current
                                    THEN [manifests[m] EXCEPT !.declares = FALSE]
                                    ELSE manifests[m]
  BY <1>1, <1>2 DEF WithoutDependency
<1> QED
  BY <1>1, <1>2 DEF WithoutDependency

-----------------------------------------------------------------------------
(* Taking dead files away that no other file imports changes nothing of    *)
(* what the scan says of the rest.                                         *)

Without(src, gone) == [f \in File |-> IF f \in gone THEN Absent ELSE src[f]]

LEMMA RestIsUntouched ==
  ASSUME NEW src \in [File -> Contents], NEW gone \in SUBSET Existing(src)
  PROVE  /\ Existing(Without(src, gone)) = Existing(src) \ gone
         /\ \A f \in File : Imports(Without(src, gone), f) =
                              IF f \in gone THEN {} ELSE Imports(src, f)
BY DEF Without, Existing, Imports, Absent

LEMMA ReachIsUntouched ==
  ASSUME NEW src \in [File -> Contents], NEW gone \in SUBSET Existing(src),
         \A f \in Existing(src) \ gone : Imports(src, f) \cap gone = {},
         NEW f \in Existing(src) \ gone
  PROVE  ReachedFrom(Without(src, gone), f) = ReachedFrom(src, f)
<1> DEFINE rest == Without(src, gone)
           Closed(s, S) == \A h \in S : Imports(s, h) \cap Existing(s) \subseteq S
<1>0. /\ Existing(rest) = Existing(src) \ gone
      /\ \A h \in File : Imports(rest, h) = IF h \in gone THEN {} ELSE Imports(src, h)
      /\ Existing(src) \subseteq File
  BY RestIsUntouched DEF Existing
<1> HIDE DEF rest
<1>1. ASSUME NEW S \in SUBSET File, Closed(rest, S)
      PROVE  Closed(src, S \cap Existing(rest))
  BY <1>0, <1>1
<1>2. ASSUME NEW S \in SUBSET File, Closed(src, S)
      PROVE  Closed(rest, S)
  BY <1>0, <1>2
<1>3. ASSUME NEW s, NEW g
      PROVE  g \in ReachedFrom(s, f) <=>
               /\ g \in Existing(s)
               /\ \A S \in SUBSET File : f \in S /\ Closed(s, S) => g \in S
  BY DEF ReachedFrom
<1>4. ASSUME NEW g \in ReachedFrom(src, f)
      PROVE  g \in ReachedFrom(rest, f)
  <2>1. f \in Existing(rest) /\ Existing(rest) \in SUBSET File
    BY <1>0
  <2>2. Closed(rest, File)
    BY <1>0 DEF Existing
  <2> HIDE DEF Closed
  <2>3. ASSUME NEW S \in SUBSET File, f \in S, Closed(rest, S)
        PROVE  g \in S \cap Existing(rest)
    BY <1>1, <1>3, <1>4, <2>1, <2>3
  <2>4. g \in Existing(rest)
    BY <2>1, <2>2, <2>3, <1>0
  <2> QED
    BY <1>3, <2>3, <2>4
<1>5. ASSUME NEW g \in ReachedFrom(rest, f)
      PROVE  g \in ReachedFrom(src, f)
  <2> HIDE DEF Closed
  <2> QED
    BY <1>0, <1>2, <1>3, <1>5
<1> QED
  BY <1>4, <1>5 DEF rest

LEMMA UsedAreManifests ==
  ASSUME NEW src \in [File -> Contents]
  PROVE  UsedManifests(src) \subseteq Manifest
<1>1. \A f \in LiveFiles(src) : f \in File
  BY DEF LiveFiles, ReachedFrom, Existing
<1>2. \A f \in File : \A c \in src[f] : c.uses \subseteq Manifest
  BY ContentAssumption DEF Contents, Absent
<1> QED
  BY <1>1, <1>2 DEF UsedManifests, Uses

LEMMA ScanIsUntouched ==
  ASSUME NEW src \in [File -> Contents], NEW gone \in SUBSET Existing(src),
         \A f \in Existing(src) \ gone : Imports(src, f) \cap gone = {},
         gone \cap LiveFiles(src) = {}
  PROVE  LET rest == Without(src, gone)
         IN  /\ \A f \in Existing(rest) :
                  /\ Imports(src, f) \subseteq Existing(src) => Imports(rest, f) \subseteq Existing(rest)
                  /\ Uses(rest, f) = Uses(src, f)
             /\ Entries \cap Existing(rest) = Entries \cap Existing(src)
             /\ UsedManifests(rest) = UsedManifests(src)
             /\ UnusedGroups(rest) \subseteq UnusedGroups(src)
<1> DEFINE rest == Without(src, gone)
<1>0. /\ Existing(rest) = Existing(src) \ gone
      /\ \A f \in File : Imports(rest, f) = IF f \in gone THEN {} ELSE Imports(src, f)
      /\ \A f \in File \ gone : rest[f] = src[f]
      /\ Existing(src) \subseteq File
  BY RestIsUntouched DEF Existing, Without
<1>1. \A f \in Existing(src) \ gone : ReachedFrom(rest, f) = ReachedFrom(src, f)
  BY ReachIsUntouched
<1> HIDE DEF rest
<1>2. Entries \cap Existing(rest) = Entries \cap Existing(src)
  <2>1. ASSUME NEW e \in Entries \cap Existing(src)
        PROVE  e \in LiveFiles(src)
    BY DEF LiveFiles, ReachedFrom
  <2> QED
    BY <2>1, <1>0
<1>3. LiveFiles(rest) = LiveFiles(src)
  BY <1>0, <1>1, <1>2 DEF LiveFiles
<1>4. UsedManifests(rest) = UsedManifests(src)
  <2>1. LiveFiles(src) \subseteq File
    BY <1>0 DEF LiveFiles, ReachedFrom
  <2>2. \A f \in LiveFiles(src) : Uses(rest, f) = Uses(src, f)
    BY <1>0, <2>1 DEF Uses
  <2> QED
    BY <2>2, <1>3 DEF UsedManifests
<1>5. UnusedGroups(rest) \subseteq UnusedGroups(src)
  <2> DEFINE Dead(s) == Existing(s) \ LiveFiles(s)
             Group(s, f) == {g \in Dead(s) : g \in ReachedFrom(s, f) /\ f \in ReachedFrom(s, g)}
  <2>1. Dead(rest) = Dead(src) \ gone
    BY <1>0, <1>3
  <2>2. ASSUME NEW f \in Dead(rest) PROVE Group(rest, f) = Group(src, f)
    <3>1. f \in Existing(src) \ gone
      BY <1>0
    <3>2. ReachedFrom(src, f) \subseteq Existing(src) \ gone
      BY <1>0, <1>1, <3>1 DEF ReachedFrom
    <3> QED
      BY <1>0, <1>1, <2>1, <3>1, <3>2
  <2> HIDE DEF Group
  <2>3. ASSUME NEW s PROVE UnusedGroups(s) = {Group(s, f) : f \in Dead(s)}
    BY DEF UnusedGroups, Group
  <2> QED
    BY <2>1, <2>2, <2>3
<1>6. \A f \in Existing(rest) :
        /\ Imports(src, f) \subseteq Existing(src) => Imports(rest, f) \subseteq Existing(rest)
        /\ Uses(rest, f) = Uses(src, f)
  BY <1>0 DEF Uses
<1> QED
  BY <1>2, <1>4, <1>5, <1>6 DEF rest

LEMMA WholeFindings ==
  ASSUME NEW src, NEW man, NEW inst, NEW tests, ~tests, Gaps(src, man, inst) = {}, NEW f
  PROVE  f \in FindingsOf(src, man, inst, tests) <=>
           \/ \E g \in UnusedGroups(src) :
                ~IsRetained(g) /\ g \cap TestFiles = {} /\ f = [kind |-> "unusedFiles", item |-> g]
           \/ \E m \in Manifest \ UsedManifests(src) :
                man[m].declares /\ f = [kind |-> "unusedDependency", item |-> {m}]
           \/ \E m \in UsedManifests(src) :
                ~man[m].declares /\ f = [kind |-> "unlistedDependency", item |-> {m}]
BY DEF FindingsOf

(* What Accepts says of the report: the files of a plan are unreached, its *)
(* dependencies unused.                                                    *)
LEMMA AcceptedIsUnused ==
  ASSUME IInv, Accepts, request.apply,
         NEW src, NEW man, NEW inst, NEW tests, ~tests, report = ScanOf(src, man, inst, tests)
  PROVE  /\ Gaps(src, man, inst) = {}
         /\ request.files \subseteq Existing(src) \ LiveFiles(src)
         /\ request.deps \cap UsedManifests(src) = {}
<1>1. Gaps(src, man, inst) = {}
  BY DEF Accepts, ScanOf
<1>2. report.findings = FindingsOf(src, man, inst, tests)
  BY DEF ScanOf
<1>3. ASSUME NEW f \in report.findings
      PROVE  /\ f.kind = "unusedFiles" => f.item \in UnusedGroups(src)
             /\ f.kind = "unusedDependency" => f.item \in SUBSET (Manifest \ UsedManifests(src))
  <2>1. \/ \E g \in UnusedGroups(src) : f = [kind |-> "unusedFiles", item |-> g]
        \/ \E m \in Manifest \ UsedManifests(src) : f = [kind |-> "unusedDependency", item |-> {m}]
        \/ \E m \in UsedManifests(src) : f = [kind |-> "unlistedDependency", item |-> {m}]
    BY <1>1, <1>2, WholeFindings
  <2> QED
    BY <2>1
<1>4. /\ Offered \subseteq UNION UnusedGroups(src)
      /\ OfferedDependencies \subseteq Manifest \ UsedManifests(src)
  BY <1>3 DEF Offered, OfferedDependencies
<1>5. UNION UnusedGroups(src) \subseteq Existing(src) \ LiveFiles(src)
  BY DEF UnusedGroups
<1> QED
  BY <1>1, <1>4, <1>5 DEF Accepts

LEMMA SoundFixIsValid ==
  ASSUME IInv, pc = "revalidate", ~commandFailed, edits = 0, ~request.tests, SelfContained
  PROVE  Valid(ScanOf(sources, manifests, installed, request.tests))
<1> DEFINE src == report.sources
           man == report.manifests
           inst == report.installed
           gone == request.files
           no == FALSE
           scan == ScanOf(sources, manifests, installed, request.tests)
<1>1. /\ src \in [File -> Contents] /\ request.tests = no /\ ~no
      /\ report = ScanOf(src, man, inst, no) /\ ~report.failed
      /\ Accepts /\ request.apply
  BY RequestAssumption
  DEF IInv, TypeOK, ReportIsAScan, OnlyAcceptedPlansGoOn, Approved, Changing
<1>3. sources = Without(src, gone)
  BY DEF IInv, OnlyTheRunChanges, RemovedIsDone, Changing, Without
<1>4. manifests = [m \in Manifest |-> IF m \in request.deps THEN Undeclared(m) ELSE man[m]]
  BY DEF IInv, OnlyTheRunChanges
<1>6. /\ \A f \in Existing(src) \ gone : Imports(src, f) \cap gone = {}
      /\ request.deps # {} =>
           \A f \in Existing(src) \ gone : \A m \in Uses(src, f) :
             man[m].declares /\ m \notin request.deps
      /\ \A rule \in Rules :
           rule \cap gone # {} => rule \cap (Existing(src) \ gone) # {}
  BY DEF SelfContained
<1>0. request.deps = {} => installed = inst
  BY DEF IInv, OnlyTheRunChanges
<1> HIDE DEF src, man, inst, no
<1>2. /\ Gaps(src, man, inst) = {} /\ gone \in SUBSET Existing(src) /\ gone \cap LiveFiles(src) = {}
      /\ request.deps \cap UsedManifests(src) = {}
  BY <1>1, AcceptedIsUnused
<1>5. \A m \in Manifest :
        manifests[m].declares => m \notin request.deps /\ man[m].declares
  <2>1. \A m \in Manifest : captured[m] \in [declares : BOOLEAN, edition : Nat]
    BY ContentAssumption DEF IInv, TypeOK
  <2>2. \A m \in Manifest : Undeclared(m).declares = FALSE
    BY <2>1 DEF Undeclared
  <2> QED
    BY <1>4, <2>2
<1>7. /\ \A f \in Existing(sources) :
           /\ Imports(src, f) \subseteq Existing(src) => Imports(sources, f) \subseteq Existing(sources)
           /\ Uses(sources, f) = Uses(src, f)
      /\ Existing(sources) = Existing(src) \ gone
      /\ Entries \cap Existing(sources) = Entries \cap Existing(src)
      /\ UsedManifests(sources) = UsedManifests(src)
      /\ UnusedGroups(sources) \subseteq UnusedGroups(src)
  BY <1>1, <1>2, <1>3, <1>6, ScanIsUntouched, RestIsUntouched
<1>14. Gaps(sources, manifests, installed) = {}
  <2>1. SUFFICES ASSUME NEW f \in Existing(sources)
                 PROVE  /\ Imports(sources, f) \cap File \subseteq Existing(sources)
                        /\ \A m \in Uses(sources, f) \cap Manifest :
                             manifests[m].declares \/ m \in installed
                        /\ Imports(sources, f) \subseteq File /\ Uses(sources, f) \subseteq Manifest
    BY DEF Gaps
  <2>2. f \in Existing(src) /\ f \in File
    BY <1>7 DEF Existing
  <2>3. /\ Imports(src, f) \subseteq File /\ Uses(src, f) \subseteq Manifest
        /\ Imports(sources, f) \subseteq Imports(src, f)
    <3>1. \A c \in src[f] : c.imports \subseteq File /\ c.uses \subseteq Manifest
      BY <1>1, <2>2, ContentAssumption DEF Contents, Absent
    <3>2. Imports(sources, f) = Imports(src, f)
      BY <1>1, <1>2, <1>3, <1>7, <2>2, RestIsUntouched
    <3> QED
      BY <3>1, <3>2 DEF Imports, Uses
  <2>4. \A x \in File \cup Manifest : <<f, x>> \notin Gaps(src, man, inst)
    BY <1>2
  <2>5. /\ Imports(src, f) \subseteq Existing(src)
        /\ \A m \in Uses(src, f) : man[m].declares \/ m \in inst
    BY <2>2, <2>3, <2>4 DEF Gaps
  <2>6. \A m \in Uses(src, f) : manifests[m].declares \/ m \in installed
    <3>1. CASE request.deps = {}
      BY <1>0, <1>4, <2>3, <2>5, <3>1
    <3>2. CASE request.deps # {}
      BY <1>4, <1>6, <1>7, <2>2, <2>3, <3>2
    <3> QED
      BY <3>1, <3>2
  <2> QED
    BY <1>7, <2>3, <2>5, <2>6
<1>15. StaleRules(sources) \subseteq StaleRules(src)
  BY <1>6, <1>7 DEF StaleRules
<1> DEFINE before == report.findings
           after == FindingsOf(sources, manifests, installed, no)
<1>8. before = FindingsOf(src, man, inst, no)
  BY <1>1 DEF ScanOf
<1>9. \A m \in Manifest : m \in UsedManifests(src) /\ ~manifests[m].declares
                            => ~man[m].declares
  BY <1>2, <1>4
<1>10. after \subseteq before
  <2>1. /\ UsedManifests(src) \subseteq Manifest
        /\ \A m \in Manifest : manifests[m].declares => man[m].declares
        /\ \A m \in UsedManifests(src) : ~manifests[m].declares => ~man[m].declares
    BY <1>1, <1>5, <1>9, UsedAreManifests
  <2>2. ASSUME NEW f \in after PROVE f \in before
    <3>1. CASE \E g \in UnusedGroups(sources) :
                 ~IsRetained(g) /\ g \cap TestFiles = {} /\ f = [kind |-> "unusedFiles", item |-> g]
      BY <3>1, <1>1, <1>2, <1>7, <1>8, WholeFindings
    <3>2. CASE \E m \in Manifest \ UsedManifests(sources) :
                 manifests[m].declares /\ f = [kind |-> "unusedDependency", item |-> {m}]
      BY <3>2, <2>1, <1>1, <1>2, <1>7, <1>8, WholeFindings
    <3>3. CASE \E m \in UsedManifests(sources) :
                 ~manifests[m].declares /\ f = [kind |-> "unlistedDependency", item |-> {m}]
      BY <3>3, <2>1, <1>1, <1>2, <1>7, <1>8, WholeFindings
    <3> QED
      BY <3>1, <3>2, <3>3, <1>1, <1>14, WholeFindings
  <2> QED
    BY <2>2
<1>11. \A f \in after : f.kind # "unusedFiles" => f.item \cap request.deps = {}
  BY <1>1, <1>2, <1>5, <1>7, <1>14, WholeFindings
<1>12. /\ scan.failed = (Entries \cap Existing(sources) = {})
       /\ scan.complete = (Gaps(sources, manifests, installed) = {})
       /\ scan.findings = after /\ scan.gaps = Gaps(sources, manifests, installed)
       /\ scan.warnings = StaleRules(sources) /\ report.warnings = StaleRules(src)
       /\ scan.sources = sources
  BY <1>1 DEF ScanOf
<1>13. Entries \cap Existing(src) # {}
  BY <1>1 DEF ScanOf
<1> QED
  BY <1>7, <1>10, <1>11, <1>12, <1>13, <1>14, <1>15 DEF Valid, Residual

-----------------------------------------------------------------------------
(* One lemma for each step                                                 *)

LEMMA CaptureManifestsPreserves ==
  ASSUME IInv, CaptureManifests
  PROVE  IInv'
<1>1. TypeOK'
  BY DEF TypeOK, IInv, CaptureManifests, historyVars, Stages,
      Outcomes
<1>2. ReportIsAScan' /\ OnlyAcceptedPlansGoOn' /\ RemovedWasRead'
  BY PlanFrame
  DEF ReportIsAScan, OnlyAcceptedPlansGoOn, RemovedWasRead, IInv, TypeOK,
      CaptureManifests, historyVars, Contents, Approved,
      Changing
<1>3. VerifiedMatches' /\ PartialOnlyWhenDisturbed' /\ RemovedIsDone'
  BY DEF VerifiedMatches, PartialOnlyWhenDisturbed, RemovedIsDone, IInv, TypeOK,
      CaptureManifests, historyVars, Matches, Approved,
      Changing, OnlyAcceptedPlansGoOn, RemovedFiles
<1>4. PassedIsValid' /\ OnlyTheRunChanges' /\ SoundFixPasses'
  BY PlanFrame
  DEF PassedIsValid, OnlyTheRunChanges, SoundFixPasses, IInv, TypeOK,
      CaptureManifests, historyVars, RemovedFiles
<1> QED
  BY <1>1, <1>2, <1>3, <1>4 DEF IInv

LEMMA ScanPreserves ==
  ASSUME IInv, Scan
  PROVE  IInv'
<1>1. TypeOK'
  BY DEF TypeOK, IInv, Scan, End, historyVars, Stages, Outcomes
<1>2. ReportIsAScan'
  <2>1. /\ report'.sources = sources /\ report'.manifests = manifests
        /\ report'.installed = installed
    BY DEF Scan, ScanOf
  <2> QED
    BY <2>1 DEF Scan, ReportIsAScan, IInv, TypeOK, Contents
<1>3. RemovedWasRead'
  <2>1. removed = {}
    BY DEF Scan, IInv, OnlyAcceptedPlansGoOn, Changing
  <2> QED
    BY <2>1 DEF Scan, End, RemovedWasRead, historyVars
<1>4. OnlyAcceptedPlansGoOn'
  BY PlanFrame
  DEF OnlyAcceptedPlansGoOn, IInv, TypeOK, Scan, End, historyVars,
      Approved, Changing
<1>5. VerifiedMatches' /\ PartialOnlyWhenDisturbed' /\ RemovedIsDone'
  BY DEF VerifiedMatches, PartialOnlyWhenDisturbed, RemovedIsDone, IInv, TypeOK,
      Scan, End, historyVars, Matches, Approved, Changing,
      OnlyAcceptedPlansGoOn, RemovedFiles
<1>6. OnlyTheRunChanges'
  <2>1. /\ report'.sources = sources /\ report'.manifests = manifests
        /\ report'.installed = installed
    BY DEF Scan, ScanOf
  <2>2. RemovedFiles' = {}
    BY DEF Scan, IInv, OnlyAcceptedPlansGoOn, Changing, RemovedFiles, historyVars
  <2>3. sources = [f \in File |-> sources[f]]
    BY DEF IInv, TypeOK
  <2> QED
    BY <2>1, <2>2, <2>3 DEF Scan, End, OnlyTheRunChanges, IInv, historyVars
<1>7. PassedIsValid' /\ SoundFixPasses'
  BY PlanFrame
  DEF PassedIsValid, SoundFixPasses, IInv, TypeOK, Scan, End,
      historyVars
<1> QED
  BY <1>1, <1>2, <1>3, <1>4, <1>5, <1>6, <1>7 DEF IInv

LEMMA PlanPreserves ==
  ASSUME IInv, Plan
  PROVE  IInv'
<1>1. TypeOK'
  BY DEF TypeOK, IInv, Plan, End, historyVars, Stages, Outcomes
<1>2. ReportIsAScan' /\ OnlyAcceptedPlansGoOn' /\ RemovedWasRead'
  BY PlanFrame
  DEF ReportIsAScan, OnlyAcceptedPlansGoOn, RemovedWasRead, IInv, TypeOK,
      Plan, End, historyVars, Contents, Approved, Changing
<1>3. VerifiedMatches' /\ PartialOnlyWhenDisturbed' /\ RemovedIsDone'
  BY DEF VerifiedMatches, PartialOnlyWhenDisturbed, RemovedIsDone, IInv, TypeOK,
      Plan, End, historyVars, Matches, Approved, Changing,
      OnlyAcceptedPlansGoOn, RemovedFiles
<1>4. PassedIsValid' /\ OnlyTheRunChanges' /\ SoundFixPasses'
  BY PlanFrame
  DEF PassedIsValid, OnlyTheRunChanges, SoundFixPasses, IInv, TypeOK, Plan,
      End, historyVars, RemovedFiles
<1> QED
  BY <1>1, <1>2, <1>3, <1>4 DEF IInv

LEMMA PreviewInputPreserves ==
  ASSUME IInv, PreviewInput
  PROVE  IInv'
<1>1. TypeOK'
  BY DEF TypeOK, IInv, PreviewInput, HashInput, End, historyVars,
      Stages, Outcomes
<1>2. ReportIsAScan' /\ OnlyAcceptedPlansGoOn' /\ RemovedWasRead'
  BY PlanFrame
  DEF ReportIsAScan, OnlyAcceptedPlansGoOn, RemovedWasRead, IInv, TypeOK,
      PreviewInput, HashInput, End, historyVars, Contents, Approved,
      Changing
<1>3. VerifiedMatches' /\ PartialOnlyWhenDisturbed' /\ RemovedIsDone'
  BY DEF VerifiedMatches, PartialOnlyWhenDisturbed, RemovedIsDone, IInv, TypeOK,
      PreviewInput, HashInput, End, historyVars, Matches, Approved,
      Changing, OnlyAcceptedPlansGoOn, RemovedFiles
<1>4. PassedIsValid' /\ OnlyTheRunChanges' /\ SoundFixPasses'
  BY PlanFrame
  DEF PassedIsValid, OnlyTheRunChanges, SoundFixPasses, IInv, TypeOK,
      PreviewInput, HashInput, End, historyVars, RemovedFiles
<1> QED
  BY <1>1, <1>2, <1>3, <1>4 DEF IInv

LEMMA FinishPreviewPreserves ==
  ASSUME IInv, FinishPreview
  PROVE  IInv'
<1>1. TypeOK'
  BY DEF TypeOK, IInv, FinishPreview, End, historyVars, Stages, Outcomes
<1>2. ReportIsAScan' /\ OnlyAcceptedPlansGoOn' /\ RemovedWasRead'
  BY PlanFrame
  DEF ReportIsAScan, OnlyAcceptedPlansGoOn, RemovedWasRead, IInv, TypeOK,
      FinishPreview, End, historyVars, Contents, Approved, Changing
<1>3. VerifiedMatches' /\ PartialOnlyWhenDisturbed' /\ RemovedIsDone'
  BY DEF VerifiedMatches, PartialOnlyWhenDisturbed, RemovedIsDone, IInv, TypeOK,
      FinishPreview, End, historyVars, Matches, Approved, Changing,
      OnlyAcceptedPlansGoOn, RemovedFiles
<1>4. PassedIsValid' /\ OnlyTheRunChanges' /\ SoundFixPasses'
  BY PlanFrame
  DEF PassedIsValid, OnlyTheRunChanges, SoundFixPasses, IInv, TypeOK,
      FinishPreview, End, historyVars, RemovedFiles
<1> QED
  BY <1>1, <1>2, <1>3, <1>4 DEF IInv

LEMMA VerifyInputPreserves ==
  ASSUME IInv, VerifyInput
  PROVE  IInv'
<1>1. TypeOK'
  BY DEF TypeOK, IInv, VerifyInput, HashInput, End, historyVars, Stages,
      Outcomes
<1>2. ReportIsAScan' /\ OnlyAcceptedPlansGoOn' /\ RemovedWasRead'
  BY PlanFrame
  DEF ReportIsAScan, OnlyAcceptedPlansGoOn, RemovedWasRead, IInv, TypeOK,
      VerifyInput, HashInput, End, historyVars, Contents, Approved,
      Changing
<1>3. VerifiedMatches' /\ PartialOnlyWhenDisturbed' /\ RemovedIsDone'
  BY DEF VerifiedMatches, PartialOnlyWhenDisturbed, RemovedIsDone, IInv, TypeOK,
      VerifyInput, HashInput, End, historyVars, Matches, Approved,
      Changing, OnlyAcceptedPlansGoOn, RemovedFiles
<1>4. PassedIsValid' /\ OnlyTheRunChanges' /\ SoundFixPasses'
  BY PlanFrame
  DEF PassedIsValid, OnlyTheRunChanges, SoundFixPasses, IInv, TypeOK,
      VerifyInput, HashInput, End, historyVars, RemovedFiles
<1> QED
  BY <1>1, <1>2, <1>3, <1>4 DEF IInv

LEMMA FinishVerifyPreserves ==
  ASSUME IInv, FinishVerify
  PROVE  IInv'
<1>1. TypeOK'
  BY DEF TypeOK, IInv, FinishVerify, historyVars, Stages, Outcomes
<1>2. ReportIsAScan' /\ OnlyAcceptedPlansGoOn' /\ RemovedWasRead'
  BY PlanFrame
  DEF ReportIsAScan, OnlyAcceptedPlansGoOn, RemovedWasRead, IInv, TypeOK,
      FinishVerify, historyVars, Contents, Approved, Changing
<1>3. RemovedIsDone'
  <2>1. RemovedFiles' = {}
    BY DEF FinishVerify, IInv, OnlyAcceptedPlansGoOn, Changing, RemovedFiles, historyVars
  <2> QED
    BY <2>1 DEF FinishVerify, RemovedIsDone, Changing
<1>4. VerifiedMatches' /\ PartialOnlyWhenDisturbed'
  BY DEF VerifiedMatches, PartialOnlyWhenDisturbed, IInv, TypeOK, FinishVerify, historyVars, Matches,
          Approved, Changing,
      OnlyAcceptedPlansGoOn
<1>5. PassedIsValid' /\ OnlyTheRunChanges' /\ SoundFixPasses'
  BY PlanFrame
  DEF PassedIsValid, OnlyTheRunChanges, SoundFixPasses, IInv, TypeOK,
      FinishVerify, historyVars, RemovedFiles
<1> QED
  BY <1>1, <1>2, <1>3, <1>4, <1>5 DEF IInv

LEMMA CheckFilePreserves ==
  ASSUME IInv, CheckFile
  PROVE  IInv'
<1>1. TypeOK'
  BY DEF TypeOK, IInv, CheckFile, End, historyVars, Stages, Outcomes
<1>2. RemovedWasRead'
  <2>1. left \subseteq File
    BY RequestAssumption DEF CheckFile, IInv, TypeOK
  <2>2. pc' = "remove" => \A f \in current' : sources[f] = report.sources[f]
    BY <2>1 DEF CheckFile, End, Matches
  <2> QED
    BY <2>2 DEF CheckFile, IInv, RemovedWasRead, historyVars
<1>3. ReportIsAScan' /\ OnlyAcceptedPlansGoOn'
  BY PlanFrame
  DEF ReportIsAScan, OnlyAcceptedPlansGoOn, IInv, TypeOK, CheckFile, End, historyVars, Contents,
       Approved, Changing
<1>4. PartialOnlyWhenDisturbed'
  BY DEF CheckFile, End, IInv, PartialOnlyWhenDisturbed, VerifiedMatches, historyVars
<1>5. VerifiedMatches' /\ RemovedIsDone'
  BY DEF VerifiedMatches, RemovedIsDone, IInv, TypeOK, CheckFile, End,
      historyVars, Matches, RemovedFiles, Changing
<1>6. PassedIsValid' /\ OnlyTheRunChanges' /\ SoundFixPasses'
  BY PlanFrame
  DEF PassedIsValid, OnlyTheRunChanges, SoundFixPasses, IInv, TypeOK,
      CheckFile, End, historyVars, RemovedFiles
<1> QED
  BY <1>1, <1>2, <1>3, <1>4, <1>5, <1>6 DEF IInv

LEMMA RemoveFilePreserves ==
  ASSUME IInv, RemoveFile
  PROVE  IInv'
<1>1. TypeOK'
  <2>1. PICK f \in left, c \in FileContents :
          /\ current = {f} /\ f \in File
          /\ removed' = removed \cup {<<f, c>>}
          /\ sources' = [sources EXCEPT ![f] = Absent]
          /\ left' = left \ {f}
    BY RemovesOne
  <2>2. sources' \in [File -> {Absent} \cup {{d} : d \in FileContents}]
    BY <2>1 DEF IInv, TypeOK
  <2>3. removed' \subseteq File \X FileContents /\ left' \subseteq request.files
    BY <2>1 DEF RemoveFile, IInv, TypeOK
  <2> QED
    BY <2>2, <2>3 DEF RemoveFile, IInv, TypeOK, Stages, Outcomes
<1>2. RemovedWasRead'
  <2>1. PICK f \in left, c \in FileContents :
          /\ current = {f} /\ f \in File /\ sources[f] = {c}
          /\ removed' = removed \cup {<<f, c>>}
    BY RemovesOne
  <2>2. f \in request.files /\ (c \in report.sources[f] \/ f \in stale)
    BY <2>1 DEF RemoveFile, IInv, TypeOK, RemovedWasRead
  <2> QED
    BY <2>1, <2>2 DEF RemoveFile, IInv, RemovedWasRead
<1>3. ReportIsAScan' /\ OnlyAcceptedPlansGoOn'
  BY PlanFrame
  DEF ReportIsAScan, OnlyAcceptedPlansGoOn, IInv, TypeOK, RemoveFile, Contents, Approved, Changing
<1>4. VerifiedMatches'
  <2>1. PICK f \in left :
          /\ sources' = [sources EXCEPT ![f] = Absent]
          /\ left' = left \ {f} /\ f \in File
    BY RemovesOne
  <2>2. \A x : x # f => Matches(x)' = Matches(x)
    BY <2>1 DEF RemoveFile, Matches, IInv, TypeOK
  <2>3. f \notin request.deps
    BY <2>1, ContentAssumption, RequestAssumption DEF IInv, TypeOK
  <2> QED
    BY <2>1, <2>2, <2>3 DEF RemoveFile, IInv, VerifiedMatches
<1>5. RemovedIsDone'
  <2>1. PICK f \in left, c \in FileContents :
          /\ current = {f} /\ f \in File
          /\ removed' = removed \cup {<<f, c>>}
          /\ left' = left \ {f}
    BY RemovesOne
  <2>2. RemovedFiles' = RemovedFiles \cup {f}
    BY <2>1 DEF RemovedFiles
  <2> QED
    BY <2>1, <2>2, RequestAssumption
    DEF RemoveFile, IInv, TypeOK, RemovedIsDone, Changing
<1>6. PartialOnlyWhenDisturbed'
  BY 
  DEF PartialOnlyWhenDisturbed, IInv, TypeOK, RemoveFile, Approved, Changing, OnlyAcceptedPlansGoOn
<1>7. OnlyTheRunChanges'
  <2>1. PICK f \in left, c \in FileContents :
          /\ current = {f} /\ f \in File
          /\ removed' = removed \cup {<<f, c>>}
          /\ sources' = [sources EXCEPT ![f] = Absent]
    BY RemovesOne
  <2>2. RemovedFiles' = RemovedFiles \cup {f}
    BY <2>1 DEF RemovedFiles
  <2>3. ASSUME edits = 0
        PROVE  sources' = [g \in File |-> IF g \in RemovedFiles' THEN Absent
                                          ELSE report.sources[g]]
    BY <2>1, <2>2, <2>3 DEF RemoveFile, IInv, OnlyTheRunChanges
  <2> QED
    BY <2>3 DEF RemoveFile, IInv, OnlyTheRunChanges
<1>8. PassedIsValid' /\ SoundFixPasses'
  BY PlanFrame
  DEF PassedIsValid, SoundFixPasses, IInv, TypeOK, RemoveFile
<1> QED
  BY <1>1, <1>2, <1>3, <1>4, <1>5, <1>6, <1>7, <1>8 DEF IInv

LEMMA RemoveFailsPreserves ==
  ASSUME IInv, RemoveFails
  PROVE  IInv'
<1>1. TypeOK'
  BY DEF TypeOK, IInv, RemoveFails, End, Stages, Outcomes
<1>2. ReportIsAScan' /\ OnlyAcceptedPlansGoOn' /\ RemovedWasRead'
  BY PlanFrame
  DEF ReportIsAScan, OnlyAcceptedPlansGoOn, RemovedWasRead, IInv, TypeOK,
      RemoveFails, End, Contents, Approved, Changing
<1>3. VerifiedMatches' /\ PartialOnlyWhenDisturbed' /\ RemovedIsDone'
  BY DEF VerifiedMatches, PartialOnlyWhenDisturbed, RemovedIsDone, IInv, TypeOK,
      RemoveFails, End, Matches, Approved, Changing,
      OnlyAcceptedPlansGoOn, RemovedFiles
<1>4. PassedIsValid' /\ OnlyTheRunChanges' /\ SoundFixPasses'
  BY PlanFrame
  DEF PassedIsValid, OnlyTheRunChanges, SoundFixPasses, IInv, TypeOK,
      RemoveFails, End, RemovedFiles
<1> QED
  BY <1>1, <1>2, <1>3, <1>4 DEF IInv

LEMMA FinishFilesPreserves ==
  ASSUME IInv, FinishFiles
  PROVE  IInv'
<1>1. TypeOK'
  BY DEF TypeOK, IInv, FinishFiles, historyVars, Stages, Outcomes
<1>2. ReportIsAScan' /\ OnlyAcceptedPlansGoOn' /\ RemovedWasRead'
  BY PlanFrame
  DEF ReportIsAScan, OnlyAcceptedPlansGoOn, RemovedWasRead, IInv, TypeOK,
      FinishFiles, historyVars, Contents, Approved, Changing
<1>3. VerifiedMatches' /\ PartialOnlyWhenDisturbed' /\ RemovedIsDone'
  BY DEF VerifiedMatches, PartialOnlyWhenDisturbed, RemovedIsDone, IInv, TypeOK,
      FinishFiles, historyVars, Matches, Approved, Changing,
      OnlyAcceptedPlansGoOn, RemovedFiles
<1>4. PassedIsValid' /\ OnlyTheRunChanges' /\ SoundFixPasses'
  BY PlanFrame
  DEF PassedIsValid, OnlyTheRunChanges, SoundFixPasses, IInv, TypeOK,
      FinishFiles, historyVars, RemovedFiles
<1> QED
  BY <1>1, <1>2, <1>3, <1>4 DEF IInv

LEMMA CheckManifestPreserves ==
  ASSUME IInv, CheckManifest
  PROVE  IInv'
<1>1. TypeOK'
  BY DEF TypeOK, IInv, CheckManifest, End, historyVars, Stages, Outcomes
<1>2. ReportIsAScan' /\ OnlyAcceptedPlansGoOn' /\ RemovedWasRead'
  BY PlanFrame
  DEF ReportIsAScan, OnlyAcceptedPlansGoOn, RemovedWasRead, IInv, TypeOK,
      CheckManifest, End, historyVars, Contents, Approved, Changing
<1>3. PartialOnlyWhenDisturbed'
  BY DEF CheckManifest, End, IInv, PartialOnlyWhenDisturbed, VerifiedMatches, historyVars
<1>4. VerifiedMatches' /\ RemovedIsDone'
  BY DEF VerifiedMatches, RemovedIsDone, IInv, TypeOK, CheckManifest, End, historyVars, Matches,
          RemovedFiles, Changing
<1>5. OnlyTheRunChanges'
  <2>1. RemovedFiles' = RemovedFiles
    BY DEF CheckManifest, RemovedFiles, historyVars
  <2>2. \A m : Undeclared(m)' = Undeclared(m)
    BY DEF CheckManifest, Undeclared
  <2> QED
    BY <2>1, <2>2 DEF CheckManifest, End, IInv, OnlyTheRunChanges, historyVars
<1>6. PassedIsValid' /\ SoundFixPasses'
  BY PlanFrame
  DEF PassedIsValid, SoundFixPasses, IInv, TypeOK, CheckManifest, End, historyVars
<1> QED
  BY <1>1, <1>2, <1>3, <1>4, <1>5, <1>6 DEF IInv

LEMMA ExecuteCommandPreserves ==
  ASSUME IInv, ExecuteCommand
  PROVE  IInv'
<1>1. TypeOK'
  <2>1. WithoutDependency \in [Manifest -> ManifestContents]
    BY DeclaresLess
  <2> QED
    BY <2>1, RequestAssumption DEF ExecuteCommand, IInv, TypeOK, Stages, Outcomes, historyVars
<1>2. ReportIsAScan' /\ OnlyAcceptedPlansGoOn' /\ RemovedWasRead'
  BY PlanFrame
  DEF ReportIsAScan, OnlyAcceptedPlansGoOn, RemovedWasRead, IInv, TypeOK,
      ExecuteCommand, WithoutDependency, historyVars, Contents,
      Approved, Changing
<1>3. VerifiedMatches'
  <2>1. PICK m \in left : current = {m}
    BY DEF ExecuteCommand, IInv, TypeOK
  <2>2. \A x \in File \cup Manifest : x # m => Matches(x)' = Matches(x)
    BY <2>1, DeclaresLess DEF ExecuteCommand, Matches
  <2>3. left \subseteq Manifest
    BY RequestAssumption DEF ExecuteCommand, IInv, TypeOK
  <2> QED
    BY <2>1, <2>2, <2>3 DEF ExecuteCommand, IInv, VerifiedMatches, historyVars
<1>4. PartialOnlyWhenDisturbed' /\ RemovedIsDone'
  BY 
  DEF PartialOnlyWhenDisturbed, RemovedIsDone, IInv, TypeOK, ExecuteCommand,
      WithoutDependency, historyVars, Approved, Changing,
      OnlyAcceptedPlansGoOn, RemovedFiles
<1>5. OnlyTheRunChanges'
  <2>1. PICK m \in left : current = {m}
    BY DEF ExecuteCommand, IInv, TypeOK
  <2>2. WithoutDependency =
          [n \in Manifest |-> IF n = m THEN [manifests[n] EXCEPT !.declares = FALSE]
                              ELSE manifests[n]]
    BY <2>1, DeclaresLess
  <2>3. RemovedFiles' = RemovedFiles /\ \A n : Undeclared(n)' = Undeclared(n)
    BY DEF ExecuteCommand, RemovedFiles, Undeclared, historyVars
  <2>4. left \subseteq request.deps
    BY DEF ExecuteCommand, IInv, TypeOK
  <2>5. ASSUME edits = 0, manifests' = WithoutDependency, left' = left \ current, ~commandFailed
        PROVE  manifests' = [n \in Manifest |-> IF n \in request.deps \ left'
                                               THEN Undeclared(n) ELSE captured[n]]
    <3>1. manifests = [n \in Manifest |-> IF n \in request.deps \ left
                                         THEN Undeclared(n) ELSE captured[n]]
      BY <2>5 DEF ExecuteCommand, IInv, OnlyTheRunChanges
    <3> QED
      BY <2>1, <2>2, <2>4, <2>5, <3>1 DEF Undeclared
  <2>6. request.deps # {} /\ request' = request
    BY <2>1, <2>4 DEF ExecuteCommand
  <2> QED
    BY <2>3, <2>5, <2>6 DEF ExecuteCommand, IInv, OnlyTheRunChanges, historyVars
<1>6. PassedIsValid' /\ SoundFixPasses'
  BY PlanFrame
  DEF PassedIsValid, SoundFixPasses, IInv, TypeOK, ExecuteCommand,
      WithoutDependency, historyVars
<1> QED
  BY <1>1, <1>2, <1>3, <1>4, <1>5, <1>6 DEF IInv

LEMMA FinishCommandsPreserves ==
  ASSUME IInv, FinishCommands
  PROVE  IInv'
<1>1. TypeOK'
  BY DEF TypeOK, IInv, FinishCommands, runVars, historyVars, Stages,
      Outcomes
<1>2. ReportIsAScan' /\ OnlyAcceptedPlansGoOn' /\ RemovedWasRead'
  BY PlanFrame
  DEF ReportIsAScan, OnlyAcceptedPlansGoOn, RemovedWasRead, IInv, TypeOK,
      FinishCommands, runVars, historyVars, Contents, Approved, Changing
<1>3. VerifiedMatches' /\ PartialOnlyWhenDisturbed' /\ RemovedIsDone'
  BY DEF VerifiedMatches, PartialOnlyWhenDisturbed, RemovedIsDone, IInv, TypeOK,
      FinishCommands, runVars, historyVars, Matches, Approved, Changing,
      OnlyAcceptedPlansGoOn, RemovedFiles
<1>4. OnlyTheRunChanges'
  <2>1. RemovedFiles' = RemovedFiles
    BY DEF FinishCommands, RemovedFiles, historyVars
  <2>2. \A m : Undeclared(m)' = Undeclared(m)
    BY DEF FinishCommands, Undeclared, runVars
  <2> QED
    BY <2>1, <2>2 DEF FinishCommands, IInv, OnlyTheRunChanges, runVars, historyVars
<1>5. PassedIsValid' /\ SoundFixPasses'
  BY PlanFrame
  DEF PassedIsValid, SoundFixPasses, IInv, TypeOK, FinishCommands,
      runVars, historyVars
<1> QED
  BY <1>1, <1>2, <1>3, <1>4, <1>5 DEF IInv

LEMMA RevalidatePreserves ==
  ASSUME IInv, Revalidate
  PROVE  IInv'
<1>1. TypeOK'
  BY DEF TypeOK, IInv, Revalidate, End, historyVars, Stages, Outcomes
<1>2. ReportIsAScan' /\ OnlyAcceptedPlansGoOn' /\ RemovedWasRead'
  BY PlanFrame
  DEF ReportIsAScan, OnlyAcceptedPlansGoOn, RemovedWasRead, IInv, TypeOK,
      Revalidate, End, historyVars, Contents, Approved, Changing
<1>3. VerifiedMatches' /\ PartialOnlyWhenDisturbed' /\ RemovedIsDone'
  BY DEF VerifiedMatches, PartialOnlyWhenDisturbed, RemovedIsDone, IInv, TypeOK,
      Revalidate, End, historyVars, Matches, Approved, Changing,
      OnlyAcceptedPlansGoOn, RemovedFiles
<1>4. PassedIsValid'
  <2>1. ASSUME outcome' = "passed"
        PROVE  /\ rescan' = ScanOf(sources, manifests, installed, request.tests)
               /\ Valid(rescan')
    BY <2>1 DEF Revalidate, End
  <2>2. rescan' = ScanOf(sources, manifests, installed, request.tests)
          => /\ rescan'.sources = sources /\ rescan'.manifests = manifests
             /\ rescan'.installed = installed
    BY DEF ScanOf
  <2>3. RemovedFiles' = RemovedFiles /\ request' = request
        /\ \A s : Valid(s)' = Valid(s)
    BY PlanFrame DEF Revalidate, RemovedFiles, historyVars
  <2>4. RemovedFiles = request.files
    BY DEF Revalidate, IInv, RemovedIsDone, Changing
  <2> QED
    BY <2>1, <2>2, <2>3, <2>4 DEF PassedIsValid
<1>5. SoundFixPasses'
  <2> SUFFICES ASSUME outcome' = "failed", edits' = 0, ~commandFailed', ~request'.tests,
                      SelfContained'
               PROVE  FALSE
    BY DEF SoundFixPasses
  <2>1. /\ pc = "revalidate" /\ ~commandFailed /\ edits = 0 /\ ~request.tests
        /\ SelfContained
        /\ \A s : Valid(s)' = Valid(s)
    BY PlanFrame DEF Revalidate, historyVars
  <2>2. Valid(ScanOf(sources, manifests, installed, request.tests))
    BY <2>1, SoundFixIsValid
  <2> QED
    BY <2>1, <2>2 DEF Revalidate, End
<1>6. OnlyTheRunChanges'
  BY 
  DEF OnlyTheRunChanges, IInv, TypeOK, Revalidate, End, historyVars,
      RemovedFiles
<1> QED
  BY <1>1, <1>2, <1>3, <1>4, <1>5, <1>6 DEF IInv

LEMMA EditFilePreserves ==
  ASSUME IInv, EditFile
  PROVE  IInv'
<1>1. TypeOK'
  BY ContentAssumption DEF TypeOK, IInv, EditFile, runVars, Stages, Outcomes
<1>2. ReportIsAScan' /\ OnlyAcceptedPlansGoOn'
  BY PlanFrame DEF ReportIsAScan, OnlyAcceptedPlansGoOn, IInv, EditFile, runVars
<1>3. RemovedWasRead'
  <2>1. \A f \in File : sources'[f] = sources[f] \/ pc # "remove" \/ f \notin current \/ f \in stale'
    BY DEF EditFile, IInv, TypeOK
  <2>2. stale \subseteq stale' /\ UNCHANGED <<pc, current, removed, request, report>>
    BY DEF EditFile, runVars
  <2>3. pc = "remove" => current \subseteq File
    BY RequestAssumption DEF IInv, TypeOK
  <2> QED
    BY <2>1, <2>2, <2>3 DEF IInv, RemovedWasRead
<1>4. VerifiedMatches'
  <2>1. PICK f \in File, now \in {Absent} \cup {{c} : c \in FileContents} :
          /\ sources' = [sources EXCEPT ![f] = now]
          /\ disturbed' = (disturbed \/ Verified(f))
    BY DEF EditFile
  <2>2. \A x : x # f => Matches(x)' = Matches(x)
    BY <2>1 DEF EditFile, Matches, runVars, IInv, TypeOK
  <2>3. /\ UNCHANGED <<pc, request, left>>
        /\ pc = "verify" /\ f \notin left => disturbed'
        /\ pc \in {"files", "remove", "commands", "execute"} => disturbed'
    BY <2>1 DEF EditFile, runVars, Verified
  <2>4. ~disturbed' => ~disturbed
    BY <2>1
  <2> QED
    BY <2>2, <2>3, <2>4 DEF IInv, VerifiedMatches
<1>5. PartialOnlyWhenDisturbed' /\ RemovedIsDone'
  BY 
  DEF PartialOnlyWhenDisturbed, RemovedIsDone, IInv, TypeOK, EditFile,
      runVars, Approved, Changing, OnlyAcceptedPlansGoOn,
      RemovedFiles
<1>6. PassedIsValid' /\ OnlyTheRunChanges' /\ SoundFixPasses'
  BY PlanFrame
  DEF PassedIsValid, OnlyTheRunChanges, SoundFixPasses, IInv, TypeOK,
      EditFile, runVars, RemovedFiles
<1> QED
  BY <1>3, <1>1, <1>2, <1>4, <1>5, <1>6 DEF IInv

LEMMA EditManifestPreserves ==
  ASSUME IInv, EditManifest
  PROVE  IInv'
<1>1. TypeOK'
  BY ContentAssumption DEF TypeOK, IInv, EditManifest, runVars, Stages, Outcomes
<1>2. ReportIsAScan' /\ OnlyAcceptedPlansGoOn' /\ RemovedWasRead'
  BY PlanFrame
  DEF ReportIsAScan, OnlyAcceptedPlansGoOn, RemovedWasRead, IInv, TypeOK,
      EditManifest, runVars, Contents, Approved, Changing
<1>3. VerifiedMatches'
  <2>1. PICK m \in Manifest, c \in ManifestContents :
          /\ manifests' = [manifests EXCEPT ![m] = c]
          /\ disturbed' = (disturbed \/ Verified(m))
    BY DEF EditManifest
  <2>2. \A x \in File \cup Manifest : x # m => Matches(x)' = Matches(x)
    BY <2>1 DEF EditManifest, Matches, runVars, IInv, TypeOK
  <2>3. /\ UNCHANGED <<pc, request, left>>
        /\ pc = "verify" /\ m \notin left => disturbed'
        /\ pc \in {"files", "remove", "commands", "execute"} => disturbed'
    BY <2>1 DEF EditManifest, runVars, Verified
  <2>4. ~disturbed' => ~disturbed
    BY <2>1
  <2>5. request.files \cup request.deps \cup left \subseteq File \cup Manifest
    BY RequestAssumption DEF IInv, TypeOK
  <2> QED
    BY <2>2, <2>3, <2>4, <2>5 DEF IInv, VerifiedMatches
<1>4. PartialOnlyWhenDisturbed' /\ RemovedIsDone'
  BY 
  DEF PartialOnlyWhenDisturbed, RemovedIsDone, IInv, TypeOK, EditManifest, runVars, Approved, Changing,
       OnlyAcceptedPlansGoOn,
      RemovedFiles
<1>5. PassedIsValid' /\ OnlyTheRunChanges' /\ SoundFixPasses'
  BY PlanFrame
  DEF PassedIsValid, OnlyTheRunChanges, SoundFixPasses, IInv, TypeOK,
      EditManifest, runVars, RemovedFiles
<1> QED
  BY <1>1, <1>2, <1>3, <1>4, <1>5 DEF IInv

LEMMA InitEstablishes ==
  ASSUME Init
  PROVE  IInv
<1>1. TypeOK
  <2>1. /\ sources \in [File -> {Absent} \cup {{c} : c \in FileContents}]
        /\ manifests \in [Manifest -> ManifestContents]
        /\ edits \in 0..MaxEdits
    BY ContentAssumption DEF Init, Absent
  <2> QED
    BY <2>1 DEF Init, TypeOK, Stages, Outcomes
<1>2. NoScan.sources = [f \in File |-> Absent]
  BY DEF NoScan, ScanOf
<1>3. ReportIsAScan
  BY <1>2 DEF Init, ReportIsAScan, NoScan, ScanOf, Contents
<1> QED
  BY <1>1, <1>3
  DEF Init, IInv, OnlyAcceptedPlansGoOn, Approved, Changing, RemovedWasRead,
      VerifiedMatches, PartialOnlyWhenDisturbed, RemovedIsDone, PassedIsValid,
      OnlyTheRunChanges, SoundFixPasses

LEMMA StutterPreserves ==
  ASSUME IInv, UNCHANGED vars
  PROVE  IInv'
<1>1. TypeOK' /\ ReportIsAScan' /\ RemovedWasRead'
  BY DEF vars, runVars, historyVars, IInv, TypeOK, ReportIsAScan, RemovedWasRead
<1>4. /\ request' = request /\ report' = report /\ rescan' = rescan /\ left' = left
      /\ pc' = pc /\ outcome' = outcome /\ commandFailed' = commandFailed
      /\ removed' = removed /\ edits' = edits /\ disturbed' = disturbed
  BY DEF vars, runVars, historyVars
<1>5. Accepts' = Accepts /\ SelfContained' = SelfContained /\ \A s : Valid(s)' = Valid(s)
  BY <1>4, PlanFrame
<1>6. RemovedFiles' = RemovedFiles
  BY <1>4 DEF RemovedFiles
<1>2. OnlyAcceptedPlansGoOn' /\ PartialOnlyWhenDisturbed'
  BY <1>4, <1>5 DEF IInv, OnlyAcceptedPlansGoOn, PartialOnlyWhenDisturbed
<1>7. PassedIsValid' /\ SoundFixPasses'
  BY <1>4, <1>5, <1>6 DEF IInv, PassedIsValid, SoundFixPasses
<1>3. VerifiedMatches' /\ RemovedIsDone' /\ OnlyTheRunChanges'
  BY DEF vars, runVars, historyVars, IInv, VerifiedMatches, Matches, RemovedIsDone,
         OnlyTheRunChanges, RemovedFiles, Undeclared
<1> QED
  BY <1>1, <1>2, <1>3, <1>7 DEF IInv

(* The inductive invariant.  RemovesOnlyWhatWasAnalyzed and the others are *)
(* not inductive by themselves: they need what each stage has established  *)
(* for the stages after it.                                                *)
THEOREM FixInvariant == Spec => []IInv
<1>1. Init => IInv
  BY InitEstablishes
<1>2. IInv /\ [Next]_vars => IInv'
  BY CaptureManifestsPreserves, ScanPreserves, PlanPreserves, PreviewInputPreserves,
     FinishPreviewPreserves, VerifyInputPreserves, FinishVerifyPreserves,
     CheckFilePreserves, RemoveFilePreserves, RemoveFailsPreserves, FinishFilesPreserves,
     CheckManifestPreserves, ExecuteCommandPreserves, FinishCommandsPreserves,
     RevalidatePreserves, EditFilePreserves, EditManifestPreserves, StutterPreserves
  DEF Next, Ended
<1> QED
  BY <1>1, <1>2, PTL DEF Spec
-----------------------------------------------------------------------------

(* Every variable of a run of --fix keeps to its type.                     *)
THEOREM FixTypesCorrect == Spec => []TypeOK
<1>1. IInv => TypeOK
  BY DEF IInv
<1> QED
  BY FixInvariant, <1>1, PTL

(* A file is removed only if it was requested with --apply, a complete     *)
(* scan found it unreached, and it holds what that scan read, save for an  *)
(* edit between the last hash and the removal.                             *)
THEOREM OnlyTheAnalyzedIsRemoved == Spec => []RemovesOnlyWhatWasAnalyzed
<1>1. IInv => RemovesOnlyWhatWasAnalyzed
  <2> SUFFICES ASSUME IInv, NEW f \in File, NEW c \in FileContents, <<f, c>> \in removed
               PROVE  /\ request.apply /\ f \in request.files
                      /\ report.complete /\ f \notin LiveFiles(report.sources)
                      /\ c \in report.sources[f] \/ f \in stale
    BY DEF RemovesOnlyWhatWasAnalyzed
  <2> DEFINE src == report.sources
             man == report.manifests
             inst == report.installed
             no == FALSE
  <2>1. /\ request.apply /\ Accepts /\ report = ScanOf(src, man, inst, no) /\ ~no
        /\ f \in request.files /\ (c \in src[f] \/ f \in stale)
    BY DEF IInv, OnlyAcceptedPlansGoOn, ReportIsAScan, RemovedWasRead
  <2> HIDE DEF src, man, inst, no
  <2>2. f \notin LiveFiles(src)
    BY <2>1, AcceptedIsUnused
  <2> QED
    BY <2>1, <2>2 DEF src, Accepts
<1> QED
  BY FixInvariant, <1>1, PTL

(* The run ends with an error half-way through only when an input was      *)
(* edited after it was verified, or the system refused a removal.          *)
THEOREM OnlyDisturbedRunsStopHalfWay == Spec => []PartialOnlyWhenDisturbed
<1>1. IInv => PartialOnlyWhenDisturbed
  BY DEF IInv
<1> QED
  BY FixInvariant, <1>1, PTL

(* After a run that passes the project is whole.                           *)
THEOREM PassedProjectsAreWhole == Spec => []PassedMeansWhole
<1>1. IInv => PassedMeansWhole
  <2> SUFFICES ASSUME IInv, outcome = "passed"
               PROVE  /\ Gaps(rescan.sources, rescan.manifests, rescan.installed) = {}
                      /\ \A m \in request.deps :
                           rescan.manifests[m].declares <=> m \in UsedManifests(rescan.sources)
                      /\ request.files \cap Existing(rescan.sources) = {}
                      /\ RemovedFiles = request.files
    BY DEF PassedMeansWhole, RemovedFiles
  <2> DEFINE src == rescan.sources
             man == rescan.manifests
             inst == rescan.installed
             tests == request.tests
  <2>1. /\ RemovedFiles = request.files
        /\ rescan = ScanOf(src, man, inst, tests) /\ Valid(rescan)
        /\ request.files \cap Existing(src) = {}
    BY DEF IInv, PassedIsValid, Valid, Residual
  <2>2. request.deps \subseteq Manifest
    BY RequestAssumption DEF IInv, TypeOK
  <2> HIDE DEF src, man, inst, tests
  <2>3. Gaps(src, man, inst) = {} /\ rescan.findings = FindingsOf(src, man, inst, tests)
    BY <2>1 DEF Valid, ScanOf
  <2>4. ASSUME NEW m \in request.deps
        PROVE  man[m].declares <=> m \in UsedManifests(src)
    <3>1. /\ [kind |-> "unusedDependency", item |-> {m}] \notin rescan.findings
          /\ [kind |-> "unlistedDependency", item |-> {m}] \notin rescan.findings
      BY <2>1 DEF Valid, Residual
    <3> QED
      BY <2>2, <2>3, <3>1 DEF FindingsOf
  <2> QED
    BY <2>1, <2>3, <2>4 DEF src, man, inst
<1> QED
  BY FixInvariant, <1>1, PTL

(* A fix that leaves no import of what it removes behind, and no       *)
(* rule without a file, is accepted, whatever else was reported, if nobody *)
(* edits the project and the commands succeed.                             *)
THEOREM SoundFixesPass == Spec => []SoundFixPasses
<1>1. IInv => SoundFixPasses
  BY DEF IInv
<1> QED
  BY FixInvariant, <1>1, PTL

-----------------------------------------------------------------------------
(* The inductive invariant of the dependencies.                            *)

Workspaces == ToSet(project.workspaces)

DependencyTypeInv ==
  /\ DependencyTypeOK
  /\ project \in Projects
  /\ phase = "scan" => todo \in Seq(STRING)
  /\ phase = "collect" => todo \in Seq(Workspaces)

(* A profile that was scanned has marked every file it reaches.            *)
StatusIsMerged ==
  \A q \in ToSet(Profiles) :
    \/ phase = "scan" /\ q \in ToSet(todo)
    \/ \A f \in DOMAIN project.files : f \in project.reach[q] => status[f] = "reachable"

ImportsAreEvidence == phase # "scan" => SourceEvidence \subseteq evidence

(* What reading a workspace leaves behind.                                 *)
ReadWhole(w) ==
  /\ ScriptEvidence(w) \cup PluginEvidence(w) \subseteq evidence
  /\ AnalyzeScripts(project.scripts[w]).unmodeled # {} => w \in blockers

ContextsAreRead ==
  phase # "scan" =>
    \A w \in Workspaces : (phase = "collect" /\ w \in ToSet(todo)) \/ ReadWhole(w)

Installs(v, p, b) == p \in Linked(v) /\ b \in project.installed[v][p]

OwnersInstall ==
  \A b \in DOMAIN owners : \E v \in Workspaces : Installs(v, owners[b], b)

Reported ==
  {DependencyFinding(o) :
     o \in {u \in outcomes : u.kind \notin {"retained", "undetermined"} /\ ~Withheld(u.workspace)}}

ConclusionsRest ==
  /\ phase \in {"report", "done"} =>
       /\ Configurations \subseteq evidence
       /\ Blocked \subseteq blockers
       /\ outcomes = AnalyzeDependencies(evidence, blockers)
  /\ phase \in {"scan", "collect"} => outcomes = {}
  /\ findings = IF phase = "done" THEN Reported ELSE {}

DependencyInv ==
  /\ DependencyTypeInv
  /\ StatusIsMerged
  /\ ImportsAreEvidence
  /\ ContextsAreRead
  /\ OwnersInstall
  /\ ConclusionsRest

-----------------------------------------------------------------------------
(* What the project alone decides stays.                                   *)

LEMMA ToSetHeadTail ==
  ASSUME NEW R, NEW s \in Seq(R), s # <<>>
  PROVE  /\ Head(s) \in R /\ Head(s) \in ToSet(s)
         /\ Tail(s) \in Seq(R)
         /\ \A x \in ToSet(s) : x = Head(s) \/ x \in ToSet(Tail(s))
<1>1. Len(s) \in Nat /\ Len(s) # 0 /\ DOMAIN s = 1..Len(s) /\ Head(s) = s[1]
  OBVIOUS
<1>2. /\ Tail(s) \in Seq(R) /\ Len(Tail(s)) = Len(s) - 1
      /\ DOMAIN Tail(s) = 1..(Len(s) - 1)
      /\ \A i \in 1..(Len(s) - 1) : Tail(s)[i] = s[i + 1]
  BY <1>1
<1>3. 1 \in DOMAIN s
  BY <1>1
<1>4. Head(s) \in R /\ Head(s) \in ToSet(s)
  BY <1>1, <1>3 DEF ToSet
<1>5. ASSUME NEW i \in DOMAIN s, i # 1
      PROVE  s[i] \in ToSet(Tail(s))
  <2>1. i - 1 \in DOMAIN Tail(s) /\ Tail(s)[i - 1] = s[i]
    BY <1>1, <1>2, <1>5
  <2> QED
    BY <2>1 DEF ToSet
<1> QED
  BY <1>1, <1>2, <1>4, <1>5 DEF ToSet

LEMMA ToSetRange ==
  ASSUME NEW R, NEW s \in Seq(R)
  PROVE  ToSet(s) \subseteq R /\ s \in Seq(ToSet(s))
<1>1. Len(s) \in Nat /\ DOMAIN s = 1..Len(s) /\ s = [i \in 1..Len(s) |-> s[i]]
  OBVIOUS
<1>2. \A i \in 1..Len(s) : s[i] \in R /\ s[i] \in ToSet(s)
  BY <1>1 DEF ToSet
<1>3. s \in [1..Len(s) -> ToSet(s)]
  BY <1>1, <1>2
<1>4. s \in Seq(ToSet(s))
  BY <1>1, <1>3, SeqDef
<1> QED
  BY <1>1, <1>2, <1>4 DEF ToSet

LEMMA ProjectStays ==
  ASSUME [DependencyNext]_(dependencyVars)
  PROVE  project' = project
BY DEF DependencyNext, ScanProfile, StartDependencies, ReadContext, Analyze, Report, dependencyVars

LEMMA ProjectDecides ==
  ASSUME project' = project
  PROVE  /\ Blocked' = Blocked
         /\ Configurations' = Configurations
         /\ Workspaces' = Workspaces
         /\ \A w : /\ ScriptEvidence(w)' = ScriptEvidence(w)
                   /\ PluginEvidence(w)' = PluginEvidence(w)
                   /\ Withheld(w)' = Withheld(w)
         /\ \A v, p, b : Installs(v, p, b)' = Installs(v, p, b)
<1>1. Blocked' = Blocked
  BY DEF Blocked
<1>2. Configurations' = Configurations
  BY DEF Configurations, Inherited, Chain
<1>3. \A w : /\ ScriptEvidence(w)' = ScriptEvidence(w)
             /\ PluginEvidence(w)' = PluginEvidence(w)
  BY DEF ScriptEvidence, PluginEvidence
<1>4. \A w : Withheld(w)' = Withheld(w)
  BY <1>1 DEF Withheld
<1>5. \A v, p, b : Installs(v, p, b)' = Installs(v, p, b)
  BY DEF Installs, Linked
<1> QED
  BY <1>1, <1>2, <1>3, <1>4, <1>5 DEF Workspaces

LEMMA OutcomesStay ==
  ASSUME UNCHANGED <<project, owners, evidence, blockers>>
  PROVE  AnalyzeDependencies(evidence, blockers)' = AnalyzeDependencies(evidence, blockers)
BY DEF AnalyzeDependencies, NormalizeEvidence, Stuck, Unmapped, OwnerFor, Aliases, Declared

LEMMA WorkspaceSequence ==
  ASSUME project \in Projects
  PROVE  /\ project.workspaces \in Seq(Workspaces)
         /\ Blocked \subseteq Workspaces
BY ToSetRange, ProjectsAssumption DEF Workspaces, Blocked

-----------------------------------------------------------------------------
(* The steps.                                                              *)

LEMMA DependencyInitially ==
  ASSUME DependencyInit
  PROVE  DependencyInv
<1>1. /\ project \in Projects /\ phase = "scan" /\ todo = Profiles /\ Profiles \in Seq(STRING)
      /\ status = [f \in DOMAIN project.files |-> "unreachable"]
      /\ blockers = {} /\ owners = <<>> /\ outcomes = {} /\ findings = {}
  BY ProfilesAssumption DEF DependencyInit
<1>2. DependencyTypeInv
  BY <1>1 DEF DependencyTypeInv, DependencyTypeOK
<1>3. DOMAIN owners = {}
  BY <1>1
<1>4. StatusIsMerged /\ ImportsAreEvidence /\ ContextsAreRead /\ OwnersInstall /\ ConclusionsRest
  BY <1>1, <1>3 DEF StatusIsMerged, ImportsAreEvidence, ContextsAreRead, OwnersInstall, ConclusionsRest
<1> QED
  BY <1>2, <1>4 DEF DependencyInv

LEMMA ScanProfileStep ==
  ASSUME DependencyInv, ScanProfile
  PROVE  DependencyInv'
<1>0. /\ DependencyTypeInv /\ DependencyTypeOK /\ StatusIsMerged /\ OwnersInstall /\ ConclusionsRest
      /\ phase = "scan" /\ phase' = "scan" /\ todo # <<>> /\ todo \in Seq(STRING)
      /\ todo' = Tail(todo)
      /\ UNCHANGED <<project, evidence, blockers, owners, outcomes, findings>>
      /\ status' = [f \in DOMAIN status |->
                      MergeFileStatus(status[f],
                        IF f \in project.reach[Head(todo)] THEN "reachable" ELSE "unreachable")]
      /\ status \in [DOMAIN project.files -> {"reachable", "unreachable"}]
  BY DEF ScanProfile, DependencyInv, DependencyTypeInv, DependencyTypeOK
<1>1. /\ todo' \in Seq(STRING)
      /\ \A q \in ToSet(todo) : q = Head(todo) \/ q \in ToSet(todo')
  BY <1>0, ToSetHeadTail
<1>2. ASSUME NEW f \in DOMAIN project.files
      PROVE  /\ status'[f] \in {"reachable", "unreachable"}
             /\ status[f] = "reachable" => status'[f] = "reachable"
             /\ f \in project.reach[Head(todo)] => status'[f] = "reachable"
  BY <1>0, <1>2 DEF MergeFileStatus
<1>3. status' \in [DOMAIN project'.files -> {"reachable", "unreachable"}]
  BY <1>0, <1>2
<1>4. ToSet(project'.workspaces) = ToSet(project.workspaces)
  BY <1>0
<1>5. DependencyTypeInv'
  BY <1>0, <1>1, <1>3, <1>4 DEF DependencyTypeInv, DependencyTypeOK
<1>6. StatusIsMerged'
  BY <1>0, <1>1, <1>2 DEF StatusIsMerged
<1>7. OwnersInstall'
  BY <1>0, ProjectDecides DEF OwnersInstall
<1>8. ImportsAreEvidence' /\ ContextsAreRead' /\ ConclusionsRest'
  BY <1>0 DEF ImportsAreEvidence, ContextsAreRead, ConclusionsRest
<1> QED
  BY <1>5, <1>6, <1>7, <1>8 DEF DependencyInv

LEMMA StartDependenciesStep ==
  ASSUME DependencyInv, StartDependencies
  PROVE  DependencyInv'
<1>0. /\ DependencyTypeInv /\ DependencyTypeOK /\ StatusIsMerged /\ OwnersInstall /\ ConclusionsRest
      /\ phase = "scan" /\ phase' = "collect" /\ todo = <<>>
      /\ todo' = project.workspaces /\ evidence' = SourceEvidence
      /\ project \in Projects
      /\ UNCHANGED <<project, status, blockers, owners, outcomes, findings>>
  BY DEF StartDependencies, DependencyInv, DependencyTypeInv
<1>1. /\ Workspaces' = Workspaces
      /\ project.workspaces \in Seq(Workspaces)
  BY <1>0, ProjectDecides, WorkspaceSequence
<1>2. DependencyTypeOK'
  BY <1>0 DEF DependencyTypeOK
<1>3. DependencyTypeInv'
  BY <1>0, <1>1, <1>2 DEF DependencyTypeInv
<1>4. ToSet(todo) = {}
  BY <1>0 DEF ToSet
<1>5. StatusIsMerged'
  BY <1>0, <1>4 DEF StatusIsMerged
<1>6. ImportsAreEvidence'
  BY <1>0 DEF ImportsAreEvidence, SourceEvidence
<1>7. ContextsAreRead'
  BY <1>0, <1>1 DEF ContextsAreRead, Workspaces
<1>8. OwnersInstall'
  BY <1>0, ProjectDecides DEF OwnersInstall
<1>9. ConclusionsRest'
  BY <1>0 DEF ConclusionsRest
<1> QED
  BY <1>3, <1>5, <1>6, <1>7, <1>8, <1>9 DEF DependencyInv

(* A binary found in a workspace is owned by a package linked there.       *)
LEMMA OverwriteInstalls ==
  ASSUME OwnersInstall, NEW w \in Workspaces, NEW new \in CollectBinaryOwners(w)
  PROVE  \A b \in DOMAIN Overwrite(owners, new) :
           \E v \in Workspaces : Installs(v, Overwrite(owners, new)[b], b)
<1>1. ASSUME NEW b \in DOMAIN new
      PROVE  Installs(w, new[b], b)
  BY <1>1 DEF CollectBinaryOwners, Installs
<1>2. ASSUME NEW b \in DOMAIN owners \cup DOMAIN new
      PROVE  Overwrite(owners, new)[b] = IF b \in DOMAIN new THEN new[b] ELSE owners[b]
  BY DEF Overwrite
<1>3. DOMAIN Overwrite(owners, new) = DOMAIN owners \cup DOMAIN new
  BY DEF Overwrite
<1>4. ASSUME NEW b \in DOMAIN owners \cup DOMAIN new
      PROVE  \E v \in Workspaces : Installs(v, Overwrite(owners, new)[b], b)
  <2>1. CASE b \in DOMAIN new
    BY <1>1, <1>2, <2>1
  <2>2. CASE b \notin DOMAIN new
    BY <1>2, <2>2 DEF OwnersInstall
  <2> QED
    BY <2>1, <2>2
<1> QED
  BY <1>3, <1>4

LEMMA ReadContextStep ==
  ASSUME DependencyInv, ReadContext
  PROVE  DependencyInv'
<1> DEFINE w == Head(todo)
<1>0. /\ DependencyTypeInv /\ DependencyTypeOK /\ StatusIsMerged /\ OwnersInstall /\ ConclusionsRest
      /\ ImportsAreEvidence /\ ContextsAreRead
      /\ phase = "collect" /\ phase' = "collect" /\ todo # <<>> /\ todo \in Seq(Workspaces)
      /\ todo' = Tail(todo)
      /\ project' = project
      /\ UNCHANGED <<status, outcomes, findings>>
      /\ evidence' = evidence \cup ScriptEvidence(w) \cup PluginEvidence(w)
      /\ blockers' = IF AnalyzeScripts(project.scripts[w]).unmodeled # {}
                     THEN blockers \cup {w} ELSE blockers
      /\ \E new \in CollectBinaryOwners(w) : owners' = Overwrite(owners, new)
  BY DEF ReadContext, DependencyInv, DependencyTypeInv
<1>1. /\ w \in Workspaces /\ todo' \in Seq(Workspaces)
      /\ \A x \in ToSet(todo) : x = w \/ x \in ToSet(todo')
  BY <1>0, ToSetHeadTail
<1> HIDE DEF w
<1>2. /\ Workspaces' = Workspaces
      /\ \A v : /\ ScriptEvidence(v)' = ScriptEvidence(v)
                /\ PluginEvidence(v)' = PluginEvidence(v)
      /\ \A v, p, b : Installs(v, p, b)' = Installs(v, p, b)
  BY <1>0, ProjectDecides
<1>3. DependencyTypeOK'
  <2>1. blockers' \subseteq Workspaces
    BY <1>0, <1>1 DEF DependencyTypeOK, Workspaces
  <2> QED
    BY <1>0, <2>1 DEF DependencyTypeOK, Workspaces
<1>4. DependencyTypeInv'
  BY <1>0, <1>1, <1>2, <1>3 DEF DependencyTypeInv
<1>5. StatusIsMerged'
  BY <1>0 DEF StatusIsMerged
<1>6. ImportsAreEvidence'
  BY <1>0 DEF ImportsAreEvidence, SourceEvidence
<1>7. ContextsAreRead'
  <2>1. ASSUME NEW v \in Workspaces, ReadWhole(v)
        PROVE  ReadWhole(v)'
    BY <1>0, <1>2, <2>1 DEF ReadWhole
  <2>2. ASSUME NEW v \in Workspaces
        PROVE  v \in ToSet(todo') \/ ReadWhole(v)'
    <3>1. CASE v \in ToSet(todo)
      <4>1. CASE v = w
        BY <1>0, <1>2, <4>1 DEF ReadWhole
      <4> QED
        BY <1>1, <3>1, <4>1
    <3>2. CASE v \notin ToSet(todo)
      BY <1>0, <2>1, <3>2 DEF ContextsAreRead
    <3> QED
      BY <3>1, <3>2
  <2> QED
    BY <1>0, <1>2, <2>2 DEF ContextsAreRead
<1>8. OwnersInstall'
  <2>1. \A b \in DOMAIN owners' : \E v \in Workspaces : Installs(v, owners'[b], b)
    BY <1>0, <1>1, OverwriteInstalls
  <2> QED
    BY <1>2, <2>1 DEF OwnersInstall
<1>9. ConclusionsRest'
  BY <1>0 DEF ConclusionsRest
<1> QED
  BY <1>4, <1>5, <1>6, <1>7, <1>8, <1>9 DEF DependencyInv

(* The outcomes: one of each declared package, one of each package that is  *)
(* used where it is not declared.                                          *)
DeclaredKind(items, blocking, w, p) ==
  DeclarationOutcome(project.declared[w][p],
                       \/ [workspace |-> w, package |-> p] \in NormalizeEvidence(items)
                       \/ p \in project.bundled[w],
                       w \in Stuck(items, blocking))

UndeclaredKind(e) ==
  IF e.workspace # Root /\ e.package \in Declared(Root) THEN "misplaced" ELSE "unlisted"

LEMMA OutcomesAre ==
  ASSUME NEW items, NEW blocking, NEW o
  PROVE  o \in AnalyzeDependencies(items, blocking) <=>
           \/ \E w \in Workspaces : \E p \in Declared(w) :
                o = Outcome(w, p, DeclaredKind(items, blocking, w, p))
           \/ \E e \in NormalizeEvidence(items) :
                /\ e.package \notin Declared(e.workspace)
                /\ o = Outcome(e.workspace, e.package, UndeclaredKind(e))
<1> DEFINE declared == UNION {{Outcome(w, p, DeclaredKind(items, blocking, w, p)) : p \in Declared(w)} :
                               w \in Workspaces}
           undeclared == {Outcome(e.workspace, e.package, UndeclaredKind(e)) :
                            e \in {n \in NormalizeEvidence(items) :
                                     n.package \notin Declared(n.workspace)}}
<1>1. AnalyzeDependencies(items, blocking) = declared \cup undeclared
  BY DEF AnalyzeDependencies, DeclaredKind, UndeclaredKind, Workspaces
<1>2. o \in declared <=> \E w \in Workspaces : \E p \in Declared(w) :
                            o = Outcome(w, p, DeclaredKind(items, blocking, w, p))
  OBVIOUS
<1>3. o \in undeclared <=> \E e \in NormalizeEvidence(items) :
                              /\ e.package \notin Declared(e.workspace)
                              /\ o = Outcome(e.workspace, e.package, UndeclaredKind(e))
  OBVIOUS
<1> HIDE DEF declared, undeclared
<1> QED
  BY <1>1, <1>2, <1>3

LEMMA OutcomeKinds ==
  ASSUME NEW items, NEW blocking, NEW o \in AnalyzeDependencies(items, blocking)
  PROVE  o.kind \in Unused \cup {"retained", "undetermined", "misplaced", "unlisted"}
<1>1. \A w, p : DeclaredKind(items, blocking, w, p) \in
        {"retained", "undetermined", "unreferencedPeer", "unreferencedOptional", "unused"}
  BY DEF DeclaredKind, DeclarationOutcome
<1>2. \A e : UndeclaredKind(e) \in {"misplaced", "unlisted"}
  BY DEF UndeclaredKind
<1>3. \A w, p, k : Outcome(w, p, k).kind = k
  BY DEF Outcome
<1> QED
  BY <1>1, <1>2, <1>3, OutcomesAre DEF Unused

LEMMA AnalyzeStep ==
  ASSUME DependencyInv, Analyze
  PROVE  DependencyInv'
<1>0. /\ DependencyTypeInv /\ DependencyTypeOK /\ StatusIsMerged /\ OwnersInstall /\ ConclusionsRest
      /\ ImportsAreEvidence /\ ContextsAreRead
      /\ phase = "collect" /\ phase' = "report" /\ todo = <<>>
      /\ project' = project /\ project \in Projects
      /\ UNCHANGED <<todo, status, owners, findings>>
      /\ evidence' = evidence \cup Configurations
      /\ blockers' = blockers \cup Blocked
      /\ outcomes' = AnalyzeDependencies(evidence', blockers')
  BY DEF Analyze, DependencyInv, DependencyTypeInv
<1>1. /\ Workspaces' = Workspaces
      /\ Blocked' = Blocked /\ Configurations' = Configurations
      /\ \A v : /\ ScriptEvidence(v)' = ScriptEvidence(v)
                /\ PluginEvidence(v)' = PluginEvidence(v)
      /\ \A v, p, b : Installs(v, p, b)' = Installs(v, p, b)
  BY <1>0, ProjectDecides
<1>2. DependencyTypeOK'
  <2>1. blockers' \subseteq Workspaces
    BY <1>0, WorkspaceSequence DEF DependencyTypeOK, Workspaces
  <2>2. \A o \in outcomes' : o.kind \in Unused \cup {"retained", "undetermined", "misplaced", "unlisted"}
    BY <1>0, OutcomeKinds
  <2> QED
    BY <1>0, <2>1, <2>2 DEF DependencyTypeOK, Workspaces, Unused
<1>3. DependencyTypeInv'
  BY <1>0, <1>2 DEF DependencyTypeInv
<1>4. StatusIsMerged'
  BY <1>0 DEF StatusIsMerged
<1>5. ImportsAreEvidence'
  BY <1>0 DEF ImportsAreEvidence, SourceEvidence
<1>6. ContextsAreRead'
  <2>1. ToSet(todo) = {}
    BY <1>0 DEF ToSet
  <2>2. ASSUME NEW v \in Workspaces PROVE ReadWhole(v)'
    BY <1>0, <1>1, <2>1 DEF ReadWhole, ContextsAreRead
  <2> QED
    BY <1>1, <2>2 DEF ContextsAreRead
<1>7. OwnersInstall'
  BY <1>0, <1>1 DEF OwnersInstall
<1>8. outcomes' = AnalyzeDependencies(evidence, blockers)'
  BY <1>0 DEF AnalyzeDependencies, NormalizeEvidence, Stuck, Unmapped, OwnerFor,
     Aliases, Declared
<1>9. ConclusionsRest'
  BY <1>0, <1>1, <1>8 DEF ConclusionsRest
<1> QED
  BY <1>3, <1>4, <1>5, <1>6, <1>7, <1>9 DEF DependencyInv

(* What was established before the report stays.                           *)
LEMMA ReportedStep ==
  ASSUME DependencyInv, phase = "report", phase' \in {"report", "done"},
         UNCHANGED <<project, todo, status, evidence, blockers, owners, outcomes>>,
         findings' = IF phase' = "done" THEN Reported ELSE findings
  PROVE  DependencyInv'
<1>0. /\ DependencyTypeInv /\ DependencyTypeOK /\ StatusIsMerged /\ OwnersInstall /\ ConclusionsRest
      /\ ImportsAreEvidence /\ ContextsAreRead
  BY DEF DependencyInv, DependencyTypeInv
<1>1. /\ Workspaces' = Workspaces
      /\ Blocked' = Blocked /\ Configurations' = Configurations
      /\ \A v : /\ ScriptEvidence(v)' = ScriptEvidence(v)
                /\ PluginEvidence(v)' = PluginEvidence(v)
                /\ Withheld(v)' = Withheld(v)
      /\ \A v, p, b : Installs(v, p, b)' = Installs(v, p, b)
  BY ProjectDecides
<1>2. \A f \in findings' : f.fix \in {"eligible", "previewOnly", "blocked"}
  BY <1>0 DEF DependencyTypeOK, Reported, DependencyFinding, FixEligibility
<1>3. DependencyTypeOK'
  BY <1>0, <1>2 DEF DependencyTypeOK, Workspaces, Unused
<1>4. DependencyTypeInv'
  BY <1>0, <1>3 DEF DependencyTypeInv
<1>5. StatusIsMerged' /\ ImportsAreEvidence' /\ OwnersInstall'
  BY <1>0, <1>1 DEF StatusIsMerged, ImportsAreEvidence, OwnersInstall, SourceEvidence
<1>6. ContextsAreRead'
  BY <1>0, <1>1 DEF ContextsAreRead, ReadWhole
<1>7. outcomes' = AnalyzeDependencies(evidence, blockers)'
  BY <1>0, OutcomesStay DEF ConclusionsRest
<1>8. Reported' = Reported
  BY <1>1 DEF Reported, DependencyFinding, FixEligibility
<1>9. ConclusionsRest'
  BY <1>0, <1>1, <1>7, <1>8 DEF ConclusionsRest
<1> QED
  BY <1>4, <1>5, <1>6, <1>9 DEF DependencyInv

LEMMA DependencyStep ==
  ASSUME DependencyInv, [DependencyNext]_(dependencyVars)
  PROVE  DependencyInv'
<1>1. CASE UNCHANGED dependencyVars
  <2>0. /\ DependencyTypeInv /\ DependencyTypeOK /\ StatusIsMerged /\ OwnersInstall /\ ConclusionsRest
        /\ ImportsAreEvidence /\ ContextsAreRead
        /\ UNCHANGED <<project, phase, todo, status, evidence, blockers, owners, outcomes, findings>>
    BY <1>1 DEF DependencyInv, DependencyTypeInv, dependencyVars
  <2>1. /\ Workspaces' = Workspaces
        /\ Blocked' = Blocked /\ Configurations' = Configurations
        /\ \A v : /\ ScriptEvidence(v)' = ScriptEvidence(v)
                  /\ PluginEvidence(v)' = PluginEvidence(v)
                  /\ Withheld(v)' = Withheld(v)
        /\ \A v, p, b : Installs(v, p, b)' = Installs(v, p, b)
    BY <2>0, ProjectDecides
  <2>2. DependencyTypeInv'
    BY <2>0, <2>1 DEF DependencyTypeInv, DependencyTypeOK, Unused
  <2>3. StatusIsMerged' /\ ImportsAreEvidence' /\ OwnersInstall'
    BY <2>0, <2>1 DEF StatusIsMerged, ImportsAreEvidence, OwnersInstall, SourceEvidence
  <2>4. ContextsAreRead'
    BY <2>0, <2>1 DEF ContextsAreRead, ReadWhole
  <2>5. AnalyzeDependencies(evidence, blockers)' = AnalyzeDependencies(evidence, blockers)
    BY <2>0, OutcomesStay
  <2>6. Reported' = Reported
    BY <2>0, <2>1 DEF Reported, DependencyFinding, FixEligibility
  <2>7. ConclusionsRest'
    BY <2>0, <2>1, <2>5, <2>6 DEF ConclusionsRest
  <2> QED
    BY <2>2, <2>3, <2>4, <2>7 DEF DependencyInv
<1>2. CASE Report
  <2>1. /\ phase = "report" /\ phase' = "done"
        /\ UNCHANGED <<project, todo, status, evidence, blockers, owners, outcomes>>
        /\ findings' = Reported
    BY <1>2 DEF Report, Reported
  <2> QED
    BY <2>1, ReportedStep
<1> QED
  BY <1>1, <1>2, ScanProfileStep, StartDependenciesStep, ReadContextStep, AnalyzeStep DEF DependencyNext

-----------------------------------------------------------------------------
(* What a finding rests on.                                                *)

LEMMA FindingsAre ==
  ASSUME DependencyInv, NEW f \in findings
  PROVE  /\ phase = "done"
         /\ \E o \in AnalyzeDependencies(evidence, blockers) :
              /\ f = DependencyFinding(o)
              /\ o.kind \notin {"retained", "undetermined"}
              /\ ~Withheld(o.workspace)
<1>1. phase = "done"
  BY DEF DependencyInv, ConclusionsRest
<1>2. findings = Reported /\ outcomes = AnalyzeDependencies(evidence, blockers)
  BY <1>1 DEF DependencyInv, ConclusionsRest
<1> QED
  BY <1>1, <1>2 DEF Reported

LEMMA UnusedRestsOn ==
  ASSUME DependencyInv, NEW f \in findings, f.kind \in Unused
  PROVE  /\ phase = "done"
         /\ f.workspace \in Workspaces
         /\ f.package \in Declared(f.workspace)
         /\ [workspace |-> f.workspace, package |-> f.package] \notin NormalizeEvidence(evidence)
         /\ f.workspace \notin Stuck(evidence, blockers)
         /\ ~Withheld(f.workspace)
         /\ f.kind = "unused" =>
              {"peer", "optional"} \cap project.declared[f.workspace][f.package] = {}
<1>1. PICK o \in AnalyzeDependencies(evidence, blockers) :
        f = DependencyFinding(o) /\ ~Withheld(o.workspace)
  BY FindingsAre
<1>2. f.workspace = o.workspace /\ f.package = o.package /\ f.kind = o.kind
  BY <1>1 DEF DependencyFinding
<1>3. \A w, p, k : LET q == Outcome(w, p, k) IN q.workspace = w /\ q.package = p /\ q.kind = k
  BY DEF Outcome
<1>4. \A e : UndeclaredKind(e) \notin Unused
  BY DEF UndeclaredKind, Unused
<1>5. PICK w \in Workspaces : \E p \in Declared(w) :
        o = Outcome(w, p, DeclaredKind(evidence, blockers, w, p))
  BY <1>2, <1>3, <1>4, OutcomesAre
<1>6. PICK p \in Declared(w) : o = Outcome(w, p, DeclaredKind(evidence, blockers, w, p))
  BY <1>5
<1>7. /\ f.workspace = w /\ f.package = p
      /\ DeclaredKind(evidence, blockers, w, p) = f.kind
  BY <1>2, <1>3, <1>6
<1>8. /\ [workspace |-> w, package |-> p] \notin NormalizeEvidence(evidence)
      /\ w \notin Stuck(evidence, blockers)
      /\ f.kind = "unused" => {"peer", "optional"} \cap project.declared[w][p] = {}
  BY <1>7 DEF DeclaredKind, DeclarationOutcome, Unused
<1> QED
  BY <1>1, <1>2, <1>7, <1>8, FindingsAre

(* The commands of a workspace nothing blocks are all modelled.            *)
LEMMA CommandsAreModeled ==
  ASSUME DependencyInv, phase = "done", NEW w \in Workspaces, w \notin blockers,
         NEW g \in Segments(project.scripts[w])
  PROVE  /\ g.spans = {} /\ g.command.wrapper # "opaque"
         /\ g.command.form # "concurrently"
         /\ \A r \in References(g.command) : r.kind # "File" =>
              Evidence(w, r.value, IF r.kind = "Binary" THEN "binary" ELSE "script") \in evidence
<1> DEFINE scripts == project.scripts[w]
<1>1. ReadWhole(w)
  BY DEF DependencyInv, ContextsAreRead
<1>2. AnalyzeScripts(scripts).unmodeled = {}
  BY <1>1 DEF ReadWhole
<1>3. AnalyzeScripts(scripts).unmodeled =
        (UNION {s.spans : s \in Segments(scripts)}) \cup UNION {Unmodeled(c) : c \in Modeled(scripts)}
  BY DEF AnalyzeScripts
<1>4. g.spans = {}
  BY <1>2, <1>3
<1>5. g.command \in Modeled(scripts)
  BY <1>4 DEF Modeled
<1>6. Unmodeled(g.command) = {}
  BY <1>2, <1>3, <1>5
<1>7. g.command.wrapper # "opaque" /\ g.command.form # "concurrently"
  BY <1>6 DEF Unmodeled
<1>8. References(g.command) \subseteq AnalyzeScripts(scripts).references
  BY <1>5 DEF AnalyzeScripts
<1>9. ScriptEvidence(w) \subseteq evidence
  BY <1>1 DEF ReadWhole
<1>10. ASSUME NEW r \in References(g.command), r.kind # "File"
       PROVE  Evidence(w, r.value, IF r.kind = "Binary" THEN "binary" ELSE "script") \in evidence
  BY <1>8, <1>9, <1>10 DEF ScriptEvidence
<1> QED
  BY <1>4, <1>7, <1>10

(* Evidence of a package is a use of it in its workspace.                  *)
LEMMA PackageEvidenceCounts ==
  ASSUME NEW w, NEW p, NEW kind, kind # "binary", Evidence(w, p, kind) \in evidence,
         IsPackage(p)
  PROVE  [workspace |-> w, package |-> p] \in NormalizeEvidence(evidence)
<1> DEFINE e == Evidence(w, p, kind)
<1>1. e.workspace = w /\ e.reference = p /\ e.kind = kind
  BY DEF Evidence
<1>2. e \in {i \in evidence : i.kind # "binary" /\ IsPackage(i.reference)}
  BY <1>1
<1> HIDE DEF e
<1> QED
  BY <1>1, <1>2 DEF NormalizeEvidence

(* So is evidence of a binary, of the package that alone owns it.          *)
LEMMA BinaryEvidenceCounts ==
  ASSUME DependencyInv, NEW w, NEW p, NEW b, Evidence(w, b, "binary") \in evidence,
         w \notin Stuck(evidence, blockers), OnlyOwner(w, p, b), p \in Declared(w)
  PROVE  [workspace |-> w, package |-> p] \in NormalizeEvidence(evidence)
<1> DEFINE e == Evidence(w, b, "binary")
           o == owners[b]
<1>1. e.workspace = w /\ e.reference = b /\ e.kind = "binary" /\ e \in evidence
  BY DEF Evidence
<1> HIDE DEF e
<1>2. e \notin Unmapped(evidence)
  BY <1>1 DEF Stuck
<1>3. b \in DOMAIN owners
  BY <1>1, <1>2 DEF Unmapped
<1>4. PICK v \in Workspaces : Installs(v, o, b)
  BY <1>3 DEF DependencyInv, OwnersInstall
<1>5. o = p \/ (Aliases(w, o) = {p} /\ o \notin Declared(w))
  BY <1>4 DEF Installs, Linked, OnlyOwner, Workspaces
<1>6. OwnerFor(w, o) = p
  <2>1. CASE o = p
    BY <2>1 DEF OwnerFor
  <2>2. CASE Aliases(w, o) = {p} /\ o \notin Declared(w)
    <3>1. Cardinality({p}) = 1
      BY FS_Singleton
    <3> QED
      BY <2>2, <3>1 DEF OwnerFor
  <2> QED
    BY <1>5, <2>1, <2>2
<1>7. [workspace |-> e.workspace, package |-> OwnerFor(e.workspace, owners[e.reference])]
        \in NormalizeEvidence(evidence)
  BY <1>1, <1>2 DEF NormalizeEvidence
<1> QED
  BY <1>1, <1>6, <1>7

(* What an import, a script, a plugin or a configuration names is evidence. *)
LEMMA ImportIsEvidence ==
  ASSUME DependencyInv, phase = "done", NEW w, NEW p, IsImported(w, p), IsPackage(p)
  PROVE  Evidence(w, p, "import") \in evidence
<1>1. PICK f \in DOMAIN project.files :
        /\ project.files[f].workspace = w
        /\ \E q \in ToSet(Profiles) : f \in project.reach[q]
        /\ \E i \in project.files[f].imports : i.package = p /\ ~Internal(i)
  BY DEF IsImported
<1>2. PICK i \in project.files[f].imports : i.package = p /\ ~Internal(i)
  BY <1>1
<1>3. status[f] = "reachable" /\ f \in DOMAIN status
  BY <1>1 DEF DependencyInv, DependencyTypeInv, DependencyTypeOK, StatusIsMerged
<1>4. Evidence(w, p, "import") \in SourceEvidence
  BY <1>1, <1>2, <1>3 DEF SourceEvidence
<1> QED
  BY <1>4 DEF DependencyInv, ImportsAreEvidence

LEMMA PluginNamesAreEvidence ==
  ASSUME DependencyInv, phase = "done", NEW w \in Workspaces, NEW r \in project.plugins[w]
  PROVE  Evidence(w, r.value, IF r.kind = "Binary" THEN "binary" ELSE "config") \in evidence
<1>1. PluginEvidence(w) \subseteq evidence
  BY DEF DependencyInv, ContextsAreRead, ReadWhole
<1> QED
  BY <1>1 DEF PluginEvidence

LEMMA ConfigurationNamesAreEvidence ==
  ASSUME DependencyInv, phase = "done", NEW w, NEW p, NamesInConfiguration(w, p)
  PROVE  Evidence(w, p, "config") \in evidence
<1>1. PICK c \in DOMAIN project.configs :
        /\ project.configs[c].workspace = w
        /\ \E d \in DOMAIN project.configs :
             d \in Inherited(c) /\ p \in project.configs[d].packages
  BY DEF NamesInConfiguration
<1>2. PICK d \in Inherited(c) : p \in project.configs[d].packages
  BY <1>1
<1>3. p \in UNION {project.configs[x].packages \cup project.configs[x].types : x \in Inherited(c)}
  BY <1>2
<1>4. Evidence(w, p, "config") \in Configurations
  BY <1>1, <1>3 DEF Configurations
<1> QED
  BY <1>4 DEF DependencyInv, ConclusionsRest

(* A workspace in which something is called unused is not blocked.         *)
LEMMA UnusedKeepsUses ==
  ASSUME DependencyInv, NEW f \in findings, f.kind \in Unused
  PROVE  /\ ~IsImported(f.workspace, f.package)
         /\ ~NamesPackage(f.workspace, f.package)
         /\ ~NamesInConfiguration(f.workspace, f.package)
         /\ ~NamesBinary(f.workspace, f.package)
<1> DEFINE w == f.workspace
           p == f.package
           use == [workspace |-> w, package |-> p]
<1>1. /\ phase = "done" /\ w \in Workspaces
      /\ p \in Declared(w)
      /\ use \notin NormalizeEvidence(evidence)
      /\ w \notin Stuck(evidence, blockers)
  BY UnusedRestsOn
<1>2. IsPackage(p) /\ w \notin blockers
  BY <1>1 DEF Declared, Stuck
<1>3. \A kind \in {"import", "script", "config"} : Evidence(w, p, kind) \notin evidence
  BY <1>1, <1>2, PackageEvidenceCounts
<1>4. \A b : OnlyOwner(w, p, b) => Evidence(w, b, "binary") \notin evidence
  BY <1>1, BinaryEvidenceCounts
<1>5. ASSUME NEW c \in Commands(w)
      PROVE  /\ c.wrapper # "opaque" /\ c.form # "concurrently"
             /\ \A r \in References(c) : r.kind # "File" =>
                  Evidence(w, r.value, IF r.kind = "Binary" THEN "binary" ELSE "script") \in evidence
  BY <1>1, <1>2, CommandsAreModeled DEF Commands
<1>6. \A kind, value : LET r == Reference(kind, value) IN r.kind = kind /\ r.value = value
  BY DEF Reference
<1> HIDE DEF w, p, use
<1>7. ~IsImported(w, p)
  BY <1>1, <1>2, <1>3, ImportIsEvidence
<1>8. ~NamesInConfiguration(w, p)
  BY <1>1, <1>3, ConfigurationNamesAreEvidence
<1>9. ASSUME NEW c \in Commands(w), c.form \in {"tool", "other", "exec", "concurrently"},
             OnlyOwner(w, p, c.word)
      PROVE  FALSE
  <2>1. Reference("Binary", c.word) \in References(c)
    BY <1>5, <1>9 DEF References, CommandReferences
  <2>2. Evidence(w, c.word, "binary") \in evidence
    BY <1>5, <1>6, <2>1
  <2> QED
    BY <1>4, <1>9, <2>2
<1>10. ~NamesBinary(w, p)
  BY <1>9 DEF NamesBinary
<1>11. ASSUME NEW c \in Commands(w)
       PROVE  /\ p \notin c.options \ LooksLikeFile
              /\ ~(c.form \in {"node", "inline"} /\ p \in c.preloads \ LooksLikeFile)
              /\ ~(c.form = "exec" /\ p \in c.packages)
  <2>1. Reference("Package", p) \notin References(c)
    BY <1>3, <1>5, <1>6
  <2>2. ASSUME p \in Loaders(c) \ LooksLikeFile
        PROVE  FALSE
    <3>1. LoaderReference(p) = Reference("Package", p)
      BY <2>2 DEF LoaderReference
    <3> QED
      BY <2>1, <2>2, <3>1 DEF References
  <2>3. ASSUME c.form = "exec", p \in c.packages
        PROVE  FALSE
    <3>1. Reference("Package", p) \in CommandReferences(c)
      BY <2>3 DEF CommandReferences
    <3> QED
      BY <1>5, <2>1, <3>1 DEF References
  <2> QED
    BY <1>5, <2>2, <2>3 DEF Loaders
<1>12. Reference("Package", p) \notin project.plugins[w]
  BY <1>1, <1>3, <1>6, PluginNamesAreEvidence
<1>13. \A b : OnlyOwner(w, p, b) => Reference("Binary", b) \notin project.plugins[w]
  BY <1>1, <1>4, <1>6, PluginNamesAreEvidence
<1>14. ~NamesPackage(w, p)
  BY <1>11, <1>12, <1>13 DEF NamesPackage
<1> QED
  BY <1>7, <1>8, <1>10, <1>14 DEF w, p

LEMMA EligibleRestsOn ==
  ASSUME DependencyInv, NEW f \in findings, f.fix = "eligible"
  PROVE  LET w == f.workspace IN
         /\ {w, Root} \cap project.gaps = {}
         /\ \A g \in Segments(project.scripts[w]) : g.spans = {} /\ g.command.wrapper # "opaque"
         /\ \A e \in evidence : e.workspace = w /\ e.kind = "binary" =>
              \E v \in ToSet(project.workspaces) : \E p \in Linked(v) :
                 e.reference \in Binaries(v, p)
         /\ {"peer", "optional"} \cap project.declared[w][f.package] = {}
<1> DEFINE w == f.workspace
<1>1. f.kind = "unused"
  BY FindingsAre DEF DependencyFinding, FixEligibility
<1>2. /\ phase = "done" /\ w \in Workspaces
      /\ w \notin Stuck(evidence, blockers)
      /\ ~Withheld(w)
      /\ {"peer", "optional"} \cap project.declared[w][f.package] = {}
  BY <1>1, UnusedRestsOn DEF Unused
<1> HIDE DEF w
<1>3. {w, Root} \cap project.gaps = {}
  BY <1>2 DEF Withheld, Blocked
<1>4. ASSUME NEW g \in Segments(project.scripts[w])
      PROVE  g.spans = {} /\ g.command.wrapper # "opaque"
  BY <1>2, CommandsAreModeled DEF Stuck
<1>5. ASSUME NEW e \in evidence, e.workspace = w, e.kind = "binary"
      PROVE  \E v \in Workspaces : \E p \in Linked(v) : e.reference \in Binaries(v, p)
  <2>1. e.reference \in DOMAIN owners
    BY <1>2, <1>5 DEF Stuck, Unmapped
  <2>2. PICK v \in Workspaces : Installs(v, owners[e.reference], e.reference)
    BY <2>1 DEF DependencyInv, OwnersInstall
  <2> QED
    BY <2>2 DEF Installs, Linked, Binaries
<1> QED
  BY <1>2, <1>3, <1>4, <1>5 DEF w, Workspaces

LEMMA ImportsAreReported ==
  ASSUME DependencyInv, phase = "done", NEW w, NEW p,
         IsImported(w, p), p \notin Declared(w), IsPackage(p), ~Withheld(w)
  PROVE  \E f \in findings :
           /\ f.workspace = w /\ f.package = p
           /\ f.kind = IF w # Root /\ p \in DOMAIN project.declared[Root]
                       THEN "misplaced" ELSE "unlisted"
<1> DEFINE e == [workspace |-> w, package |-> p]
           kind == UndeclaredKind(e)
           o == Outcome(w, p, kind)
<1>1. e \in NormalizeEvidence(evidence)
  BY ImportIsEvidence, PackageEvidenceCounts
<1>2. e.workspace = w /\ e.package = p
  OBVIOUS
<1>3. kind = IF w # Root /\ p \in DOMAIN project.declared[Root] THEN "misplaced" ELSE "unlisted"
  BY <1>2 DEF UndeclaredKind, Declared
<1>4. o.workspace = w /\ o.package = p /\ o.kind = kind
  BY DEF Outcome
<1> HIDE DEF e
<1>5. o = Outcome(e.workspace, e.package, UndeclaredKind(e))
  BY <1>2
<1> HIDE DEF o, kind
<1>6. o \in AnalyzeDependencies(evidence, blockers)
  BY <1>1, <1>2, <1>5, OutcomesAre
<1>7. kind \notin {"retained", "undetermined"}
  BY <1>3
<1>8. outcomes = AnalyzeDependencies(evidence, blockers) /\ findings = Reported
  BY DEF DependencyInv, ConclusionsRest
<1>9. DependencyFinding(o) \in findings
  BY <1>4, <1>6, <1>7, <1>8 DEF Reported
<1> QED
  BY <1>3, <1>4, <1>9 DEF DependencyFinding

-----------------------------------------------------------------------------

LEMMA DependencyInvariant == DependencySpec => []DependencyInv
<1>1. DependencyInit => DependencyInv
  BY DependencyInitially
<1>2. DependencyInv /\ [DependencyNext]_(dependencyVars) => DependencyInv'
  BY DependencyStep
<1> QED
  BY <1>1, <1>2, PTL DEF DependencySpec

(* What the phases of a dependency scan leave behind has the shape the     *)
(* next one reads; only workspaces of the project are ever blocked.        *)
THEOREM DependencyTypeCorrect == DependencySpec => []DependencyTypeOK
<1>1. DependencySpec => []DependencyInv
  BY DependencyInvariant
<1>2. DependencyInv => DependencyTypeOK
  BY DEF DependencyInv, DependencyTypeInv
<1> QED
  BY <1>1, <1>2, PTL

(* A package that its workspace uses is not reported unused there, however *)
(* it does (append_dependency_results, analyze_dependencies).              *)
THEOREM UsedPackagesAreKept ==
  DependencySpec => []UsedDependenciesAreKept
<1>1. DependencySpec => []DependencyInv
  BY DependencyInvariant
<1>2. DependencyInv => UsedDependenciesAreKept
  BY UnusedKeepsUses DEF UsedDependenciesAreKept, UnusedFindings
<1> QED
  BY <1>1, <1>2, PTL

(* A fix of a declaration is offered only where nothing of the evidence is *)
(* missing: every command modelled, every binary owned, no gap.            *)
THEOREM RemovalsRestOnWholeEvidence ==
  DependencySpec => []FixesRestOnWholeEvidence
<1>1. DependencySpec => []DependencyInv
  BY DependencyInvariant
<1>2. DependencyInv => FixesRestOnWholeEvidence
  BY EligibleRestsOn DEF FixesRestOnWholeEvidence
<1> QED
  BY <1>1, <1>2, PTL

(* An import of a package that its workspace does not declare is reported  *)
(* unless a diagnostic withholds it, as misplaced exactly where the root   *)
(* declares it.                                                            *)
THEOREM UndeclaredImportsAreReported ==
  DependencySpec => []MissingDeclarationsAreReported
<1>1. DependencySpec => []DependencyInv
  BY DependencyInvariant
<1>2. DependencyInv => MissingDeclarationsAreReported
  BY ImportsAreReported DEF MissingDeclarationsAreReported
<1> QED
  BY <1>1, <1>2, PTL
==============================================================================
