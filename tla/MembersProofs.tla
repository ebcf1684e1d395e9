--------------------------- MODULE MembersProofs ----------------------------
(***************************************************************************)
(* Deep mode only adds findings, for every project: the rules look at deep *)
(* evidence after a faster mode has given up (a lemma about one candidate  *)
(* and any evidence), and the loop over the profiles decides again only    *)
(* what it deferred.                                                       *)
(*                                                                         *)
(* And every verdict is the one the profile's own reachable files call     *)
(* for, although evidence is collected once for all profiles: from this,   *)
(* the rules and what the oracle is asked for it follows which members are *)
(* kept and which are found.                                               *)
(***************************************************************************)
EXTENDS Members, FiniteSetTheorems, TLAPS

Verdicts == {"finding", "retained", "deferred"}

(* What a member is owed: a finding of a faster mode stands.               *)
FasterFinding(q, m) ==
  /\ File(m) \in Reached(q)
  /\ Mode(m) = "deep"
  /\ \E mode \in {"fast", "balanced"} :
       AnalyzeMember(mode, Facts(m, IsOpen(File(m))), NotRequested) = "finding"

Stands(q) == \A m \in Member : FasterFinding(q, m) => report[q][m] = "finding"

Placed ==
  /\ project \in Projects
  /\ next \in 1..(Len(Profiles) + 1)
  /\ pc \in {"scan", "collect", "apply", "done"}
  /\ pc \in {"collect", "apply"} => next <= Len(Profiles)

IInv ==
  /\ Placed
  /\ TypeOK
  /\ \A q \in Decided : Stands(q)
  /\ pc \in {"collect", "apply"} => Stands(Profile)

-----------------------------------------------------------------------------
(* A finding of a faster mode is one of deep mode, whatever the evidence:  *)
(* neither reads any where the faster mode has an answer.                  *)
THEOREM DeepOnlyAdds ==
  ASSUME NEW c, NEW deep, NEW other, NEW mode \in {"fast", "balanced"},
         c.visibility \in Visibilities,
         AnalyzeMember(mode, c, other) = "finding"
  PROVE  AnalyzeMember("deep", c, deep) = "finding"
BY DEF AnalyzeMember, AnalyzeVisible, AnalyzeTypeScriptPrivate, Deepened, Visibilities

LEMMA VerdictType ==
  ASSUME NEW c, NEW deep, NEW mode, c.visibility \in Visibilities
  PROVE  AnalyzeMember(mode, c, deep) \in Verdicts
BY DEF AnalyzeMember, AnalyzeVisible, AnalyzeTypeScriptPrivate, Deepened, Visibilities, Verdicts

LEMMA FactsVisibility ==
  ASSUME project \in Projects, NEW m \in Member, NEW open
  PROVE  Facts(m, open).visibility \in Visibilities
BY MembersAssumption DEF Facts, CandidateOf, Member

LEMMA DecideType ==
  ASSUME project \in Projects, NEW m \in Member, NEW open, NEW deep
  PROVE  Decide(m, open, deep) \in Verdicts
BY FactsVisibility, VerdictType DEF Decide

LEMMA ProfileInSet ==
  ASSUME next \in 1..Len(Profiles)
  PROVE  Profile \in ToSet(Profiles)
BY MembersAssumption DEF Profile, ToSet

LEMMA AnswerType ==
  ASSUME project \in Projects, NEW m
  PROVE  /\ Answer(m).state \in {"unavailable", "resolved"}
         /\ Answer(m).references \subseteq project.files
<1>1. project.program \subseteq project.files
  BY MembersAssumption
<1> QED
  BY <1>1 DEF Answer, References, Missing, NoEvidence

-----------------------------------------------------------------------------
(* The loop                                                                *)

LEMMA InitInv == Init => IInv
<1> SUFFICES ASSUME Init PROVE IInv
  OBVIOUS
<1>1. Placed
  BY MembersAssumption DEF Init, Placed
<1>2. TypeOK
  <2>1. \A m \in Member : /\ raw[m].state \in {"none", "unavailable", "resolved"}
                          /\ raw[m].references \subseteq project.files
    BY DEF Init, NoEvidence
  <2>2. report \in [ToSet(Profiles) ->
                    [Member -> {"undecided", "unreached", "finding", "retained", "deferred"}]]
    BY DEF Init
  <2> QED
    BY <1>1, <2>1, <2>2 DEF Init, TypeOK, Placed
<1>3. Decided = {}
  BY DEF Init, Decided
<1> QED
  BY <1>1, <1>2, <1>3 DEF IInv, Init

(* The project does not change, and what is said of its members neither.   *)
LEMMA SameFacts ==
  ASSUME project' = project
  PROVE  /\ Member' = Member
         /\ \A m : File(m)' = File(m) /\ Mode(m)' = Mode(m)
         /\ \A q : Reached(q)' = Reached(q)
         /\ \A q, m : FasterFinding(q, m)' = FasterFinding(q, m)
BY DEF Member, File, Class, Mode, Reached, FasterFinding, Facts, Occurrences, SameName, IsOpen

LEMMA ScanInv == IInv /\ Scan => IInv'
<1> SUFFICES ASSUME IInv, Scan PROVE IInv'
  OBVIOUS
<1> USE DEF IInv
<1>1. project' = project /\ next' = next /\ raw' = raw /\ failed' = failed /\ pc' = "collect"
  BY DEF Scan
<1>2. /\ next \in 1..Len(Profiles)
      /\ Profile \in ToSet(Profiles)
  BY MembersAssumption, ProfileInSet DEF Scan, Placed
<1>3. Placed'
  BY <1>1, <1>2 DEF Placed
<1>4. \A m \in Member :
        report'[Profile][m] =
          IF File(m) \notin Reached(Profile) THEN "unreached"
          ELSE Decide(m, IsOpen(File(m)), IF Mode(m) = "deep" THEN Unavailable ELSE NotRequested)
  BY <1>2 DEF Scan, TypeOK
<1>5. /\ report' \in [ToSet(Profiles) ->
                       [Member -> {"undecided", "unreached", "finding", "retained", "deferred"}]]
      /\ \A q \in ToSet(Profiles) : q # Profile => report'[q] = report[q]
  <2>1. \A m \in Member : \A deep : Decide(m, IsOpen(File(m)), deep) \in Verdicts
    BY DecideType DEF Placed
  <2> QED
    BY <2>1, <1>2 DEF Scan, TypeOK, Verdicts
<1>6. TypeOK'
  BY <1>1, <1>3, <1>5, SameFacts DEF TypeOK, Placed
<1>7. ASSUME NEW m \in Member, FasterFinding(Profile, m)
      PROVE  report'[Profile][m] = "finding"
  <2>1. Facts(m, IsOpen(File(m))).visibility \in Visibilities
    BY FactsVisibility DEF Placed
  <2>2. AnalyzeMember("deep", Facts(m, IsOpen(File(m))), Unavailable) = "finding"
    BY <1>7, <2>1, DeepOnlyAdds DEF FasterFinding
  <2> QED
    BY <1>4, <1>7, <2>2 DEF FasterFinding, Decide
<1>8. Profile' = Profile /\ Decided' = Decided
  BY <1>1 DEF Profile, Decided
<1>9. Stands(Profile)'
  BY <1>1, <1>7, <1>8, SameFacts DEF Stands
<1>10. \A q \in Decided : Stands(q)'
  <2> SUFFICES ASSUME NEW q \in Decided PROVE Stands(q)'
    OBVIOUS
  <2>1. CASE q = Profile
    BY <2>1, <1>1, <1>7, SameFacts DEF Stands
  <2>2. CASE q # Profile
    <3>1. q \in ToSet(Profiles)
      BY MembersAssumption, <1>2 DEF Decided, ToSet
    <3> QED
      BY <2>2, <3>1, <1>1, <1>5, SameFacts DEF Stands
  <2> QED
    BY <2>1, <2>2
<1> QED
  BY <1>3, <1>6, <1>8, <1>9, <1>10

LEMMA CollectInv == IInv /\ (Collect \/ CollectNothing) => IInv'
<1> SUFFICES ASSUME IInv, Collect \/ CollectNothing PROVE IInv'
  OBVIOUS
<1> USE DEF IInv
<1>1. project' = project /\ next' = next /\ report' = report /\ pc' = "apply" /\ pc = "collect"
  BY DEF Collect, CollectNothing
<1>2. Placed'
  BY <1>1 DEF Placed
<1>3. \A m \in Member : /\ raw'[m].state \in {"none", "unavailable", "resolved"}
                        /\ raw'[m].references \subseteq project.files
  <2>1. CASE Collect
    <3>1. PICK answered \in {{}, Uncached} :
            raw' = [m \in Member |-> IF m \notin Uncached THEN raw[m]
                                     ELSE IF m \in answered THEN Answer(m) ELSE Missing]
      BY <2>1 DEF Collect
    <3> QED
      BY <3>1, AnswerType DEF TypeOK, Placed, Missing, NoEvidence
  <2>2. CASE CollectNothing
    BY <2>2 DEF CollectNothing, TypeOK
  <2> QED
    BY <2>1, <2>2
<1>4. failed' \in BOOLEAN
  <2>1. CASE Collect
    <3>1. PICK answered \in {{}, Uncached} : failed' = (failed \/ answered # Uncached)
      BY <2>1 DEF Collect
    <3> QED
      BY <3>1
  <2>2. CASE CollectNothing
    BY <2>2 DEF CollectNothing, TypeOK
  <2> QED
    BY <2>1, <2>2
<1>5. TypeOK'
  BY <1>1, <1>2, <1>3, <1>4, SameFacts DEF TypeOK, Placed
<1>6. Profile' = Profile /\ Decided' = Decided
  BY <1>1 DEF Profile, Decided
<1>7. \A q : Stands(q)' = Stands(q)
  BY <1>1, SameFacts DEF Stands
<1> QED
  BY <1>1, <1>2, <1>5, <1>6, <1>7

LEMMA ApplyInv == IInv /\ Apply => IInv'
<1> SUFFICES ASSUME IInv, Apply PROVE IInv'
  OBVIOUS
<1> USE DEF IInv
<1>1. /\ project' = project /\ raw' = raw /\ failed' = failed
      /\ next' = next + 1 /\ pc = "apply"
      /\ pc' = IF next < Len(Profiles) THEN "scan" ELSE "done"
  BY DEF Apply
<1>2. /\ next \in 1..Len(Profiles)
      /\ Profile \in ToSet(Profiles)
  BY <1>1, MembersAssumption, ProfileInSet DEF Placed
<1>3. Placed'
  BY <1>1, <1>2, MembersAssumption DEF Placed
<1>4. \A m \in Member :
        report'[Profile][m] = IF m \in Candidates /\ raw[m].state # "none"
                              THEN Decide(m, FALSE, Resolve(m)) ELSE report[Profile][m]
  BY <1>2 DEF Apply, TypeOK
<1>5. /\ report' \in [ToSet(Profiles) ->
                       [Member -> {"undecided", "unreached", "finding", "retained", "deferred"}]]
      /\ \A q \in ToSet(Profiles) : q # Profile => report'[q] = report[q]
  <2>1. \A m \in Member : Decide(m, FALSE, Resolve(m)) \in Verdicts
    BY DecideType DEF Placed
  <2> QED
    BY <2>1, <1>2 DEF Apply, TypeOK, Verdicts
<1>6. TypeOK'
  BY <1>1, <1>3, <1>5, SameFacts DEF TypeOK, Placed
<1>7. \A m \in Member : report[Profile][m] = "finding" => report'[Profile][m] = "finding"
  BY <1>4 DEF Candidates
<1>8. Decided' \subseteq Decided \cup {Profile}
  BY <1>1, <1>2 DEF Decided, Profile
<1>9. \A q \in Decided \cup {Profile} : Stands(q)'
  <2> SUFFICES ASSUME NEW q \in Decided \cup {Profile} PROVE Stands(q)'
    OBVIOUS
  <2>1. Stands(q)
    BY <1>1
  <2>2. q \in ToSet(Profiles)
    BY MembersAssumption, <1>2 DEF Decided, ToSet
  <2>3. \A m \in Member : report[q][m] = "finding" => report'[q][m] = "finding"
    BY <2>2, <1>5, <1>7
  <2> QED
    BY <2>1, <2>3, <1>1, SameFacts DEF Stands
<1> QED
  BY <1>1, <1>3, <1>6, <1>8, <1>9

LEMMA StutterInv == IInv /\ UNCHANGED vars => IInv'
BY SameFacts DEF IInv, vars, Placed, TypeOK, Decided, Stands, Profile

LEMMA NextInv == IInv /\ [Next]_vars => IInv'
BY ScanInv, CollectInv, ApplyInv, StutterInv DEF Next

THEOREM Safety == Spec => []IInv
<1> QED
  BY InitInv, NextInv, PTL DEF Spec

(* The variables have their types, for every project and list of profiles. *)
THEOREM TypeCorrect == Spec => []TypeOK
<1>1. IInv => TypeOK
  BY DEF IInv
<1> QED
  BY <1>1, Safety, PTL

(* A finding a faster mode makes is in deep mode's report of every profile *)
(* decided, whatever the worker answers and whenever it fails.             *)
THEOREM FasterFindings == Spec => []FasterFindingsStand
<1>1. IInv => FasterFindingsStand
  BY DEF IInv, Stands, FasterFinding, FasterFindingsStand
<1> QED
  BY <1>1, Safety, PTL
-----------------------------------------------------------------------------
(* What a profile makes of a member, from the evidence there is and from   *)
(* the files this profile reaches.                                         *)

LiveIn(q, override) ==
  \/ ~override.declared
  \/ override.references \cap Reached(q) # {}
  \/ override.exported /\ OpenContract(override.owner)

Weighed(q, m) ==
  IF raw[m].state = "resolved"
  THEN [state    |-> "resolved",
        receiver |-> raw[m].references \cap Reached(q) # {},
        contract |-> \E override \in raw[m].overrides : LiveIn(q, override)]
  ELSE Unavailable

(* The verdict without evidence, whether it leaves the member to be asked  *)
(* about, and the verdict in the end.                                      *)
First(q, m) ==
  IF File(m) \notin Reached(q) THEN "unreached"
  ELSE Decide(m, IsOpen(File(m)), IF Mode(m) = "deep" THEN Unavailable ELSE NotRequested)

Asked(q, m) == First(q, m) = "deferred" /\ Mode(m) = "deep"

Final(q, m) == IF Asked(q, m) THEN Decide(m, FALSE, Weighed(q, m)) ELSE First(q, m)

HasEvidence(q) == \A m \in Member : Asked(q, m) => raw[m].state # "none"

EvidenceIsTheWorkers == \A m \in Member : raw[m] \in {NoEvidence, Missing, Answer(m)}

VerdictsAreFinal ==
  \A q \in Decided : HasEvidence(q) /\ \A m \in Member : report[q][m] = Final(q, m)

WInv ==
  /\ EvidenceIsTheWorkers
  /\ VerdictsAreFinal
  /\ pc \in {"collect", "apply"} => \A m \in Member : report[Profile][m] = First(Profile, m)
  /\ pc = "apply" => HasEvidence(Profile)

(* The project fixes what a profile makes of a member, but for the         *)
(* evidence.                                                               *)
LEMMA SameVerdicts ==
  ASSUME project' = project
  PROVE  /\ \A q, m : First(q, m)' = First(q, m) /\ Asked(q, m)' = Asked(q, m)
         /\ \A m : Answer(m)' = Answer(m)
         /\ \A q, m : raw'[m] = raw[m] => /\ Weighed(q, m)' = Weighed(q, m)
                                          /\ Final(q, m)' = Final(q, m)
<1>1. \A m : File(m)' = File(m) /\ Mode(m)' = Mode(m)
  BY SameFacts
<1>2. \A q : Reached(q)' = Reached(q)
  BY SameFacts
<1>3. \A m, open : Facts(m, open)' = Facts(m, open)
  BY <1>1 DEF Facts, Occurrences, SameName, Member, File, Class
<1>4. \A q, m : First(q, m)' = First(q, m)
  BY <1>1, <1>2, <1>3 DEF First, Decide, IsOpen
<1>5. \A q, m : Asked(q, m)' = Asked(q, m)
  BY <1>1, <1>4 DEF Asked
<1>6. \A m : Answer(m)' = Answer(m)
  BY <1>1 DEF Answer, References, Uses, Overrides, Class, File
<1>7. ASSUME NEW q, NEW m, raw'[m] = raw[m]
      PROVE  Weighed(q, m)' = Weighed(q, m)
  BY <1>7, <1>2 DEF Weighed, LiveIn, OpenContract
<1>8. ASSUME NEW q, NEW m, raw'[m] = raw[m]
      PROVE  Final(q, m)' = Final(q, m)
  BY <1>7, <1>8, <1>3, <1>1, <1>4, <1>5 DEF Final, Decide
<1> QED
  BY <1>4, <1>5, <1>6, <1>7, <1>8

LEMMA WInit == Init => WInv
BY DEF Init, WInv, EvidenceIsTheWorkers, VerdictsAreFinal, Decided

LEMMA EachProfileOnce ==
  ASSUME next \in 1..Len(Profiles)
  PROVE  /\ Profile \notin Decided
         /\ Decided \subseteq ToSet(Profiles)
<1>1. ASSUME NEW i \in 1..(next - 1)
      PROVE  i \in DOMAIN Profiles /\ Profiles[i] # Profiles[next]
  BY MembersAssumption
<1>2. \A i \in DOMAIN Profiles : Profiles[i] \in ToSet(Profiles)
  BY DEF ToSet
<1> QED
  BY <1>1, <1>2 DEF Decided, Profile

LEMMA WScan == IInv /\ WInv /\ Scan => WInv'
<1> SUFFICES ASSUME IInv, WInv, Scan PROVE WInv'
  OBVIOUS
<1>1. project' = project /\ next' = next /\ raw' = raw /\ pc' = "collect"
  BY DEF Scan
<1>2. /\ next \in 1..Len(Profiles)
      /\ Profile \in ToSet(Profiles)
  BY MembersAssumption, ProfileInSet DEF Scan, IInv, Placed
<1>3. \A m \in Member : report'[Profile][m] = First(Profile, m)
  BY <1>2 DEF Scan, IInv, TypeOK, First
<1>4. \A q \in Decided : report'[q] = report[q]
  BY <1>2, EachProfileOnce DEF Scan, IInv, TypeOK
<1>5. Profile' = Profile /\ Decided' = Decided /\ Member' = Member
  BY <1>1 DEF Profile, Decided, Member
<1>6. EvidenceIsTheWorkers'
  BY <1>1, <1>5, SameVerdicts DEF WInv, EvidenceIsTheWorkers
<1>7. VerdictsAreFinal'
  BY <1>1, <1>4, <1>5, SameVerdicts DEF WInv, VerdictsAreFinal, HasEvidence
<1>8. \A m \in Member : First(Profile, m)' = First(Profile, m)
  BY <1>1, <1>5, SameVerdicts
<1> QED
  BY <1>1, <1>3, <1>5, <1>6, <1>7, <1>8, SameVerdicts DEF WInv

(* Evidence is only ever added, and a verdict in need of it has it.        *)
LEMMA EvidenceStays ==
  ASSUME IInv, WInv, Collect \/ CollectNothing
  PROVE  /\ \A m \in Member : raw[m].state # "none" => raw'[m] = raw[m]
         /\ \A m \in Member : raw'[m] \in {NoEvidence, Missing, Answer(m)}
         /\ HasEvidence(Profile)'
<1>1. /\ project' = project /\ next' = next /\ pc = "collect"
      /\ Member' = Member /\ Profile' = Profile
  BY DEF Collect, CollectNothing, Member, Profile
<1>2. \A m \in Member : Asked(Profile, m) => m \in Candidates
  BY <1>1 DEF WInv, Asked, Candidates
<1>3. \A m \in Member : Asked(Profile, m)' = Asked(Profile, m)
  BY <1>1, SameVerdicts
<1>4. CASE Collect
  <2>1. PICK answered \in {{}, Uncached} :
          raw' = [m \in Member |-> IF m \notin Uncached THEN raw[m]
                                   ELSE IF m \in answered THEN Answer(m) ELSE Missing]
    BY <1>4 DEF Collect
  <2>2. \A m \in Member : m \in Uncached => raw'[m] \in {Missing, Answer(m)}
    BY <2>1
  <2>3. \A m \in Member : m \notin Uncached => raw'[m] = raw[m]
    BY <2>1
  <2>4. \A m \in Uncached : raw[m].state = "none"
    BY DEF Uncached
  <2>5. \A m : Missing.state # "none" /\ Answer(m).state # "none"
    BY DEF Missing, NoEvidence, Answer
  <2>6. \A m \in Member : m \in Candidates => raw'[m].state # "none"
    BY <2>2, <2>3, <2>5 DEF Uncached
  <2> QED
    BY <2>2, <2>3, <2>4, <2>6, <1>1, <1>2, <1>3 DEF WInv, EvidenceIsTheWorkers, HasEvidence
<1>5. CASE CollectNothing
  <2>1. raw' = raw /\ \A m \in Candidates : raw[m].state # "none"
    BY <1>5 DEF CollectNothing, Uncached
  <2> QED
    BY <2>1, <1>1, <1>2, <1>3 DEF WInv, EvidenceIsTheWorkers, HasEvidence
<1> QED
  BY <1>4, <1>5

LEMMA WCollect == IInv /\ WInv /\ (Collect \/ CollectNothing) => WInv'
<1> SUFFICES ASSUME IInv, WInv, Collect \/ CollectNothing PROVE WInv'
  OBVIOUS
<1>1. project' = project /\ next' = next /\ report' = report /\ pc' = "apply" /\ pc = "collect"
  BY DEF Collect, CollectNothing
<1>2. Profile' = Profile /\ Decided' = Decided /\ Member' = Member
  BY <1>1 DEF Profile, Decided, Member
<1>3. EvidenceIsTheWorkers'
  BY <1>1, <1>2, SameVerdicts, EvidenceStays DEF EvidenceIsTheWorkers
<1>4. \A q \in Decided : HasEvidence(q)'
  BY <1>1, <1>2, SameVerdicts, EvidenceStays DEF WInv, VerdictsAreFinal, HasEvidence
<1>5. ASSUME NEW q \in Decided, NEW m \in Member
      PROVE  Final(q, m)' = report[q][m]
  <2>1. Final(q, m) = report[q][m] /\ (Asked(q, m) => raw[m].state # "none")
    BY DEF WInv, VerdictsAreFinal, HasEvidence
  <2>2. CASE Asked(q, m)
    BY <2>1, <2>2, <1>1, SameVerdicts, EvidenceStays
  <2>3. CASE ~Asked(q, m)
    BY <2>1, <2>3, <1>1, SameVerdicts DEF Final
  <2> QED
    BY <2>2, <2>3
<1>6. VerdictsAreFinal'
  BY <1>1, <1>2, <1>4, <1>5 DEF VerdictsAreFinal
<1> QED
  BY <1>1, <1>2, <1>3, <1>6, SameVerdicts, EvidenceStays DEF WInv

LEMMA WApply == IInv /\ WInv /\ Apply => WInv'
<1> SUFFICES ASSUME IInv, WInv, Apply PROVE WInv'
  OBVIOUS
<1>1. /\ project' = project /\ raw' = raw /\ next' = next + 1 /\ pc = "apply"
      /\ pc' \in {"scan", "done"}
  BY DEF Apply
<1>2. /\ next \in 1..Len(Profiles)
      /\ Profile \in ToSet(Profiles)
  BY <1>1, MembersAssumption, ProfileInSet DEF IInv, Placed
<1>3. \A m \in Member :
        report'[Profile][m] = IF m \in Candidates /\ raw[m].state # "none"
                              THEN Decide(m, FALSE, Resolve(m)) ELSE report[Profile][m]
  BY <1>2 DEF Apply, IInv, TypeOK
<1>4. \A q \in Decided : report'[q] = report[q]
  BY <1>2, EachProfileOnce DEF Apply, IInv, TypeOK
<1>5. Decided' = Decided \cup {Profile} /\ Member' = Member
  BY <1>1, <1>2 DEF Decided, Profile, Member
<1>6. \A m : Resolve(m) = Weighed(Profile, m)
  BY DEF Resolve, Weighed, Live, LiveIn
<1>7. ASSUME NEW m \in Member
      PROVE  report'[Profile][m] = Final(Profile, m)
  <2>1. report[Profile][m] = First(Profile, m) /\ (Asked(Profile, m) => raw[m].state # "none")
    BY <1>1 DEF WInv, HasEvidence
  <2>2. m \in Candidates <=> Asked(Profile, m)
    BY <2>1 DEF Candidates, Asked
  <2> QED
    BY <2>1, <2>2, <1>3, <1>6 DEF Final
<1>8. \A q \in Decided \cup {Profile} : \A m \in Member :
        report'[q][m] = Final(q, m) /\ (Asked(q, m) => raw[m].state # "none")
  BY <1>1, <1>4, <1>7 DEF WInv, VerdictsAreFinal, HasEvidence
<1>9. VerdictsAreFinal'
  BY <1>1, <1>5, <1>8, SameVerdicts DEF VerdictsAreFinal, HasEvidence
<1>10. EvidenceIsTheWorkers'
  BY <1>1, <1>5, SameVerdicts DEF WInv, EvidenceIsTheWorkers
<1> QED
  BY <1>1, <1>9, <1>10 DEF WInv

LEMMA WStutter == WInv /\ UNCHANGED vars => WInv'
<1> SUFFICES ASSUME WInv, UNCHANGED vars PROVE WInv'
  OBVIOUS
<1>1. project' = project /\ raw' = raw /\ next' = next /\ pc' = pc /\ report' = report
  BY DEF vars
<1>2. Decided' = Decided /\ Member' = Member /\ Profile' = Profile
  BY <1>1 DEF Decided, Member, Profile
<1>3. \A q : HasEvidence(q)' = HasEvidence(q)
  BY <1>1, <1>2, SameVerdicts DEF HasEvidence
<1>4. EvidenceIsTheWorkers' /\ VerdictsAreFinal'
  BY <1>1, <1>2, <1>3, SameVerdicts DEF WInv, EvidenceIsTheWorkers, VerdictsAreFinal
<1> QED
  BY <1>1, <1>2, <1>3, <1>4, SameVerdicts DEF WInv

(* Once a profile is decided, its verdicts are those its own reachable     *)
(* files call for with the evidence there is, and stay so.                 *)
THEOREM Weighing == Spec => []WInv
<1>1. IInv /\ WInv /\ [Next]_vars => WInv'
  BY WScan, WCollect, WApply, WStutter DEF Next
<1> QED
  BY <1>1, WInit, Safety, PTL DEF Spec

-----------------------------------------------------------------------------
(* What a verdict rests on.                                                *)

(* A use of a member, or of one it overrides, in the class's own file is   *)
(* one of at least two occurrences of its name there.                      *)
LEMMA UsesInTheFileCount ==
  ASSUME project \in Projects, NEW m \in Member, NEW u \in project.uses, NEW open,
         u.file = File(m), u.member \in {m} \cup project.members[m].over
  PROVE  Referenced(Facts(m, open))
<1> DEFINE Own  == {n \in SameName(m) : File(n) = File(m)}
           Here == {v \in project.uses : v.file = File(m) /\ v.member \in SameName(m)}
<1>1. IsFiniteSet(Member) /\ IsFiniteSet(project.uses)
  BY MembersAssumption DEF Member
<1>2. IsFiniteSet(Own) /\ IsFiniteSet(Here)
  BY <1>1, FS_Subset DEF SameName
<1>3. u.member \in SameName(m)
  BY HierarchyAssumption DEF SameName, Member
<1>4. m \in Own /\ u \in Here
  BY <1>3 DEF SameName
<1>5. Cardinality(Own) \in Nat \ {0} /\ Cardinality(Here) \in Nat \ {0}
  BY <1>2, <1>4, FS_CardinalityType, FS_EmptySet
<1>6. Occurrences(m) = Cardinality(Own) + Cardinality(Here)
  BY DEF Occurrences
<1>7. Occurrences(m) > 1
  BY <1>5, <1>6
<1> QED
  BY <1>7 DEF Referenced, Facts, CandidateOf

(* A finding on an instance member others may call needs deep mode and     *)
(* evidence that nobody does.                                              *)
LEMMA FindingNeedsEvidence ==
  ASSUME NEW c, NEW deep, NEW mode, c.visibility \in {"protected", "public"}, ~c.static,
         AnalyzeMember(mode, c, deep) = "finding"
  PROVE  /\ ~Referenced(c) /\ ~Surfaces(c)
         /\ mode = "deep" /\ deep.state = "resolved" /\ ~deep.receiver
         /\ OverrideIncomplete(c) => ~deep.contract
BY DEF AnalyzeMember, AnalyzeVisible, Deepened, ReceiverIncomplete

LEMMA DeferredIsQuiet ==
  ASSUME NEW c, NEW deep, NEW mode, c.visibility \in Visibilities,
         AnalyzeMember(mode, c, deep) = "deferred", mode # "fast"
  PROVE  ~Surfaces(c)
BY DEF AnalyzeMember, AnalyzeVisible, AnalyzeTypeScriptPrivate, Visibilities, Deepened

LEMMA ReportedIsUnreferenced ==
  ASSUME NEW c, NEW deep, NEW mode, AnalyzeMember(mode, c, deep) = "finding"
  PROVE  ~Referenced(c)
BY DEF AnalyzeMember

(* The facts of a member that its visibility and hierarchy decide.         *)
LEMMA FactsOf ==
  ASSUME NEW m, NEW open
  PROVE  /\ Facts(m, open).visibility = project.members[m].visibility
         /\ Facts(m, open).static = project.members[m].static
         /\ Facts(m, open).open = open
         /\ Facts(m, open).exported = (Class(m).exported \/ ~Class(m).named)
         /\ Facts(m, open).inherits = (Class(m).extends \/ Class(m).implements)
         /\ Referenced(Facts(m, open)) = Referenced(Facts(m, FALSE))
         /\ ReceiverIncomplete(Facts(m, open)) = ReceiverIncomplete(Facts(m, FALSE))
BY DEF Facts, CandidateOf, Referenced, ReceiverIncomplete

(* What a finding on such a member in a decided profile tells.             *)
LEMMA FindingIsWeighed ==
  ASSUME IInv, WInv, NEW q \in Decided, NEW m \in Member, report[q][m] = "finding",
         project.members[m].visibility \in {"protected", "public"},
         ~project.members[m].static
  PROVE  /\ ~Surfaces(Facts(m, IsOpen(File(m))))
         /\ raw[m] = Answer(m) /\ Answer(m).state = "resolved"
         /\ References(m) \cap Reached(q) = {}
         /\ Class(m).extends => \A override \in Overrides(m) : ~LiveIn(q, override)
<1> DEFINE c(open) == Facts(m, open)
           without == IF Mode(m) = "deep" THEN Unavailable ELSE NotRequested
<1>1. report[q][m] = Final(q, m) /\ raw[m] \in {NoEvidence, Missing, Answer(m)}
  BY DEF WInv, VerdictsAreFinal, EvidenceIsTheWorkers
<1>2. \A open : c(open).visibility \in {"protected", "public"} /\ ~c(open).static
                /\ c(open).visibility \in Visibilities
                /\ OverrideIncomplete(c(open)) = (Class(m).extends \/ Class(m).implements)
  BY FactsOf DEF Visibilities, OverrideIncomplete
<1> HIDE DEF c
<1>3. without.state # "resolved"
  BY DEF Unavailable, NotRequested
<1>4. Decide(m, IsOpen(File(m)), without) # "finding"
  <2> SUFFICES ASSUME AnalyzeMember(Mode(m), c(IsOpen(File(m))), without) = "finding" PROVE FALSE
    BY DEF Decide, c
  <2> HIDE DEF without
  <2> QED
    BY <1>2, <1>3, FindingNeedsEvidence
<1>5. Asked(q, m) /\ Decide(m, FALSE, Weighed(q, m)) = "finding"
  BY <1>1, <1>4 DEF Final, First
<1>6. Mode(m) = "deep" /\ Decide(m, IsOpen(File(m)), Unavailable) = "deferred"
  BY <1>5 DEF Asked, First
<1>7. ~Surfaces(c(IsOpen(File(m))))
  BY <1>2, <1>6, DeferredIsQuiet DEF Decide, c
<1>8. /\ Weighed(q, m).state = "resolved" /\ ~Weighed(q, m).receiver
      /\ Class(m).extends => ~Weighed(q, m).contract
  <2> DEFINE deep == Weighed(q, m)
             candidate == c(FALSE)
             mode == Mode(m)
  <2>1. AnalyzeMember(mode, candidate, deep) = "finding"
    BY <1>5 DEF Decide, c
  <2>2. candidate.visibility \in {"protected", "public"} /\ ~candidate.static
    BY <1>2
  <2> HIDE DEF deep, candidate, mode
  <2>3. /\ deep.state = "resolved" /\ ~deep.receiver
        /\ OverrideIncomplete(candidate) => ~deep.contract
    BY <2>1, <2>2, FindingNeedsEvidence
  <2> QED
    BY <1>2, <2>3 DEF deep, candidate
<1>9. raw[m].state = "resolved"
  BY <1>8 DEF Weighed, Unavailable, NotRequested
<1>10. raw[m] = Answer(m)
  BY <1>1, <1>9 DEF NoEvidence, Missing
<1>11. /\ Answer(m).state = "resolved"
       /\ Answer(m).references = References(m) /\ Answer(m).overrides = Overrides(m)
  BY <1>9, <1>10 DEF Answer, Missing, NoEvidence
<1>12. /\ References(m) \cap Reached(q) = {}
       /\ Class(m).extends => \A override \in Overrides(m) : ~LiveIn(q, override)
  BY <1>8, <1>9, <1>10, <1>11 DEF Weighed
<1> QED
  BY <1>7, <1>10, <1>11, <1>12 DEF c

-----------------------------------------------------------------------------
(* Used members are kept.                                                  *)

(* The oracle answers with the uses by name in the program's files.        *)
LEMMA NamedUsesAreReferences ==
  ASSUME NEW m, NEW u \in project.uses, u.member = m, u.form = "access",
         u.file \in project.program
  PROVE  u.file \in References(m)
BY DEF References, Uses

LEMMA UsedAreKept ==
  ASSUME IInv, WInv, NEW q \in Decided, NEW m \in Member, report[q][m] = "finding",
         NEW u \in LiveUses(q, m)
  PROVE  OutOfSight(m, u)
<1>1. project \in Projects /\ u \in project.uses /\ u.file \in Reached(q) \cup {Library}
      /\ u.member \in {m} \cup Overridden(m)
  BY DEF IInv, Placed, LiveUses
<1>2. u.member \in {m} \cup project.members[m].over
  BY <1>1 DEF Overridden
<1>3. ~Referenced(Facts(m, FALSE))
  <2>1. report[q][m] = Final(q, m)
    BY DEF WInv, VerdictsAreFinal
  <2>2. PICK open, deep : Decide(m, open, deep) = "finding"
    BY <2>1 DEF Final, First
  <2>3. ~Referenced(Facts(m, open))
    BY <2>2, ReportedIsUnreferenced DEF Decide
  <2> QED
    BY <2>3 DEF Referenced, Facts, CandidateOf
<1>4. u.file # File(m)
  BY <1>1, <1>2, <1>3, UsesInTheFileCount
<1> SUFFICES ASSUME ReceiverIncomplete(Facts(m, FALSE)),
                    project.members[m].visibility # "tsPrivate",
                    u.form # "other", u.file \notin project.files \ project.program,
                    ~(u.file = Library /\ u.form = "access" /\ u.member = m
                        /\ File(m) \notin project.entries),
                    ~(u.file = Library /\ u.form = "access" /\ u.member # m
                        /\ ~OwnerExported(Class(u.member))),
                    ~(u.form = "contract" /\ "builtin" \notin project.members[m].bases)
             PROVE  FALSE
  BY <1>4 DEF OutOfSight
<1>5. /\ project.members[m].visibility \in {"protected", "public"}
      /\ ~project.members[m].static
  <2>1. project.members[m].visibility \in Visibilities
    BY <1>1, MembersAssumption DEF Member
  <2>2. ~Facts(m, FALSE).static /\ Facts(m, FALSE).visibility # "jsPrivate"
    BY DEF ReceiverIncomplete
  <2> QED
    BY <2>1, <2>2, FactsOf DEF Visibilities
<1>6. /\ ~Surfaces(Facts(m, IsOpen(File(m))))
      /\ References(m) \cap Reached(q) = {}
      /\ Class(m).extends => \A override \in Overrides(m) : ~LiveIn(q, override)
  BY <1>5, FindingIsWeighed
<1>7. /\ u.form \in {"access", "contract"} /\ u.file \in project.files \cup {Library}
      /\ u.member \in DOMAIN project.members
  BY <1>1, MembersAssumption DEF Forms
<1>8. u.file \in project.program \/ u.file = Library
  BY <1>7
<1>9. /\ project.members[m].over \cup project.members[m].bases # {} => Class(m).extends
      /\ \A o \in project.members[m].over : project.members[o].bases \subseteq project.members[m].bases
  BY <1>1, HierarchyAssumption DEF Class, Member
<1>10. /\ u.file = Library /\ u.form = "access" =>
            Class(u.member).exported /\ File(u.member) \in project.open
       /\ u.form = "contract" => u.file = Library /\ project.members[u.member].bases # {}
  BY <1>1, OutsidersAssumption DEF Class, File
<1>11. CASE u.form = "contract"
  <2>1. "builtin" \in project.members[m].bases
    BY <1>11
  <2>2. PICK override \in Overrides(m) : ~override.declared
    <3> DEFINE contract == [declared |-> "builtin" = "installed", references |-> {},
                            exported |-> TRUE, owner |-> Library]
    <3>1. contract \in Overrides(m)
      BY <2>1 DEF Overrides
    <3> QED
      BY <3>1
  <2> QED
    BY <2>1, <2>2, <1>6, <1>9 DEF LiveIn
<1>12. CASE u.form = "access" /\ u.member = m /\ u.file # Library
  BY <1>12, <1>1, <1>6, <1>8, NamedUsesAreReferences
<1>13. CASE u.form = "access" /\ u.member = m /\ u.file = Library
  <2>1. Class(m).exported /\ File(m) \in project.open /\ File(m) \in project.entries
    BY <1>10, <1>13
  <2>2. IsOpen(File(m))
    BY <2>1 DEF IsOpen
  <2> QED
    BY <1>6, <2>1, <2>2, FactsOf DEF Surfaces
<1>14. CASE u.form = "access" /\ u.member # m /\ u.member \in project.members[m].over
  <2> DEFINE o == u.member
             override == [declared |-> TRUE, references |-> References(o),
                          exported |-> OwnerExported(Class(o)), owner |-> File(o)]
  <2>1. override \in Overrides(m) /\ Class(m).extends
    BY <1>9, <1>14 DEF Overrides
  <2>2. ~LiveIn(q, override)
    BY <2>1, <1>6
  <2>3. CASE u.file # Library
    <3>1. u.file \in References(o) /\ u.file \in Reached(q)
      BY <1>1, <1>8, <1>14, <2>3, NamedUsesAreReferences
    <3> QED
      BY <2>2, <3>1 DEF LiveIn
  <2>4. CASE u.file = Library
    <3>1. OpenContract(File(o))
      BY <1>10, <1>14, <2>4 DEF OpenContract
    <3>2. OwnerExported(Class(o))
      BY <1>14, <2>4
    <3> QED
      BY <2>2, <3>1, <3>2 DEF LiveIn
  <2> QED
    BY <2>3, <2>4
<1> QED
  BY <1>2, <1>7, <1>11, <1>12, <1>13, <1>14

(* A member that live code uses is not reported, unless the use is one of  *)
(* those the analysis cannot see: whatever the profiles, whichever came    *)
(* first and asked, and over hierarchies of any depth.                     *)
THEOREM UsedStayUnreported == Spec => []UsedMembersAreKept
<1>1. IInv /\ WInv => UsedMembersAreKept
  BY UsedAreKept DEF UsedMembersAreKept
<1> QED
  BY <1>1, Safety, Weighing, PTL

-----------------------------------------------------------------------------
(* Unused members are found.                                               *)

LEMMA QuietIsFoundOrAsked ==
  ASSUME NEW c, c.visibility \in Visibilities, ~Referenced(c), ~Surfaces(c), ~c.hazard
  PROVE  AnalyzeMember("deep", c, Unavailable) \in {"finding", "deferred"}
BY DEF AnalyzeMember, AnalyzeVisible, AnalyzeTypeScriptPrivate, Visibilities, Deepened,
       Unavailable, NotRequested

LEMMA FoundWithEvidence ==
  ASSUME NEW c, NEW deep, c.visibility \in Visibilities, ~Referenced(c), ~Surfaces(c), ~c.hazard,
         deep.state = "resolved", ~deep.receiver, ~deep.contract
  PROVE  AnalyzeMember("deep", c, deep) = "finding"
BY DEF AnalyzeMember, AnalyzeVisible, AnalyzeTypeScriptPrivate, Visibilities, Deepened

LEMMA UnusedAreFound ==
  ASSUME IInv, WInv, NEW q \in Decided, NEW m \in Member,
         File(m) \in Reached(q), Mode(m) = "deep", raw[m].state = "resolved",
         ~Surfaces(Facts(m, IsOpen(File(m)))), ~Facts(m, IsOpen(File(m))).hazard,
         ~Referenced(Facts(m, IsOpen(File(m)))), LiveUses(q, m) = {},
         project.members[m].over \cup project.members[m].bases = {}
  PROVE  report[q][m] = "finding"
<1> DEFINE c(open) == Facts(m, open)
<1>1. report[q][m] = Final(q, m) /\ raw[m] \in {NoEvidence, Missing, Answer(m)}
  BY DEF WInv, VerdictsAreFinal, EvidenceIsTheWorkers
<1>2. c(IsOpen(File(m))).visibility \in Visibilities /\ c(FALSE).visibility \in Visibilities
  BY FactsVisibility DEF IInv, Placed
<1>3. ~Referenced(c(FALSE)) /\ ~Surfaces(c(FALSE)) /\ ~c(FALSE).hazard
  BY DEF Facts, CandidateOf, Referenced, Surfaces
<1>4. /\ raw[m] = Answer(m) /\ raw[m].references = References(m) /\ raw[m].overrides = Overrides(m)
  BY <1>1 DEF NoEvidence, Missing, Answer
<1>5. Overrides(m) = {}
  BY DEF Overrides
<1>6. References(m) \cap Reached(q) = {}
  BY DEF LiveUses, References, Uses
<1>7. Weighed(q, m) = [state |-> "resolved", receiver |-> FALSE, contract |-> FALSE]
  BY <1>4, <1>5, <1>6 DEF Weighed
<1>8. Decide(m, FALSE, Weighed(q, m)) = "finding"
  <2> DEFINE deep == Weighed(q, m)
  <2>1. deep.state = "resolved" /\ ~deep.receiver /\ ~deep.contract
    BY <1>7
  <2> HIDE DEF c, deep
  <2>2. AnalyzeMember("deep", c(FALSE), deep) = "finding"
    BY <1>2, <1>3, <2>1, FoundWithEvidence
  <2> QED
    BY <2>2 DEF Decide, c, deep
<1>9. First(q, m) \in {"finding", "deferred"}
  BY <1>2, QuietIsFoundOrAsked DEF First, Decide
<1> QED
  BY <1>1, <1>8, <1>9 DEF Final, Asked

(* A member nobody uses is reported where all there is to know of it is    *)
(* known, in every profile that reaches its file.                          *)
THEOREM UnusedAreReported == Spec => []UnusedMembersAreFound
<1>1. IInv /\ WInv => UnusedMembersAreFound
  BY UnusedAreFound DEF UnusedMembersAreFound
<1> QED
  BY <1>1, Safety, Weighing, PTL
=============================================================================
