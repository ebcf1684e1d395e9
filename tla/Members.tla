------------------------------ MODULE Members -------------------------------
(***************************************************************************)
(* Unused class members of a project, profile by profile: the loop of      *)
(* application/project.rs that scans a profile, collects deep evidence for *)
(* the members the scan deferred and has no evidence for yet, and decides  *)
(* those again.  The evidence is collected once and weighed per profile,   *)
(* against the files the profile reaches.                                  *)
(*                                                                         *)
(* Sessions with the worker are DeepSession's: here one answers for a      *)
(* member, or fails, and the answer is about the member it was asked for.  *)
(***************************************************************************)
EXTENDS MemberRules, Sequences, SequencesExt

CONSTANTS Projects,   \* the projects to look at
          Profiles,   \* the target profiles, in order
          Library     \* stands for the code of a package, outside the project

(* A use of a member: by name ("access"), by code of a library that knows  *)
(* the base class's member of that name ("contract"), or in a form no      *)
(* symbol is looked up for ("other": destructuring, bracket literals,      *)
(* a structural type).                                                     *)
Forms == {"access", "contract", "other"}

(* Where a library declares a member that a class overrides: within the    *)
(* workspace directory or not.                                             *)
Bases == {"installed", "builtin"}

ASSUME MembersAssumption ==
  /\ Len(Profiles) \in Nat /\ DOMAIN Profiles = 1..Len(Profiles)
  /\ \A i, j \in DOMAIN Profiles : Profiles[i] = Profiles[j] => i = j
  /\ \A p \in Projects :
    /\ Library \notin p.files /\ p.program \subseteq p.files
    /\ IsFiniteSet(DOMAIN p.members) /\ IsFiniteSet(p.uses)
    /\ \A m \in DOMAIN p.members : p.members[m].visibility \in Visibilities
                                   /\ p.classes[p.members[m].class].file \in p.files
    /\ \A m \in DOMAIN p.members : LET class == p.classes[p.members[m].class]
                                  IN class.modifier => class.exported
    /\ \A u \in p.uses : u.member \in DOMAIN p.members /\ u.form \in Forms
                         /\ u.file \in p.files \cup {Library}
    /\ \A q \in ToSet(Profiles) : p.reach[q] \subseteq p.files

(* A member overrides what the classes above its own declare under its     *)
(* name, at any distance.                                                  *)
ASSUME HierarchyAssumption ==
  \A p \in Projects : \A m \in DOMAIN p.members :
    /\ p.members[m].bases \subseteq Bases /\ p.members[m].over \subseteq DOMAIN p.members
    /\ p.members[m].bases \cup p.members[m].over # {} => p.classes[p.members[m].class].extends
    /\ \A o \in p.members[m].over : /\ p.members[o].name = p.members[m].name
                                    /\ p.members[o].over \subseteq p.members[m].over
                                    /\ p.members[o].bases \subseteq p.members[m].bases

(* Outside the project, code sees what an open package exports, and a      *)
(* library the members of its own that the project overrides.              *)
ASSUME OutsidersAssumption ==
  \A p \in Projects : \A u \in p.uses :
    /\ u.file = Library /\ u.form = "access" =>
         LET class == p.classes[p.members[u.member].class]
         IN  class.exported /\ class.file \in p.open
    /\ u.form = "contract" => u.file = Library /\ p.members[u.member].bases # {}

VARIABLES project,    \* constant: the project
          pc, next,   \* the loop over the profiles
          raw,        \* deep_member_evidence
          failed,     \* the worker failed for some member
          report      \* per profile, the decision about each member

vars == <<project, pc, next, raw, failed, report>>

Member == DOMAIN project.members
Profile == Profiles[next]
Class(m) == project.classes[project.members[m].class]
File(m) == Class(m).file
Mode(m) == project.mode[File(m)]

NoEvidence == [state |-> "none", references |-> {}, overrides |-> {}]
Missing == [NoEvidence EXCEPT !.state = "unavailable"]

TypeOK ==
  /\ pc \in {"scan", "collect", "apply", "done"}
  /\ next \in 1..(Len(Profiles) + 1)
  /\ \A m \in Member : raw[m].state \in {"none", "unavailable", "resolved"}
                       /\ raw[m].references \subseteq project.files
  /\ failed \in BOOLEAN
  /\ report \in [ToSet(Profiles) ->
                  [Member -> {"undecided", "unreached", "finding", "retained", "deferred"}]]

Init ==
  /\ project \in Projects
  /\ pc = "scan" /\ next = 1
  /\ raw = [m \in Member |-> NoEvidence]
  /\ failed = FALSE
  /\ report = [q \in ToSet(Profiles) |-> [m \in Member |-> "undecided"]]

-----------------------------------------------------------------------------
(* The scan of a profile, in the mode of each file and without evidence.   *)

SameName(m) == {n \in Member : project.members[n].name = project.members[m].name}

Occurrences(m) ==
  Cardinality({n \in SameName(m) : File(n) = File(m)})
    + Cardinality({u \in project.uses : u.file = File(m) /\ u.member \in SameName(m)})

(* An open package's entries are open; its other files are not.            *)
IsOpen(file) == file \in project.entries \cap project.open

Facts(m, open) ==
  CandidateOf(project.members[m], Class(m), project.hazards[File(m)], Occurrences(m), open)

Decide(m, open, deep) == AnalyzeMember(Mode(m), Facts(m, open), deep)

Reached(q) == project.reach[q]

Scan ==
  /\ pc = "scan" /\ next <= Len(Profiles)
  /\ report' = [report EXCEPT ![Profile] =
       [m \in Member |->
          IF File(m) \notin Reached(Profile) THEN "unreached"
          ELSE Decide(m, IsOpen(File(m)),
                      IF Mode(m) = "deep" THEN Unavailable ELSE NotRequested)]]
  /\ pc' = "collect"
  /\ UNCHANGED <<project, next, raw, failed>>

-----------------------------------------------------------------------------
(* Deep evidence.                                                          *)

Candidates ==
  {m \in Member : report[Profile][m] = "deferred" /\ Mode(m) = "deep"}

Uncached == {m \in Candidates : raw[m].state = "none"}

Uses(m) == {u.file : u \in {v \in project.uses : v.member = m /\ v.form = "access"}}

(* Variant: the name in the declaration is a reference as well.            *)
ReferencesAndDeclarations(m) == (Uses(m) \cup {File(m)}) \cap project.program

(* The references the oracle finds: names that resolve to the member, in   *)
(* the files of the program, of which the client keeps the project's.      *)
References(m) == Uses(m) \cap project.program

(* The oracle looks at the modifiers of the declaration alone, and needs   *)
(* a name to say which class it is.                                        *)
OwnerExported(class) == class.modifier /\ class.named

(* What the classes above declare under the name: a member of a library    *)
(* has a declaration if it lies within the workspace, and no references    *)
(* but the project's.                                                      *)
Overrides(m) ==
  {[declared |-> TRUE, references |-> References(over),
    exported |-> OwnerExported(Class(over)), owner |-> File(over)] :
     over \in project.members[m].over}
  \cup {[declared |-> base = "installed", references |-> {}, exported |-> TRUE,
         owner |-> Library] : base \in project.members[m].bases}

Answer(m) ==
  IF File(m) \in project.typescript \cap project.program
  THEN [state |-> "resolved", references |-> References(m), overrides |-> Overrides(m)]
  ELSE Missing

(* What has been collected stays: a member whose session failed is not     *)
(* asked for again.                                                        *)
Collect ==
  /\ pc = "collect" /\ Uncached # {}
  /\ \E answered \in {{}, Uncached} :
       /\ raw' = [m \in Member |-> IF m \notin Uncached THEN raw[m]
                                   ELSE IF m \in answered THEN Answer(m) ELSE Missing]
       /\ failed' = (failed \/ answered # Uncached)
  /\ pc' = "apply"
  /\ UNCHANGED <<project, next, report>>

CollectNothing ==
  /\ pc = "collect" /\ Uncached = {}
  /\ pc' = "apply"
  /\ UNCHANGED <<project, next, raw, failed, report>>

(* resolve_deep_raw_resolution: a reference counts in the profiles that    *)
(* reach its file, a contract if somebody else may rely on it.             *)
OpenContract(owner) == owner \in project.open

Live(override) ==
  \/ ~override.declared
  \/ override.references \cap Reached(Profile) # {}
  \/ override.exported /\ OpenContract(override.owner)

(* Variant: evidence is weighed when it is collected, once.                *)
ResolveOnce(m) ==
  IF raw[m].state = "resolved"
  THEN [state    |-> "resolved",
        receiver |-> raw[m].references \cap Reached(Profiles[1]) # {},
        contract |-> \E override \in raw[m].overrides : Live(override)]
  ELSE Unavailable

Resolve(m) ==
  IF raw[m].state = "resolved"
  THEN [state    |-> "resolved",
        receiver |-> raw[m].references \cap Reached(Profile) # {},
        contract |-> \E override \in raw[m].overrides : Live(override)]
  ELSE Unavailable

(* The deferred members that have evidence are decided once more.          *)
Apply ==
  /\ pc = "apply"
  /\ report' = [report EXCEPT ![Profile] =
       [m \in Member |->
          IF m \in Candidates /\ raw[m].state # "none" THEN Decide(m, FALSE, Resolve(m))
          ELSE @[m]]]
  /\ next' = next + 1
  /\ pc' = IF next < Len(Profiles) THEN "scan" ELSE "done"
  /\ UNCHANGED <<project, raw, failed>>

Next == Scan \/ Collect \/ CollectNothing \/ Apply

Spec == Init /\ [][Next]_vars

-----------------------------------------------------------------------------
Decided == {Profiles[i] : i \in 1..(next - 1)}

(* A call of a member it overrides may be a call of an instance member.    *)
Overridden(m) == IF project.members[m].static THEN {} ELSE project.members[m].over

LiveUses(q, m) ==
  {u \in project.uses :
     u.member \in {m} \cup Overridden(m) /\ u.file \in Reached(q) \cup {Library}}

(* What the analysis cannot see, by design or by mistake: a use in another *)
(* file of a static or private member, whose references are counted in     *)
(* their own file only; a use in a form without a symbol, or in a file     *)
(* outside the compiler's program; a consumer that gets the class of a     *)
(* file through an entry's re-export; a consumer that calls the overridden *)
(* member of a class which is exported by a list, or has no name; a        *)
(* library's call of a member that overrides the library's, when that is   *)
(* declared within the workspace directory.                                *)
OutOfSight(m, u) ==
  /\ u.file # File(m)
  /\ \/ ~ReceiverIncomplete(Facts(m, FALSE)) \/ project.members[m].visibility = "tsPrivate"
     \/ u.form = "other"
     \/ u.file \in project.files \ project.program
     \/ u.file = Library /\ u.form = "access" /\ u.member = m /\ File(m) \notin project.entries
     \/ /\ u.file = Library /\ u.form = "access"
        /\ u.member # m /\ ~OwnerExported(Class(u.member))
     \/ u.form = "contract" /\ "builtin" \notin project.members[m].bases

(* A member that live code uses is not reported, unless the use is out of  *)
(* sight: neither in this profile, with evidence collected for another,    *)
(* nor by way of the member it overrides.                                  *)
UsedMembersAreKept ==
  \A q \in Decided : \A m \in Member :
    report[q][m] = "finding" => \A u \in LiveUses(q, m) : OutOfSight(m, u)

(* Deep mode adds findings; it takes none back that a faster mode made     *)
(* (members.rs: it "cannot invalidate a finding already made by a faster   *)
(* mode from complete facts").                                             *)
FasterFindingsStand ==
  \A q \in Decided : \A m \in Member :
    /\ File(m) \in Reached(q)
    /\ Mode(m) = "deep"
    /\ \E mode \in {"fast", "balanced"} :
         AnalyzeMember(mode, Facts(m, IsOpen(File(m))), NotRequested) = "finding"
    => report[q][m] = "finding"

(* A member no live code uses is found if all there is to know of it is    *)
(* known: its class stays inside, its file is without hazards, its name is *)
(* its own, and the worker answered.                                       *)
UnusedMembersAreFound ==
  \A q \in Decided : \A m \in Member :
    LET candidate == Facts(m, IsOpen(File(m)))
    IN /\ File(m) \in Reached(q) /\ Mode(m) = "deep"
       /\ raw[m].state = "resolved"
       /\ ~Surfaces(candidate) /\ ~candidate.hazard /\ ~Referenced(candidate)
       /\ LiveUses(q, m) = {} /\ project.members[m].over \cup project.members[m].bases = {}
       => report[q][m] = "finding"

(* A member that live code of another file names is not reported as having *)
(* no live reference.                                                      *)
NamedMembersAreKept ==
  \A q \in Decided : \A m \in Member :
    report[q][m] = "finding" => \A u \in LiveUses(q, m) : u.form # "access"

=============================================================================
