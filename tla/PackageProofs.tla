--------------------------- MODULE PackageProofs ----------------------------
(* What comes of the packages of a project: of the plugins of each, of the *)
(* entries they name and of the links between them, for every plan,        *)
(* program, pipe and project.  The specifications are two, PluginHost and  *)
(* Links with the Entries it extends; they share no state, and each has    *)
(* its invariant.                                                          *)
(*                                                                         *)
(* A call of a program is followed through: while it is asked, the request *)
(* and the answer are of the profile under way, the child is the one that  *)
(* was started, and what its earlier answers contributed came of accepted  *)
(* ones; what is kept for a plugin blocks or has an answer of every        *)
(* profile; and the report holds the diagnostics of all that is kept.      *)
(*                                                                         *)
(* The entries are gathered in stages, each of which leaves what the next  *)
(* one reads as its own definition has it; of the profiles before the one  *)
(* under way every package has given all its entries, of this one those    *)
(* that were asked; and each profile that is linked has the imports and    *)
(* the links of the whole project, or a diagnostic says what it lacks.     *)
EXTENDS PluginHost, Links, SequenceTheorems, FiniteSetTheorems, TLAPS

-----------------------------------------------------------------------------
(* The inductive invariant of a package's plugins.                         *)

(* The stages in which a program of the plan is being asked.               *)
Asking == pc \in {"request", "write", "wait", "kill", "drain", "join", "validate", "assemble"}

HostTypeInv ==
  /\ HostTypeOK
  /\ next \in Nat \ {0}
  /\ InCall \/ pc = "validate" => answer \in Answers
  /\ child \in [state : {"none", "running", "ok", "fail"}, input : {"open", "closed"}, wrote : Nat]
  /\ contributions = [facts |-> contributions.facts, diagnostics |-> contributions.diagnostics,
                      sorted |-> TRUE]

(* Where the plan stands.                                                  *)
AskingAProgram ==
  Asking => /\ plan # Detect
            /\ next \in DOMAIN plan
            /\ ProgramAt(next)

ProfileIsAsked == InCall \/ pc = "validate" => asked < Len(profiles)

RequestFits == pc = "write" => Current.request <= MaxMessage

PlanIsRead == pc \in {"report", "done"} /\ plan # Detect => next > Len(plan)

(* A call that is over has ended its program, but for one that closed its  *)
(* input.                                                                  *)
CallEndsProgram ==
  /\ pc \in {"drain", "join", "validate"} => ~Running
  /\ ~InCall /\ Running => child.input = "closed"

(* What is validated was read whole from a program that succeeded.         *)
ValidatedIsWhole ==
  pc = "validate" =>
    child.state = "ok" /\ reader = "ended" /\ got = answer.size /\ got <= MaxResponse

Blocking(diags) == \E d \in diags : d.blocks

(* The current program answered for each profile it was asked for, and was *)
(* given up only with a diagnostic that blocks.                            *)
AskedIsAnswered ==
  Asking => /\ \A p \in 1..asked : Answered(next, p)
            /\ pc = "assemble" => Blocking(contributions.diagnostics)

(* The program at a position of the plan is the last so far of its id.     *)
LastSoFar(i) == \A j \in DOMAIN plan : i < j /\ j < next => Plugin[plan[j]].id # Plugin[plan[i]].id

KeptHasAnswered ==
  plan # Detect =>
    \A i \in DOMAIN plan :
      i < next /\ ProgramAt(i) /\ LastSoFar(i) =>
        /\ Plugin[plan[i]].id \in DOMAIN selected
        /\ \/ Blocking(selected[Plugin[plan[i]].id].diagnostics)
           \/ \A p \in DOMAIN profiles : Answered(i, p)

ReportIsWhole ==
  pc = "done" => \A id \in DOMAIN selected : selected[id].diagnostics \subseteq diagnostics

HostInv ==
  /\ HostTypeInv
  /\ AskingAProgram
  /\ ProfileIsAsked
  /\ RequestFits
  /\ PlanIsRead
  /\ CallEndsProgram
  /\ ValidatedIsWhole
  /\ FactsAreVouchedFor
  /\ AskedIsAnswered
  /\ KeptHasAnswered
  /\ ReportIsWhole
  /\ NoProgramOutlivesItsCall

-----------------------------------------------------------------------------
(* What the steps change.                                                  *)

(* The ways a plugin of the plan is taken up.                              *)
LEMMA SelectCases ==
  ASSUME Select
  PROVE  /\ pc = "select" /\ plan # Detect /\ next <= Len(plan)
         /\ UNCHANGED <<inputVars, diagnostics, callVars, historyVars>>
         /\ \/ /\ Current.kind = "program" /\ pc' = "request"
               /\ asked' = 0 /\ contributions' = NoContributions
               /\ UNCHANGED <<next, selected>>
            \/ /\ Current.kind # "program" /\ Keep(Current.contributions)
               /\ UNCHANGED <<asked, contributions>>
            \/ /\ pc' = "failed"
               /\ UNCHANGED <<next, asked, contributions, selected>>
<1> HIDE DEF Current
<1>1. /\ pc = "select" /\ plan # Detect /\ next <= Len(plan)
      /\ UNCHANGED <<inputVars, diagnostics, callVars, historyVars>>
  BY DEF Select
<1>2. CASE Current.kind = "program" /\ Current.loads /\ ConfigValid(Current)
  BY <1>1, <1>2 DEF Select
<1>3. CASE Current.kind # "program" /\ Current.loads /\ PluginValid(Current)
  BY <1>1, <1>3 DEF Select
<1>4. CASE /\ ~(Current.kind = "program" /\ Current.loads /\ ConfigValid(Current))
           /\ ~(Current.kind # "program" /\ Current.loads /\ PluginValid(Current))
  BY <1>1, <1>4 DEF Select
<1> QED
  BY <1>2, <1>3, <1>4

(* What is assembled is kept, or the scan has failed.                      *)
LEMMA AssembleCases ==
  ASSUME Assemble
  PROVE  /\ pc = "assemble" \/ (pc = "request" /\ asked = Len(profiles))
         /\ UNCHANGED <<inputVars, asked, contributions, diagnostics, callVars, historyVars>>
         /\ \/ Keep(Canonicalize(contributions))
            \/ pc' = "failed" /\ UNCHANGED <<next, selected>>
BY DEF Assemble

(* A failure ends the questions with a diagnostic that blocks.             *)
LEMMA FailBlocks ==
  ASSUME HostTypeInv, NEW printable \in BOOLEAN, Fail(printable)
  PROVE  /\ pc' = "assemble"
         /\ contributions'.facts = contributions.facts
         /\ contributions'.diagnostics \subseteq PluginDiagnostic
         /\ contributions' = [facts |-> contributions'.facts,
                              diagnostics |-> contributions'.diagnostics, sorted |-> TRUE]
         /\ Blocking(contributions'.diagnostics)
<1>1. /\ contributions = [facts |-> contributions.facts, diagnostics |-> contributions.diagnostics,
                          sorted |-> TRUE]
      /\ contributions.diagnostics \subseteq PluginDiagnostic
  BY DEF HostTypeInv, HostTypeOK
<1>2. /\ pc' = "assemble"
      /\ contributions' = [facts |-> contributions.facts,
                           diagnostics |-> contributions.diagnostics \cup {Blocker(printable)},
                           sorted |-> TRUE]
  <2>1. PICK F, D : contributions = [facts |-> F, diagnostics |-> D, sorted |-> TRUE]
    BY <1>1
  <2>2. contributions' = [contributions EXCEPT !.diagnostics = @ \cup {Blocker(printable)}]
    BY DEF Fail
  <2>3. contributions' = [facts |-> F, diagnostics |-> D \cup {Blocker(printable)}, sorted |-> TRUE]
    BY <2>1, <2>2
  <2> QED
    BY <2>1, <2>3 DEF Fail
<1>3. Blocker(printable) \in PluginDiagnostic /\ Blocker(printable).blocks
  BY DEF Blocker, PluginDiagnostic
<1> QED
  BY <1>1, <1>2, <1>3 DEF Blocking

-----------------------------------------------------------------------------
(* The types.                                                              *)

LEMMA CurrentRequest ==
  ASSUME HostInv, Asking
  PROVE  Current.request \in Nat
<1>1. plan \in Plans \ {Detect} /\ next \in DOMAIN plan /\ Plugin[plan[next]].kind = "program"
  BY DEF HostInv, HostTypeInv, HostTypeOK, AskingAProgram, ProgramAt
<1>2. plan[next] \in DOMAIN Plugin
  BY <1>1, HostAssumption
<1> QED
  BY <1>1, <1>2, HostAssumption DEF Current

LEMMA HostTypeInit ==
  ASSUME HostInit
  PROVE  HostTypeInv
<1>1. contributions.facts = {} /\ contributions.diagnostics = {}
  BY DEF HostInit, NoContributions
<1>2. 0 \in 0..Len(profiles) /\ 0 \in 0..MaxMessage /\ 0 \in 0..(MaxResponse + 1) /\ 0 \in 0..Capacity
  BY HostAssumption DEF HostInit
<1>3. HostTypeOK
  BY <1>1, <1>2 DEF HostInit, HostTypeOK, Silent
<1>4. contributions = [facts |-> {}, diagnostics |-> {}, sorted |-> TRUE]
  BY DEF HostInit, NoContributions
<1> QED
  BY <1>1, <1>3, <1>4 DEF HostInit, HostTypeInv, Silent, InCall

(* A program may do what it likes within the pipes.                        *)
LEMMA ProgramTypes ==
  ASSUME HostInv, Program
  PROVE  HostTypeInv'
<1>0. /\ HostTypeInv /\ HostTypeOK
      /\ child \in [state : {"none", "running", "ok", "fail"}, input : {"open", "closed"}, wrote : Nat]
      /\ UNCHANGED hostVars /\ InCall
      /\ Capacity \in Nat
  BY HostAssumption DEF HostInv, HostTypeInv, Program, ProgramReads, ProgramCloses, ProgramWrites,
     ProgramForks, ProgramExits, HeirExits
<1>1. input' \in 0..Capacity /\ output' \in 0..Capacity
  BY <1>0 DEF HostTypeOK, Program, ProgramReads, ProgramCloses, ProgramWrites,
     ProgramForks, ProgramExits, HeirExits
<1>4. heir' \in BOOLEAN
  BY <1>0, Zenon DEF HostTypeOK, Program, ProgramReads, ProgramCloses, ProgramWrites,
     ProgramForks, ProgramExits, HeirExits
<1>2. child' \in [state : {"none", "running", "ok", "fail"}, input : {"open", "closed"}, wrote : Nat]
  BY <1>0 DEF Program, ProgramReads, ProgramCloses, ProgramWrites,
     ProgramForks, ProgramExits, HeirExits
<1>3. HostTypeOK'
  BY <1>0, <1>1, <1>2, <1>4 DEF HostTypeOK, hostVars, inputVars, historyVars
<1> QED
  BY <1>0, <1>2, <1>3 DEF HostTypeInv, hostVars, inputVars, InCall

(* The reading thread stops one unit above the limit.                      *)
LEMMA ReaderTypes ==
  ASSUME HostInv, Reader \/ DeadlinePasses
  PROVE  HostTypeInv'
<1>0. /\ HostTypeInv /\ HostTypeOK
      /\ Capacity \in Nat /\ MaxResponse \in Nat
      /\ UNCHANGED <<inputVars, pc, next, asked, contributions, selected, diagnostics, sent,
                     input, answer, child, heir, historyVars>>
  BY HostAssumption DEF HostInv, HostTypeInv, Reader, Read, ReadEnds, DeadlinePasses
<1>1. got' \in 0..(MaxResponse + 1) /\ output' \in 0..Capacity
  BY <1>0 DEF HostTypeOK, Reader, Read, ReadEnds, DeadlinePasses
<1>2. reader' \in {"none", "reading", "ended"} /\ late' \in BOOLEAN
  BY <1>0 DEF HostTypeOK, Reader, Read, ReadEnds, DeadlinePasses
<1>3. HostTypeOK'
  BY <1>0, <1>1, <1>2 DEF HostTypeOK, inputVars, historyVars
<1> QED
  BY <1>0, <1>3 DEF HostTypeInv, inputVars, InCall

(* A program whose output is read whole is heard, or its call fails.       *)
LEMMA JoinedCases ==
  ASSUME HostTypeInv, Joined
  PROVE  \/ \E printable \in BOOLEAN : Fail(printable)
         \/ pc' = "validate" /\ UNCHANGED <<contributions, stray>>
<1>1. Quotable \in BOOLEAN
  BY DEF Quotable
<1> QED
  BY <1>1 DEF Joined

(* A step that ends a call by a failure keeps the types.                   *)
LEMMA FailTypes ==
  ASSUME HostInv, NEW printable \in BOOLEAN, Fail(printable),
         UNCHANGED <<inputVars, next, asked, callVars>>
  PROVE  HostTypeInv'
<1>0. HostTypeInv /\ HostTypeOK
  BY DEF HostInv, HostTypeInv
<1>1. /\ pc' = "assemble"
      /\ contributions'.facts = contributions.facts
      /\ contributions'.diagnostics \subseteq PluginDiagnostic
      /\ contributions' = [facts |-> contributions'.facts,
                           diagnostics |-> contributions'.diagnostics, sorted |-> TRUE]
  BY <1>0, FailBlocks
<1>2. child.input \in {"open", "closed"}
  BY <1>0 DEF HostTypeInv
<1>3. stray' \subseteq {"open", "closed"}
  BY <1>0, <1>2 DEF Fail, HostTypeOK
<1>4. HostTypeOK'
  BY <1>0, <1>1, <1>3 DEF HostTypeOK, inputVars, callVars
<1> QED
  BY <1>0, <1>1, <1>4 DEF HostTypeInv, inputVars, callVars, InCall

LEMMA KeepTypes ==
  ASSUME HostInv,
         UNCHANGED <<inputVars, asked, contributions, callVars, historyVars>>,
         pc' \in {"select", "failed", "report", "done"},
         next' \in {next, next + 1}
  PROVE  HostTypeInv'
<1>0. HostTypeInv /\ HostTypeOK
  BY DEF HostInv, HostTypeInv
<1>1. HostTypeOK'
  BY <1>0 DEF HostTypeOK, inputVars, callVars, historyVars
<1>2. next' \in Nat \ {0}
  BY <1>0 DEF HostTypeInv
<1> QED
  BY <1>0, <1>1, <1>2 DEF HostTypeInv, inputVars, callVars, InCall

LEMMA HostTypes ==
  ASSUME HostInv, Host
  PROVE  HostTypeInv'
<1>0. /\ HostTypeInv /\ HostTypeOK
      /\ TRUE \in BOOLEAN
  BY DEF HostInv, HostTypeInv
<1>1. CASE DetectPlugins
  BY <1>0, <1>1, KeepTypes DEF DetectPlugins
<1>2. CASE Select
  <2>1. CASE /\ pc' = "request" /\ asked' = 0 /\ contributions' = NoContributions
             /\ UNCHANGED <<next, selected>>
    <3>0. UNCHANGED <<inputVars, callVars, historyVars>>
      BY <1>2, SelectCases
    <3>1. contributions'.facts = {} /\ contributions'.diagnostics = {}
      BY <2>1 DEF NoContributions
    <3>2. asked' \in 0..Len(profiles')
      BY <1>0, <2>1, <3>0, HostAssumption DEF HostTypeOK, inputVars
    <3>3. HostTypeOK'
      BY <1>0, <2>1, <3>0, <3>1, <3>2 DEF HostTypeOK, inputVars, callVars, historyVars
    <3>4. contributions' = [facts |-> contributions'.facts,
                            diagnostics |-> contributions'.diagnostics, sorted |-> TRUE]
      BY <2>1, <3>1 DEF NoContributions
    <3> QED
      BY <1>0, <2>1, <3>0, <3>3, <3>4 DEF HostTypeInv, callVars, InCall
  <2>2. CASE /\ Keep(Current.contributions)
             /\ UNCHANGED <<asked, contributions>>
    BY <1>2, <2>2, SelectCases, KeepTypes DEF Keep
  <2>3. CASE pc' = "failed" /\ UNCHANGED <<next, asked, contributions, selected>>
    BY <1>2, <2>3, SelectCases, KeepTypes
  <2> QED
    BY <1>2, <2>1, <2>2, <2>3, SelectCases
<1>3. CASE EndSelection \/ ReportPlugins
  BY <1>0, <1>3, KeepTypes DEF EndSelection, ReportPlugins
<1>4. CASE Spawn
  <2>1. 0 \in 0..MaxMessage /\ 0 \in 0..(MaxResponse + 1) /\ 0 \in 0..Capacity /\ 0 \in Nat
    BY HostAssumption
  <2>2. child' = [state |-> "running", input |-> "open", wrote |-> 0]
    BY <1>4 DEF Spawn, Silent
  <2>3. /\ answer' \in Answers /\ pc' = "write"
        /\ sent' = 0 /\ input' = 0 /\ output' = 0
        /\ heir' = FALSE /\ reader' = "none" /\ got' = 0 /\ late' = FALSE
        /\ UNCHANGED <<inputVars, next, asked, contributions, historyVars>>
    BY <1>4 DEF Spawn
  <2>4. heir' \in BOOLEAN /\ late' \in BOOLEAN
    BY <2>3
  <2>5. /\ sent' \in 0..MaxMessage /\ got' \in 0..(MaxResponse + 1)
        /\ input' \in 0..Capacity /\ output' \in 0..Capacity
    BY <2>1, <2>3
  <2>6. HostTypeOK'
    BY <1>0, <2>2, <2>3, <2>4, <2>5, <2>1 DEF HostTypeOK, inputVars, historyVars
  <2> QED
    BY <1>0, <2>1, <2>2, <2>3, <2>6 DEF HostTypeInv, inputVars
<1>5. CASE NoSpawn \/ WriteFails \/ WaitFails \/ Drained
  BY <1>0, <1>5, FailTypes DEF NoSpawn, WriteFails, WaitFails, Drained
<1>6. CASE Write
  <2>1. Current.request \in Nat /\ Current.request <= MaxMessage
    BY <1>6, CurrentRequest DEF Write, Asking, HostInv, RequestFits
  <2>2. sent' \in 0..MaxMessage /\ input' \in 0..Capacity
    BY <1>0, <1>6, <2>1, HostAssumption DEF Write, HostTypeOK
  <2>3. HostTypeOK'
    BY <1>0, <1>6, <2>2 DEF Write, HostTypeOK, inputVars, historyVars
  <2> QED
    BY <1>0, <1>6, <2>3 DEF Write, HostTypeInv, inputVars, InCall
<1>7. CASE StartReader \/ Exited \/ TimedOut
  <2>1. /\ pc' \in {"wait", "join", "kill"} /\ InCall
        /\ reader' \in {"none", "reading", "ended"}
        /\ UNCHANGED <<inputVars, next, asked, contributions, selected, diagnostics, sent, input,
                       output, answer, child, heir, got, late, historyVars>>
    BY <1>0, <1>7 DEF StartReader, Exited, TimedOut, HostTypeOK, callVars, InCall
  <2>2. HostTypeOK'
    BY <1>0, <2>1 DEF HostTypeOK, inputVars, historyVars
  <2> QED
    BY <1>0, <2>1, <2>2 DEF HostTypeInv, inputVars, InCall
<1>8. CASE Kill
  <2>1. child' \in [state : {"none", "running", "ok", "fail"}, input : {"open", "closed"}, wrote : Nat]
    BY <1>0, <1>8 DEF Kill, HostTypeInv
  <2>2. HostTypeOK'
    BY <1>0, <1>8, <2>1 DEF Kill, HostTypeOK, inputVars, historyVars
  <2> QED
    BY <1>0, <1>8, <2>1, <2>2 DEF Kill, HostTypeInv, inputVars, InCall
<1>9. CASE Joined
  <2>1. CASE \E printable \in BOOLEAN : Fail(printable)
    BY <1>0, <1>9, <2>1, FailTypes DEF Joined
  <2>2. CASE pc' = "validate" /\ UNCHANGED <<contributions, stray>>
    <3>1. InCall /\ UNCHANGED <<inputVars, next, asked, contributions, callVars, stray>>
      BY <1>9, <2>2 DEF Joined, InCall
    <3>2. HostTypeOK'
      BY <1>0, <2>2, <3>1 DEF HostTypeOK, inputVars, callVars
    <3> QED
      BY <1>0, <2>2, <3>1, <3>2 DEF HostTypeInv, inputVars, callVars, InCall
  <2> QED
    BY <1>0, <1>9, <2>1, <2>2, JoinedCases
<1>10. CASE Validate
  <2>0. answer \in Answers
    BY <1>0, <1>10 DEF Validate, HostTypeInv
  <2>1. CASE ~ResponseValid(package, Profile, Capability, answer)
    <3>1. answer.quotable \in BOOLEAN
      BY <2>0, HostAssumption
    <3>2. Fail(answer.quotable) /\ UNCHANGED <<inputVars, next, asked, callVars>>
      BY <1>10, <2>1 DEF Validate
    <3> QED
      BY <3>1, <3>2, FailTypes
  <2>2. CASE ResponseValid(package, Profile, Capability, answer)
    <3>1. /\ contributions' = Merge(contributions, answer.contributions)
          /\ asked' = asked + 1 /\ pc' = "request"
          /\ UNCHANGED <<inputVars, next, callVars, stray>>
      BY <1>10, <2>2 DEF Validate
    <3>2. PICK F, D : contributions = [facts |-> F, diagnostics |-> D, sorted |-> TRUE]
      BY <1>0 DEF HostTypeInv
    <3>3. contributions' = [facts |-> F \cup answer.contributions.facts,
                            diagnostics |-> D \cup answer.contributions.diagnostics,
                            sorted |-> TRUE]
      BY <3>1, <3>2 DEF Merge, Canonicalize
    <3>4. /\ \A f \in contributions'.facts : IsFact(f)
          /\ contributions'.diagnostics \subseteq PluginDiagnostic
      BY <1>0, <2>0, <3>2, <3>3, HostAssumption DEF HostTypeOK
    <3>5. asked' \in 0..Len(profiles')
      BY <1>0, <1>10, <3>1, HostAssumption DEF HostTypeOK, HostInv, ProfileIsAsked, Validate, inputVars
    <3>6. HostTypeOK'
      BY <1>0, <3>1, <3>4, <3>5 DEF HostTypeOK, inputVars, callVars
    <3>7. contributions' = [facts |-> contributions'.facts,
                            diagnostics |-> contributions'.diagnostics, sorted |-> TRUE]
      BY <3>3
    <3> QED
      BY <1>0, <3>1, <3>6, <3>7 DEF HostTypeInv, inputVars, callVars, InCall
  <2> QED
    BY <2>1, <2>2
<1>11. CASE Assemble
  BY <1>11, AssembleCases, KeepTypes DEF Keep
<1> QED
  BY <1>1, <1>2, <1>3, <1>4, <1>5, <1>6, <1>7, <1>8, <1>9, <1>10, <1>11 DEF Host

LEMMA HostTypeStep ==
  ASSUME HostInv, [HostNext]_allVars
  PROVE  HostTypeInv'
<1>1. CASE UNCHANGED allVars
  BY <1>1 DEF HostInv, HostTypeInv, HostTypeOK, allVars, inputVars, callVars, historyVars, InCall
<1>2. CASE HostNext
  BY <1>2, HostTypes, ReaderTypes, ProgramTypes DEF HostNext
<1> QED
  BY <1>1, <1>2

-----------------------------------------------------------------------------
(* Where the plan stands.                                                  *)

(* What only a step of the host changes.                                   *)
LEMMA OthersLeaveTheHost ==
  ASSUME [HostNext]_allVars, ~Host
  PROVE  UNCHANGED <<inputVars, pc, next, asked, contributions, selected, diagnostics,
                     answer, accepted, stray>>
BY DEF HostNext, Reader, Read, ReadEnds, DeadlinePasses, Program, ProgramReads, ProgramCloses,
       ProgramWrites, ProgramForks, ProgramExits, HeirExits, hostVars, callVars, historyVars, allVars

LEMMA InputsStay ==
  ASSUME [HostNext]_allVars
  PROVE  UNCHANGED inputVars
<1>1. CASE Host
  BY <1>1 DEF Host, DetectPlugins, Select, EndSelection, ReportPlugins, Spawn, NoSpawn, Write, WriteFails,
     StartReader, Exited, WaitFails, TimedOut, Kill, Drained, Joined, Validate, Assemble
<1>2. CASE ~Host
  BY <1>2, OthersLeaveTheHost
<1> QED
  BY <1>1, <1>2

LEMMA PlanPositions ==
  ASSUME HostInv, plan # Detect
  PROVE  /\ Len(plan) \in Nat
         /\ DOMAIN plan = 1..Len(plan)
         /\ \A i \in DOMAIN plan : plan[i] \in DOMAIN Plugin
<1>1. plan \in Seq(DOMAIN Plugin)
  BY HostAssumption DEF HostInv, HostTypeInv, HostTypeOK
<1> QED
  BY <1>1

(* The plan moves on only between two programs; while one is asked, the    *)
(* position stays.                                                         *)
LEMMA PositionStep ==
  ASSUME HostInv, [HostNext]_allVars
  PROVE  \/ Asking' /\ next' = next /\ (Asking \/ (plan # Detect /\ next <= Len(plan) /\ ProgramAt(next)))
         \/ ~Asking'
<1>1. CASE ~Host
  BY <1>1, OthersLeaveTheHost DEF Asking
<1>2. CASE Select
  BY <1>2, SelectCases DEF Asking, Keep, ProgramAt, Current
<1>3. CASE DetectPlugins \/ EndSelection \/ ReportPlugins \/ Assemble
  BY <1>3, AssembleCases DEF Asking, DetectPlugins, EndSelection, ReportPlugins, Keep
<1>4. CASE \/ Spawn \/ NoSpawn \/ Write \/ WriteFails \/ StartReader \/ Exited \/ WaitFails
           \/ TimedOut \/ Kill \/ Drained \/ Joined \/ Validate
  BY <1>4 DEF Asking, Spawn, NoSpawn, Write, WriteFails, StartReader, Exited, WaitFails,
     TimedOut, Kill, Drained, Joined, Validate
<1> QED
  BY <1>1, <1>2, <1>3, <1>4 DEF Host

LEMMA AskingStep ==
  ASSUME HostInv, [HostNext]_allVars
  PROVE  AskingAProgram' /\ RequestFits' /\ ProfileIsAsked' /\ PlanIsRead'
<1>0. /\ HostTypeInv /\ AskingAProgram /\ RequestFits /\ ProfileIsAsked /\ PlanIsRead
      /\ next \in Nat \ {0}
      /\ UNCHANGED inputVars
      /\ asked \in 0..Len(profiles)
      /\ Len(profiles) \in Nat
  BY InputsStay, HostAssumption DEF HostInv, HostTypeInv, HostTypeOK
<1>1. AskingAProgram'
  <2> SUFFICES ASSUME Asking'
               PROVE  plan # Detect /\ next' = next /\ next \in DOMAIN plan /\ ProgramAt(next)
    BY <1>0 DEF AskingAProgram, ProgramAt, inputVars
  <2>1. next' = next /\ (Asking \/ (plan # Detect /\ next <= Len(plan) /\ ProgramAt(next)))
    BY PositionStep
  <2> QED
    BY <1>0, <2>1, PlanPositions DEF AskingAProgram
<1>2. RequestFits'
  <2> SUFFICES ASSUME pc' = "write"
               PROVE  next' = next /\ Current.request <= MaxMessage
    BY <1>0 DEF RequestFits, Current, inputVars
  <2>1. CASE ~Host
    BY <1>0, <2>1, OthersLeaveTheHost DEF RequestFits
  <2>2. CASE Host
    <3>1. Write \/ Spawn
      BY <2>2, SelectCases, AssembleCases
       DEF Host, DetectPlugins, EndSelection, ReportPlugins, NoSpawn, WriteFails,
         StartReader, Exited, WaitFails, TimedOut, Kill, Drained, Joined, Validate, Keep, Fail
    <3> QED
      BY <1>0, <3>1 DEF Write, Spawn, RequestFits
  <2> QED
    BY <2>1, <2>2
<1>3. ProfileIsAsked'
  <2> SUFFICES ASSUME InCall' \/ pc' = "validate"
               PROVE  asked' = asked /\ asked < Len(profiles)
    BY <1>0 DEF ProfileIsAsked, inputVars
  <2>1. CASE ~Host
    BY <1>0, <2>1, OthersLeaveTheHost DEF ProfileIsAsked, InCall
  <2>2. CASE Spawn
    BY <2>2, <1>0 DEF Spawn
  <2>3. CASE Write \/ StartReader \/ Exited \/ TimedOut \/ Kill \/ Joined
    BY <1>0, <2>3 DEF Write, StartReader, Exited, TimedOut, Kill, Joined, ProfileIsAsked, InCall
  <2>4. ~Select /\ ~Assemble
    BY SelectCases, AssembleCases DEF InCall, Keep
  <2>5. ~(\/ DetectPlugins \/ EndSelection \/ ReportPlugins \/ NoSpawn \/ WriteFails
          \/ WaitFails \/ Drained \/ Validate)
    BY DEF DetectPlugins, EndSelection, ReportPlugins, NoSpawn, WriteFails, WaitFails, Drained, Validate,
       Fail, InCall
  <2> QED
    BY <2>1, <2>2, <2>3, <2>4, <2>5 DEF Host
<1>4. PlanIsRead'
  <2> SUFFICES ASSUME pc' \in {"report", "done"}, plan # Detect
               PROVE  next' = next /\ next > Len(plan)
    BY <1>0 DEF PlanIsRead, inputVars
  <2>1. CASE ~Host
    BY <1>0, <2>1, OthersLeaveTheHost DEF PlanIsRead
  <2>2. CASE Host
    <3>1. EndSelection \/ ReportPlugins
      BY <2>2, SelectCases, AssembleCases DEF Host, DetectPlugins, Spawn, Write, NoSpawn, WriteFails,
         StartReader, Exited, WaitFails, TimedOut, Kill, Drained, Joined, Validate, Keep, Fail
    <3> QED
      BY <1>0, <3>1 DEF EndSelection, ReportPlugins, PlanIsRead
  <2> QED
    BY <2>1, <2>2
<1> QED
  BY <1>1, <1>2, <1>3, <1>4

-----------------------------------------------------------------------------
(* How a call ends.                                                        *)

LEMMA FailLeavesNoneReading ==
  ASSUME NoProgramOutlivesItsCall, NEW printable, Fail(printable),
         Running => child.input = "closed"
  PROVE  NoProgramOutlivesItsCall'
BY DEF NoProgramOutlivesItsCall, Fail

LEMMA CallEndsStep ==
  ASSUME HostInv, [HostNext]_allVars
  PROVE  CallEndsProgram' /\ NoProgramOutlivesItsCall'
<1>0. /\ CallEndsProgram /\ NoProgramOutlivesItsCall /\ HostTypeInv
      /\ child.input \in {"open", "closed"}
      /\ child \in [state : {"none", "running", "ok", "fail"}, input : {"open", "closed"}, wrote : Nat]
  BY DEF HostInv, HostTypeInv
<1> USE DEF CallEndsProgram, Running, InCall
<1>1. CASE UNCHANGED allVars
  BY <1>0, <1>1 DEF allVars, callVars, historyVars, NoProgramOutlivesItsCall
<1>2. CASE Program
  BY <1>0, <1>2 DEF Program, ProgramReads, ProgramCloses, ProgramWrites, ProgramForks,
     ProgramExits, HeirExits, hostVars, historyVars, NoProgramOutlivesItsCall
<1>3. CASE Reader \/ DeadlinePasses
  BY <1>0, <1>3 DEF Reader, Read, ReadEnds, DeadlinePasses, historyVars, NoProgramOutlivesItsCall
<1>4. CASE DetectPlugins \/ EndSelection \/ ReportPlugins
  BY <1>0, <1>4 DEF DetectPlugins, EndSelection, ReportPlugins, callVars, historyVars,
                      NoProgramOutlivesItsCall
<1>5. CASE Select \/ Assemble
  <2>1. /\ pc \in {"select", "assemble", "request"} /\ pc' \in {"select", "failed", "request"}
        /\ UNCHANGED <<callVars, historyVars>>
    BY <1>5, SelectCases, AssembleCases DEF Keep
  <2> QED
    BY <1>0, <2>1 DEF callVars, historyVars, NoProgramOutlivesItsCall
<1>6. CASE Spawn
  BY <1>0, <1>6 DEF Spawn, historyVars, NoProgramOutlivesItsCall
<1>7. CASE NoSpawn \/ WaitFails \/ Drained
  <2>1. PICK printable \in BOOLEAN :
          Fail(printable) /\ (Running => child.input = "closed") /\ child' = child
    BY <1>0, <1>7 DEF NoSpawn, WaitFails, Drained, callVars
  <2> QED
    BY <1>0, <2>1, FailLeavesNoneReading DEF Fail
<1>8. CASE WriteFails
  <2>1. Fail(TRUE) /\ (Running => child.input = "closed") /\ child' = child
    BY <1>0, <1>8 DEF WriteFails, InputOpen, callVars
  <2> QED
    BY <1>0, <2>1, FailLeavesNoneReading DEF Fail
<1>9. CASE Write \/ StartReader \/ Exited \/ TimedOut
  BY <1>0, <1>9 DEF Write, StartReader, Exited, TimedOut, callVars, historyVars,
     NoProgramOutlivesItsCall
<1>10. CASE Kill
  BY <1>0, <1>10 DEF Kill, historyVars, NoProgramOutlivesItsCall
<1>11. CASE Joined
  <2>1. CASE \E printable \in BOOLEAN : Fail(printable)
    BY <1>0, <1>11, <2>1, FailLeavesNoneReading DEF Joined, Fail, callVars
  <2>2. CASE pc' = "validate" /\ UNCHANGED <<contributions, stray>>
    BY <1>0, <1>11, <2>2 DEF Joined, callVars, NoProgramOutlivesItsCall
  <2> QED
    BY <1>0, <1>11, <2>1, <2>2, JoinedCases
<1>12. CASE Validate
  <2>1. CASE ResponseValid(package, Profile, Capability, answer)
    BY <1>0, <1>12, <2>1 DEF Validate, callVars, NoProgramOutlivesItsCall
  <2>2. CASE ~ResponseValid(package, Profile, Capability, answer)
    <3>1. Fail(answer.quotable) /\ ~Running /\ child' = child
      BY <1>0, <1>12, <2>2 DEF Validate, callVars
    <3> QED
      BY <1>0, <3>1, FailLeavesNoneReading DEF Fail
  <2> QED
    BY <2>1, <2>2
<1> QED
  BY <1>1, <1>2, <1>3, <1>4, <1>5, <1>6, <1>7, <1>8, <1>9, <1>10, <1>11, <1>12 DEF HostNext, Host

(* The step into validation has seen the whole answer and a good exit, and *)
(* nothing moves until it is validated.                                    *)
LEMMA ValidatedStep ==
  ASSUME HostInv, [HostNext]_allVars
  PROVE  ValidatedIsWhole'
<1>0. /\ ValidatedIsWhole /\ CallEndsProgram
  BY DEF HostInv
<1> SUFFICES ASSUME pc' = "validate"
             PROVE  /\ child'.state = "ok" /\ reader' = "ended" /\ got' = answer'.size /\ got' <= MaxResponse
  BY DEF ValidatedIsWhole
<1>1. CASE UNCHANGED allVars
  BY <1>0, <1>1 DEF allVars, callVars, ValidatedIsWhole
<1>2. CASE Program
  BY <1>2 DEF Program, ProgramReads, ProgramCloses, ProgramWrites, ProgramForks,
     ProgramExits, HeirExits, hostVars, InCall
<1>3. CASE Reader \/ DeadlinePasses
  BY <1>0, <1>3 DEF Reader, Read, ReadEnds, DeadlinePasses, ValidatedIsWhole
<1>4. CASE Joined
  BY <1>4 DEF Joined, Fail, Parses, callVars
<1>5. ~Select /\ ~Assemble
  BY SelectCases, AssembleCases DEF Keep
<1>6. CASE Host
  BY <1>4, <1>5, <1>6 DEF Host, DetectPlugins, EndSelection, ReportPlugins, Spawn, NoSpawn, Write, WriteFails,
     StartReader, Exited, WaitFails, TimedOut, Kill, Drained, Validate, Fail
<1> QED
  BY <1>1, <1>2, <1>3, <1>6 DEF HostNext

-----------------------------------------------------------------------------
(* What was accepted stays accepted.                                       *)

LEMMA AcceptedStep ==
  ASSUME [HostNext]_allVars
  PROVE  accepted \subseteq accepted'
<1>1. CASE ~Host
  BY <1>1, OthersLeaveTheHost
<1>2. CASE Host
  BY <1>2 DEF Host, DetectPlugins, Select, EndSelection, ReportPlugins, Spawn, NoSpawn, Write, WriteFails,
     StartReader, Exited, WaitFails, TimedOut, Kill, Drained, Joined, Validate, Assemble, historyVars
<1> QED
  BY <1>1, <1>2

LEMMA VouchedStays ==
  ASSUME [HostNext]_allVars, NEW f, Vouched(f)
  PROVE  Vouched(f)'
BY AcceptedStep DEF Vouched

LEMMA AnsweredStays ==
  ASSUME [HostNext]_allVars, NEW i, NEW p, Answered(i, p)
  PROVE  Answered(i, p)'
BY AcceptedStep DEF Answered

-----------------------------------------------------------------------------
(* What a validated answer adds.                                           *)

LEMMA ValidateAccepts ==
  ASSUME HostInv, Validate, ResponseValid(package, Profile, Capability, answer)
  PROVE  /\ contributions'.facts = contributions.facts \cup answer.contributions.facts
         /\ \A f \in answer.contributions.facts : Vouched(f)'
         /\ asked' = asked + 1 /\ pc' = "request"
         /\ \A i, p : i = next /\ p = asked + 1 => Answered(i, p)'
         /\ UNCHANGED <<inputVars, next, selected, diagnostics>>
<1>1. /\ contributions' = Merge(contributions, answer.contributions)
      /\ accepted' = accepted \cup
           {[plugin |-> next, profile |-> asked + 1, answer |-> answer,
             exit |-> child.state, got |-> got]}
      /\ asked' = asked + 1 /\ pc' = "request"
      /\ UNCHANGED <<inputVars, next, selected, diagnostics>>
      /\ pc = "validate"
  BY DEF Validate
<1>2. PICK F, D : contributions = [facts |-> F, diagnostics |-> D, sorted |-> TRUE]
  BY DEF HostInv, HostTypeInv
<1>3. contributions'.facts = contributions.facts \cup answer.contributions.facts
  BY <1>1, <1>2 DEF Merge, Canonicalize
<1> DEFINE call == [plugin |-> next, profile |-> asked + 1, answer |-> answer,
                    exit |-> child.state, got |-> got]
<1>4. call \in accepted'
  BY <1>1
<1>5. /\ call.plugin = next /\ call.profile = asked + 1 /\ call.answer = answer
      /\ call.exit = child.state /\ call.got = got
  OBVIOUS
<1> HIDE DEF call
<1>6. \A i, p : i = next /\ p = asked + 1 => Answered(i, p)'
  BY <1>1, <1>4, <1>5 DEF Answered
<1>7. /\ call.exit = "ok"
      /\ call.got = call.answer.size /\ call.answer.size <= MaxResponse
  BY <1>1, <1>5 DEF HostInv, ValidatedIsWhole
<1>8. StatusValid(answer)
  BY DEF ResponseValid
<1>9. ASSUME NEW f \in answer.contributions.facts
      PROVE  Vouched(f)'
  <2>1. answer.status = "Complete"
    BY <1>8, <1>9 DEF StatusValid, EmptyExceptDiagnostics
  <2> QED
    BY <1>4, <1>5, <1>7, <1>9, <2>1 DEF Vouched
<1> QED
  BY <1>1, <1>3, <1>6, <1>9

(* What the contributions of the current program become.                   *)
LEMMA ContributionsStep ==
  ASSUME HostInv, [HostNext]_allVars
  PROVE  \/ Validate /\ ResponseValid(package, Profile, Capability, answer)
         \/ contributions'.facts = {}
         \/ contributions'.facts = contributions.facts
<1>0. HostTypeInv /\ TRUE \in BOOLEAN
  BY DEF HostInv
<1>1. CASE ~Host
  BY <1>1, OthersLeaveTheHost
<1>2. CASE NoSpawn \/ WriteFails \/ WaitFails \/ Drained
  BY <1>0, <1>2, FailBlocks DEF NoSpawn, WriteFails, WaitFails, Drained
<1>3. CASE Joined
  BY <1>0, <1>3, FailBlocks, JoinedCases
<1>4. CASE Validate /\ ~ResponseValid(package, Profile, Capability, answer)
  <2>1. answer.quotable \in BOOLEAN
    BY <1>0, <1>4, HostAssumption DEF Validate, HostTypeInv
  <2> QED
    BY <1>0, <1>4, <2>1, FailBlocks DEF Validate
<1>5. CASE Select
  BY <1>5, SelectCases DEF NoContributions
<1>6. CASE Assemble
  BY <1>6, AssembleCases
<1>7. CASE DetectPlugins \/ EndSelection \/ ReportPlugins \/ Spawn \/ Write \/ StartReader \/ Exited \/ TimedOut \/ Kill
  BY <1>7 DEF DetectPlugins, EndSelection, ReportPlugins, Spawn, Write, StartReader, Exited, TimedOut, Kill
<1> QED
  BY <1>1, <1>2, <1>3, <1>4, <1>5, <1>6, <1>7 DEF Host

(* What the selection becomes: a plugin of the plan is kept under its id,  *)
(* or nothing changes.                                                     *)
LEMMA SelectionStep ==
  ASSUME HostInv, [HostNext]_allVars
  PROVE  \/ plan = Detect
         \/ selected' = selected
         \/ /\ Select /\ Current.kind # "program" /\ Keep(Current.contributions)
            /\ UNCHANGED <<asked, contributions>>
         \/ Assemble /\ Keep(Canonicalize(contributions))
<1>1. CASE ~Host
  BY <1>1, OthersLeaveTheHost
<1>2. CASE Select
  BY <1>2, SelectCases
<1>3. CASE Assemble
  BY <1>3, AssembleCases
<1>4. CASE DetectPlugins
  BY <1>4 DEF DetectPlugins
<1>5. CASE Host /\ ~Select /\ ~Assemble /\ ~DetectPlugins
  BY <1>5 DEF Host, EndSelection, ReportPlugins, Spawn, NoSpawn, Write, WriteFails,
     StartReader, Exited, WaitFails, TimedOut, Kill, Drained, Joined, Validate
<1> QED
  BY <1>1, <1>2, <1>3, <1>4, <1>5

LEMMA KeepSelects ==
  ASSUME NEW contributed, Keep(contributed)
  PROVE  /\ DOMAIN selected' = DOMAIN selected \cup {Current.id}
         /\ selected'[Current.id].name = plan[next]
         /\ selected'[Current.id].facts = contributed.facts
         /\ selected'[Current.id].diagnostics = contributed.diagnostics
         /\ \A id \in DOMAIN selected : id # Current.id => selected'[id] = selected[id]
         /\ next' = next + 1 /\ pc' = "select"
<1>1. selected' = [id \in DOMAIN selected \cup {Current.id} |->
                     IF id = Current.id THEN Chosen(plan[next], contributed, TRUE)
                     ELSE selected[id]]
  BY DEF Keep
<1>2. selected'[Current.id] = Chosen(plan[next], contributed, TRUE)
  BY <1>1
<1> QED
  BY <1>1, <1>2 DEF Keep, Chosen

LEMMA FactsStep ==
  ASSUME HostInv, [HostNext]_allVars
  PROVE  FactsAreVouchedFor'
<1>0. /\ FactsAreVouchedFor /\ HostTypeInv
      /\ UNCHANGED inputVars
  BY InputsStay DEF HostInv
<1>1. \A f \in contributions.facts : Vouched(f)'
  BY <1>0, VouchedStays DEF FactsAreVouchedFor
<1>2. \A f \in contributions'.facts : Vouched(f)'
  BY <1>1, ContributionsStep, ValidateAccepts
<1>3. ASSUME NEW id \in DOMAIN selected', plan # Detect,
             Plugin[selected'[id].name].kind = "program", NEW f \in selected'[id].facts
      PROVE  Vouched(f)'
  <2>1. CASE id \in DOMAIN selected /\ selected'[id] = selected[id]
    <3>1. Vouched(f)
      BY <1>0, <1>3, <2>1 DEF FactsAreVouchedFor
    <3> QED
      BY <3>1, VouchedStays
  <2>2. CASE Select /\ Current.kind # "program" /\ Keep(Current.contributions)
    <3>1. id # Current.id
      BY <1>3, <2>2, KeepSelects DEF Current
    <3> QED
      BY <1>3, <2>1, <2>2, <3>1, KeepSelects
  <2>3. CASE Assemble /\ Keep(Canonicalize(contributions))
    <3>1. CASE id # Current.id
      BY <1>3, <2>1, <2>3, <3>1, KeepSelects
    <3>2. CASE id = Current.id
      <4>1. f \in Canonicalize(contributions).facts
        BY <1>3, <2>3, <3>2, KeepSelects
      <4>2. PICK F, D : contributions = [facts |-> F, diagnostics |-> D, sorted |-> TRUE]
        BY <1>0 DEF HostTypeInv
      <4>3. f \in contributions.facts
        BY <4>1, <4>2 DEF Canonicalize
      <4> QED
        BY <1>1, <4>3
    <3> QED
      BY <3>1, <3>2
  <2>4. CASE selected' = selected
    BY <1>3, <2>1, <2>4
  <2> QED
    BY <1>3, <2>2, <2>3, <2>4, SelectionStep
<1> QED
  BY <1>0, <1>2, <1>3 DEF FactsAreVouchedFor, inputVars

-----------------------------------------------------------------------------
(* No failure is silent.                                                   *)

LEMMA AskedStep ==
  ASSUME HostInv, [HostNext]_allVars
  PROVE  AskedIsAnswered'
<1>0. /\ HostTypeInv /\ AskedIsAnswered
      /\ asked \in 0..Len(profiles) /\ asked \in Nat
      /\ TRUE \in BOOLEAN
  BY HostAssumption DEF HostInv, HostTypeInv, HostTypeOK
<1> SUFFICES ASSUME Asking'
             PROVE  /\ \A p \in 1..asked' : Answered(next, p)'
                    /\ pc' = "assemble" => Blocking(contributions'.diagnostics)
  BY DEF AskedIsAnswered
<1>1. next' = next
  BY PositionStep
<1>2. Asking => \A p \in 1..asked : Answered(next, p)'
  <2> SUFFICES ASSUME Asking, NEW p \in 1..asked PROVE Answered(next, p)'
    OBVIOUS
  <2>1. PICK i : i = next
    OBVIOUS
  <2>2. Answered(i, p)
    BY <1>0, <2>1 DEF AskedIsAnswered
  <2>3. Answered(i, p)'
    BY <2>2, AnsweredStays
  <2>4. i = next'
    BY <1>1, <2>1
  <2> QED
    BY <2>3, <2>4 DEF Answered
<1>3. CASE ~Host
  BY <1>0, <1>2, <1>3, OthersLeaveTheHost DEF Asking, AskedIsAnswered
<1>4. CASE NoSpawn \/ WriteFails \/ WaitFails \/ Drained
  <2>1. (\E printable \in BOOLEAN : Fail(printable)) /\ asked' = asked /\ Asking
    BY <1>4 DEF NoSpawn, WriteFails, WaitFails, Drained, Asking
  <2> QED
    BY <1>0, <1>2, <2>1, FailBlocks
<1>5. CASE Joined
  <2>1. asked' = asked /\ Asking
    BY <1>5 DEF Joined, Asking
  <2> QED
    BY <1>0, <1>2, <1>5, <2>1, FailBlocks, JoinedCases
<1>6. CASE Validate /\ ~ResponseValid(package, Profile, Capability, answer)
  <2>1. Fail(answer.quotable) /\ asked' = asked /\ Asking /\ answer \in Answers
    BY <1>0, <1>6 DEF Validate, Asking, HostTypeInv
  <2>2. answer.quotable \in BOOLEAN
    BY <2>1, HostAssumption
  <2> QED
    BY <1>0, <1>2, <2>1, <2>2, FailBlocks
<1>7. CASE Validate /\ ResponseValid(package, Profile, Capability, answer)
  <2>1. asked' = asked + 1 /\ pc' = "request" /\ Asking
    BY <1>7, ValidateAccepts DEF Validate, Asking
  <2>2. \A p \in 1..asked' : p \in 1..asked \/ p = asked + 1
    BY <1>0, <2>1
  <2>3. ASSUME NEW p, p = asked + 1 PROVE Answered(next, p)'
    <3>1. PICK i : i = next
      OBVIOUS
    <3>2. Answered(i, p)'
      BY <1>7, <2>3, <3>1, ValidateAccepts
    <3> QED
      BY <1>1, <3>1, <3>2 DEF Answered
  <2> QED
    BY <1>2, <2>1, <2>2, <2>3
<1>8. CASE Select
  <2>1. pc' = "request" /\ asked' = 0
    BY <1>8, SelectCases DEF Asking, Keep
  <2>2. 1..asked' = {}
    BY <2>1
  <2> QED
    BY <2>1, <2>2
<1>9. CASE Spawn \/ Write \/ StartReader \/ Exited \/ TimedOut \/ Kill
  <2>1. asked' = asked /\ Asking /\ pc' # "assemble"
    BY <1>9 DEF Spawn, Write, StartReader, Exited, TimedOut, Kill, Asking
  <2> QED
    BY <1>2, <2>1
<1>10. CASE DetectPlugins \/ EndSelection \/ ReportPlugins \/ Assemble
  BY <1>10, AssembleCases DEF DetectPlugins, EndSelection, ReportPlugins, Keep, Asking
<1> QED
  BY <1>3, <1>4, <1>5, <1>6, <1>7, <1>8, <1>9, <1>10 DEF Host

(* An assembled program has answered, or its diagnostics block.            *)
LEMMA AssembledHasAnswered ==
  ASSUME HostInv, Assemble
  PROVE  \/ Blocking(Canonicalize(contributions).diagnostics)
         \/ \A p \in DOMAIN profiles : Answered(next, p)
<1>0. AskedIsAnswered /\ HostTypeInv /\ profiles \in ProfileLists
  BY DEF HostInv, HostTypeInv, HostTypeOK
<1>1. CASE pc = "assemble"
  <2>1. Blocking(contributions.diagnostics)
    BY <1>0, <1>1 DEF AskedIsAnswered, Asking
  <2>2. PICK F, D : contributions = [facts |-> F, diagnostics |-> D, sorted |-> TRUE]
    BY <1>0 DEF HostTypeInv
  <2>3. Canonicalize(contributions).diagnostics = contributions.diagnostics
    BY <2>2 DEF Canonicalize
  <2> QED
    BY <2>1, <2>3
<1>2. CASE pc = "request" /\ asked = Len(profiles)
  BY <1>0, <1>2, HostAssumption DEF AskedIsAnswered, Asking
<1> QED
  BY <1>1, <1>2, AssembleCases

LEMMA KeptStep ==
  ASSUME HostInv, [HostNext]_allVars
  PROVE  KeptHasAnswered'
<1>0. /\ KeptHasAnswered /\ HostTypeInv /\ AskingAProgram
      /\ next \in Nat \ {0}
      /\ UNCHANGED inputVars
  BY InputsStay DEF HostInv, HostTypeInv
<1> SUFFICES ASSUME plan # Detect, NEW i \in DOMAIN plan,
                    i < next', ProgramAt(i), LastSoFar(i)'
             PROVE  /\ Plugin[plan[i]].id \in DOMAIN selected'
                    /\ \/ Blocking(selected'[Plugin[plan[i]].id].diagnostics)
                       \/ \A p \in DOMAIN profiles : Answered(i, p)'
  BY <1>0 DEF KeptHasAnswered, inputVars, ProgramAt
<1> DEFINE id == Plugin[plan[i]].id
<1>1. i \in Nat /\ \A j \in DOMAIN plan : j \in Nat
  BY PlanPositions
<1>2. ASSUME i < next, next' \in {next, next + 1}
      PROVE  /\ id \in DOMAIN selected
             /\ \/ Blocking(selected[id].diagnostics)
                \/ \A p \in DOMAIN profiles : Answered(i, p)'
  <2>1. LastSoFar(i)
    BY <1>0, <1>1, <1>2 DEF LastSoFar, inputVars
  <2>2. /\ id \in DOMAIN selected
        /\ \/ Blocking(selected[id].diagnostics)
           \/ \A p \in DOMAIN profiles : Answered(i, p)
    BY <1>0, <1>2, <2>1 DEF KeptHasAnswered
  <2> QED
    BY <2>2, AnsweredStays
<1>3. ASSUME NEW contributed, Keep(contributed), next \in DOMAIN plan, i # next
      PROVE  /\ id \in DOMAIN selected'
             /\ \/ Blocking(selected'[id].diagnostics)
                \/ \A p \in DOMAIN profiles : Answered(i, p)'
  <2>1. i < next /\ next < next' /\ next' = next + 1
    BY <1>0, <1>1, <1>3, KeepSelects
  <2>2. id # Current.id
    BY <1>0, <1>3, <2>1 DEF LastSoFar, Current, inputVars
  <2> QED
    BY <1>2, <1>3, <2>1, <2>2, KeepSelects
<1>4. CASE selected' = selected /\ next' = next
  BY <1>2, <1>4
<1>5. CASE Select /\ Current.kind # "program" /\ Keep(Current.contributions)
  <2>1. i # next
    BY <1>5 DEF Current, ProgramAt
  <2>2. next \in DOMAIN plan
    BY <1>0, <1>5, SelectCases, PlanPositions
  <2> QED
    BY <1>3, <1>5, <2>1, <2>2
<1>6. CASE Assemble /\ Keep(Canonicalize(contributions))
  <2>1. next \in DOMAIN plan
    BY <1>0, <1>6, AssembleCases DEF AskingAProgram, Asking
  <2>2. CASE i # next
    BY <1>3, <1>6, <2>1, <2>2
  <2>3. CASE i = next
    <3>1. id = Current.id
      BY <2>3 DEF Current
    <3>2. \/ Blocking(Canonicalize(contributions).diagnostics)
          \/ \A p \in DOMAIN profiles : Answered(i, p)
      BY <1>6, <2>3, AssembledHasAnswered
    <3>3. /\ id \in DOMAIN selected'
          /\ selected'[id].diagnostics = Canonicalize(contributions).diagnostics
      BY <1>6, <3>1, KeepSelects
    <3> QED
      BY <3>2, <3>3, AnsweredStays
  <2> QED
    BY <2>2, <2>3
<1>7. \/ selected' = selected /\ next' = next
      \/ Select /\ Current.kind # "program" /\ Keep(Current.contributions)
      \/ Assemble /\ Keep(Canonicalize(contributions))
  <2>1. CASE ~Host
    BY <2>1, OthersLeaveTheHost
  <2>2. CASE Select
    BY <2>2, SelectCases
  <2>3. CASE Assemble
    BY <2>3, AssembleCases
  <2>4. CASE Host /\ ~Select /\ ~Assemble
    BY <2>4 DEF Host, DetectPlugins, EndSelection, ReportPlugins, Spawn, NoSpawn, Write, WriteFails,
       StartReader, Exited, WaitFails, TimedOut, Kill, Drained, Joined, Validate
  <2> QED
    BY <2>1, <2>2, <2>3, <2>4
<1> QED
  BY <1>4, <1>5, <1>6, <1>7

LEMMA ReportStep ==
  ASSUME HostInv, [HostNext]_allVars
  PROVE  ReportIsWhole'
<1>0. ReportIsWhole
  BY DEF HostInv
<1> SUFFICES ASSUME pc' = "done"
             PROVE  \A id \in DOMAIN selected' : selected'[id].diagnostics \subseteq diagnostics'
  BY DEF ReportIsWhole
<1>1. CASE ~Host
  BY <1>0, <1>1, OthersLeaveTheHost DEF ReportIsWhole
<1>2. CASE ReportPlugins
  BY <1>2 DEF ReportPlugins
<1>3. ~Select /\ ~Assemble
  BY SelectCases, AssembleCases DEF Keep
<1>4. CASE Host /\ ~ReportPlugins
  BY <1>3, <1>4 DEF Host, DetectPlugins, EndSelection, Spawn, NoSpawn, Write, WriteFails,
     StartReader, Exited, WaitFails, TimedOut, Kill, Drained, Joined, Validate, Fail
<1> QED
  BY <1>1, <1>2, <1>4

-----------------------------------------------------------------------------

LEMMA HostInvInit == HostInit => HostInv
<1> SUFFICES ASSUME HostInit PROVE HostInv
  OBVIOUS
<1>1. HostTypeInv
  BY HostTypeInit
<1>2. contributions.facts = {} /\ DOMAIN selected = {}
  BY DEF HostInit, NoContributions
<1>3. FactsAreVouchedFor
  BY <1>2 DEF FactsAreVouchedFor
<1>4. KeptHasAnswered
  <2> SUFFICES ASSUME plan # Detect, NEW i \in DOMAIN plan PROVE ~(i < next)
    BY DEF KeptHasAnswered
  <2>1. plan \in Seq(DOMAIN Plugin) /\ next = 1
    BY HostAssumption DEF HostInit
  <2> QED
    BY <2>1
<1>5. AskingAProgram /\ RequestFits /\ ProfileIsAsked /\ PlanIsRead /\ CallEndsProgram
      /\ ValidatedIsWhole /\ AskedIsAnswered /\ ReportIsWhole /\ NoProgramOutlivesItsCall
  BY DEF HostInit, AskingAProgram, RequestFits, ProfileIsAsked, PlanIsRead, CallEndsProgram, Running,
     ValidatedIsWhole, AskedIsAnswered, ReportIsWhole, NoProgramOutlivesItsCall, Asking, InCall, Silent
<1> QED
  BY <1>1, <1>3, <1>4, <1>5 DEF HostInv

LEMMA HostInvStep == HostInv /\ [HostNext]_allVars => HostInv'
<1> SUFFICES ASSUME HostInv, [HostNext]_allVars PROVE HostInv'
  OBVIOUS
<1> QED
  BY HostTypeStep, AskingStep, CallEndsStep, ValidatedStep, FactsStep, AskedStep, KeptStep, ReportStep
  DEF HostInv

LEMMA HostInvariant == HostSpec => []HostInv
BY HostInvInit, HostInvStep, PTL DEF HostSpec

(* Every message between the host and a program stays within its bound:    *)
(* the request, what is read of the answer, and what the pipes hold.       *)
THEOREM HostTypeCorrect == HostSpec => []HostTypeOK
<1>1. HostInv => HostTypeOK
  BY DEF HostInv, HostTypeInv
<1> QED
  BY <1>1, HostInvariant, PTL

(* A fact of a program that reaches the analysis was read whole, from a    *)
(* run that succeeded and called its answer complete (validate_response).  *)
THEOREM ProgramFactsAreVouchedFor == HostSpec => []FactsAreVouchedFor
<1>1. HostInv => FactsAreVouchedFor
  BY DEF HostInv
<1> QED
  BY <1>1, HostInvariant, PTL

(* A report of the plugins that blocks nothing has an answer of every      *)
(* program kept for every profile.                                         *)
THEOREM SilenceMeansEveryAnswer == HostSpec => []SilentMeansAnswered
<1>1. HostInv => SilentMeansAnswered
  <2> SUFFICES ASSUME HostInv, pc = "done", plan # Detect, ~(\E d \in diagnostics : d.blocks),
                      NEW i \in DOMAIN plan, ProgramAt(i),
                      \A j \in DOMAIN plan : j > i => Plugin[plan[j]].id # Plugin[plan[i]].id
               PROVE  \A p \in DOMAIN profiles : Answered(i, p)
    BY DEF SilentMeansAnswered
  <2>1. i < next /\ LastSoFar(i)
    BY PlanPositions DEF HostInv, HostTypeInv, PlanIsRead, LastSoFar
  <2>2. /\ Plugin[plan[i]].id \in DOMAIN selected
        /\ \/ Blocking(selected[Plugin[plan[i]].id].diagnostics)
           \/ \A p \in DOMAIN profiles : Answered(i, p)
    BY <2>1 DEF HostInv, KeptHasAnswered
  <2>3. ~Blocking(selected[Plugin[plan[i]].id].diagnostics)
    BY <2>2 DEF HostInv, ReportIsWhole, Blocking
  <2> QED
    BY <2>2, <2>3
<1> QED
  BY <1>1, HostInvariant, PTL

(* A program still running when its call has returned had closed its input *)
(* before the request was written.                                         *)
THEOREM CallsEndTheirPrograms == HostSpec => []NoProgramOutlivesItsCall
<1>1. HostInv => NoProgramOutlivesItsCall
  BY DEF HostInv
<1> QED
  BY <1>1, HostInvariant, PTL

-----------------------------------------------------------------------------
(* Layers of configuration.                                                *)

LEMMA MergeStates ==
  ASSUME NEW low, NEW high, NEW field, field # "targets"
  PROVE  /\ field \in DOMAIN MergeOverride(low, high) <=> field \in DOMAIN low \/ field \in DOMAIN high
         /\ field \in DOMAIN high => MergeOverride(low, high)[field] = high[field]
         /\ field \in DOMAIN low \ DOMAIN high => MergeOverride(low, high)[field] = low[field]
BY DEF MergeOverride, Over

(* What each source of static configuration says of a package.             *)
JsoncOf(p) == Field(project.jsonc.workspaces, p, NoOverride)
PackageOf(p) == Field(project.package.workspaces, p, NoOverride)

LEMMA PackageStates ==
  ASSUME loaded = Merged, NEW p, NEW field, field # "targets"
  PROVE  /\ field \in DOMAIN PackageConfiguration(p) <=>
              field \in DOMAIN JsoncOf(p) \/ field \in DOMAIN PackageOf(p)
         /\ field \in DOMAIN JsoncOf(p) => PackageConfiguration(p)[field] = JsoncOf(p)[field]
         /\ field \in DOMAIN PackageOf(p) \ DOMAIN JsoncOf(p) =>
              PackageConfiguration(p)[field] = PackageOf(p)[field]
<1> DEFINE high == project.jsonc.workspaces
           low == project.package.workspaces
           both == [w \in DOMAIN low \cap DOMAIN high |-> MergeOverride(low[w], high[w])]
           under == Over(high, low)
<1>1. loaded.workspaces = Over(both, under)
  BY DEF Merged
<1>2. DOMAIN both = DOMAIN low \cap DOMAIN high /\ DOMAIN under = DOMAIN high \cup DOMAIN low
  BY DEF Over
<1>3. /\ DOMAIN loaded.workspaces = DOMAIN high \cup DOMAIN low
      /\ p \in DOMAIN both => loaded.workspaces[p] = both[p]
      /\ p \in DOMAIN under \ DOMAIN both => loaded.workspaces[p] = under[p]
  BY <1>1, <1>2 DEF Over
<1>4. DOMAIN NoOverride = {"targets"}
  BY DEF NoOverride
<1>5. CASE p \in DOMAIN low \cap DOMAIN high
  <2>1. PackageConfiguration(p) = MergeOverride(low[p], high[p])
    BY <1>2, <1>3, <1>5 DEF PackageConfiguration, Field
  <2>2. JsoncOf(p) = high[p] /\ PackageOf(p) = low[p]
    BY <1>5 DEF JsoncOf, PackageOf, Field
  <2> HIDE DEF high, low, both, under
  <2> QED
    BY <2>1, <2>2, MergeStates
<1>6. CASE p \in DOMAIN high \ DOMAIN low
  <2>1. PackageConfiguration(p) = high[p]
    BY <1>2, <1>3, <1>6 DEF PackageConfiguration, Field, Over
  <2>2. JsoncOf(p) = high[p] /\ PackageOf(p) = NoOverride
    BY <1>6 DEF JsoncOf, PackageOf, Field
  <2> QED
    BY <1>4, <2>1, <2>2
<1>7. CASE p \in DOMAIN low \ DOMAIN high
  <2>1. PackageConfiguration(p) = low[p]
    BY <1>2, <1>3, <1>7 DEF PackageConfiguration, Field, Over
  <2>2. JsoncOf(p) = NoOverride /\ PackageOf(p) = low[p]
    BY <1>7 DEF JsoncOf, PackageOf, Field
  <2> QED
    BY <1>4, <2>1, <2>2
<1>8. CASE p \notin DOMAIN high \cup DOMAIN low
  <2>1. PackageConfiguration(p) = NoOverride /\ JsoncOf(p) = NoOverride /\ PackageOf(p) = NoOverride
    BY <1>3, <1>8 DEF PackageConfiguration, JsoncOf, PackageOf, Field
  <2> QED
    BY <1>4, <2>1
<1> QED
  BY <1>5, <1>6, <1>7, <1>8

(* The context of a package has each field from the highest layer with it. *)
LEMMA EffectiveStates ==
  ASSUME loaded = Merged, NEW p, NEW field, field # "targets"
  PROVE  LET cli == project.cli
             jsonc == project.jsonc.root
             stated == project.package.root
         IN  /\ field \in DOMAIN Effective(p) <=>
                  \/ field \in DOMAIN cli \/ field \in DOMAIN JsoncOf(p) \/ field \in DOMAIN PackageOf(p)
                  \/ field \in DOMAIN jsonc \/ field \in DOMAIN stated \/ field \in DOMAIN Inferred(p)
             /\ field \in DOMAIN Effective(p) =>
                  Effective(p)[field] =
                    IF field \in DOMAIN cli THEN cli[field]
                    ELSE IF field \in DOMAIN JsoncOf(p) THEN JsoncOf(p)[field]
                    ELSE IF field \in DOMAIN PackageOf(p) THEN PackageOf(p)[field]
                    ELSE IF field \in DOMAIN jsonc THEN jsonc[field]
                    ELSE IF field \in DOMAIN stated THEN stated[field]
                    ELSE Inferred(p)[field]
<1> DEFINE cli == project.cli
           jsonc == project.jsonc.root
           stated == project.package.root
           own == PackageConfiguration(p)
           root == loaded.root
           over == MergeOverride(Inferred(p), root)
           most == MergeOverride(over, own)
<1>1. root = MergeOverride(stated, jsonc)
  BY DEF Merged
<1>2. Effective(p) = MergeOverride(most, cli)
  BY DEF Effective
<1>3. /\ field \in DOMAIN root <=> field \in DOMAIN stated \/ field \in DOMAIN jsonc
      /\ field \in DOMAIN jsonc => root[field] = jsonc[field]
      /\ field \in DOMAIN stated \ DOMAIN jsonc => root[field] = stated[field]
  BY <1>1, MergeStates
<1>4. /\ field \in DOMAIN over <=> field \in DOMAIN Inferred(p) \/ field \in DOMAIN root
      /\ field \in DOMAIN root => over[field] = root[field]
      /\ field \in DOMAIN Inferred(p) \ DOMAIN root => over[field] = Inferred(p)[field]
  BY MergeStates
<1>5. /\ field \in DOMAIN most <=> field \in DOMAIN over \/ field \in DOMAIN own
      /\ field \in DOMAIN own => most[field] = own[field]
      /\ field \in DOMAIN over \ DOMAIN own => most[field] = over[field]
  BY MergeStates
<1>6. /\ field \in DOMAIN Effective(p) <=> field \in DOMAIN most \/ field \in DOMAIN cli
      /\ field \in DOMAIN cli => Effective(p)[field] = cli[field]
      /\ field \in DOMAIN most \ DOMAIN cli => Effective(p)[field] = most[field]
  BY <1>2, MergeStates
<1>7. /\ field \in DOMAIN own <=> field \in DOMAIN JsoncOf(p) \/ field \in DOMAIN PackageOf(p)
      /\ field \in DOMAIN JsoncOf(p) => own[field] = JsoncOf(p)[field]
      /\ field \in DOMAIN PackageOf(p) \ DOMAIN JsoncOf(p) => own[field] = PackageOf(p)[field]
  BY PackageStates
<1> HIDE DEF cli, jsonc, stated, own, root, over, most
<1> QED
  BY <1>3, <1>4, <1>5, <1>6, <1>7 DEF cli, jsonc, stated

(* The layers of a package by their places.                                *)
LEMMA LayersAre ==
  ASSUME NEW p
  PROVE  /\ Layers(p)[1].of = project.cli /\ Layers(p)[1].at = Root
         /\ Layers(p)[2].of = JsoncOf(p) /\ Layers(p)[2].at = p
         /\ Layers(p)[3].of = PackageOf(p) /\ Layers(p)[3].at = p
         /\ Layers(p)[4].of = project.jsonc.root /\ Layers(p)[4].at = Root
         /\ Layers(p)[5].of = project.package.root /\ Layers(p)[5].at = Root
BY DEF Layers, JsoncOf, PackageOf

LEMMA DecidingIs ==
  ASSUME NEW p, NEW field, NEW dirs, NEW i \in 1..5,
         Layers(p)[i].at \in dirs, field \in DOMAIN Layers(p)[i].of,
         \A j \in 1..(i - 1) : ~(Layers(p)[j].at \in dirs /\ field \in DOMAIN Layers(p)[j].of)
  PROVE  Deciding(p, field, dirs) = {Layers(p)[i]}
<1>1. ASSUME NEW k \in 1..5, k # i,
             Layers(p)[k].at \in dirs, field \in DOMAIN Layers(p)[k].of
      PROVE  \E j \in 1..(k - 1) : Layers(p)[j].at \in dirs /\ field \in DOMAIN Layers(p)[j].of
  <2>1. i < k
    BY <1>1
  <2> QED
    BY <2>1
<1> QED
  BY <1>1 DEF Deciding

LEMMA DecidingNone ==
  ASSUME NEW p, NEW field, NEW dirs,
         \A j \in 1..5 : ~(Layers(p)[j].at \in dirs /\ field \in DOMAIN Layers(p)[j].of)
  PROVE  Deciding(p, field, dirs) = {}
BY DEF Deciding

(* The layer that decides a field of a package is the one its context has  *)
(* the field from.                                                         *)
LEMMA EffectiveIsDecided ==
  ASSUME loaded = Merged, NEW p, NEW field, field # "targets"
  PROVE  LET deciding == Deciding(p, field, {p, Root}) IN
         \/ /\ deciding = {}
            /\ field \notin DOMAIN PackageConfiguration(p)
            /\ field \in DOMAIN Effective(p) <=> field \in DOMAIN Inferred(p)
            /\ field \in DOMAIN Inferred(p) => Effective(p)[field] = Inferred(p)[field]
         \/ \E layer : /\ deciding = {layer}
                       /\ field \in DOMAIN Effective(p)
                       /\ Effective(p)[field] = layer.of[field]
                       /\ field \notin DOMAIN project.cli =>
                            layer.at = IF field \in DOMAIN PackageConfiguration(p) THEN p ELSE Root
<1> DEFINE dirs == {p, Root}
           States(j) == field \in DOMAIN Layers(p)[j].of
<1>0. \A j \in 1..5 : Layers(p)[j].at \in dirs
  <2> SUFFICES ASSUME NEW j \in 1..5 PROVE Layers(p)[j].at \in dirs
    OBVIOUS
  <2>1. j = 1 \/ j = 2 \/ j = 3 \/ j = 4 \/ j = 5
    OBVIOUS
  <2> QED
    BY <2>1, LayersAre
<1>1. CASE States(1)
  <2>1. Deciding(p, field, dirs) = {Layers(p)[1]}
    BY <1>0, <1>1, DecidingIs
  <2>2. field \in DOMAIN project.cli
    BY <1>1, LayersAre
  <2>3. field \in DOMAIN Effective(p) /\ Effective(p)[field] = Layers(p)[1].of[field]
    BY <2>2, LayersAre, EffectiveStates
  <2> QED
    BY <2>1, <2>2, <2>3
<1>2. CASE ~States(1) /\ States(2)
  <2>1. Deciding(p, field, dirs) = {Layers(p)[2]}
    BY <1>0, <1>2, DecidingIs
  <2>2. field \notin DOMAIN project.cli /\ field \in DOMAIN JsoncOf(p)
    BY <1>2, LayersAre
  <2>3. field \in DOMAIN Effective(p) /\ Effective(p)[field] = Layers(p)[2].of[field]
    BY <2>2, LayersAre, EffectiveStates
  <2>4. field \in DOMAIN PackageConfiguration(p) /\ Layers(p)[2].at = p
    BY <2>2, LayersAre, PackageStates
  <2> QED
    BY <2>1, <2>3, <2>4
<1>3. CASE ~States(1) /\ ~States(2) /\ States(3)
  <2>1. Deciding(p, field, dirs) = {Layers(p)[3]}
    BY <1>0, <1>3, DecidingIs
  <2>2. field \notin DOMAIN project.cli /\ field \notin DOMAIN JsoncOf(p) /\ field \in DOMAIN PackageOf(p)
    BY <1>3, LayersAre
  <2>3. field \in DOMAIN Effective(p) /\ Effective(p)[field] = Layers(p)[3].of[field]
    BY <2>2, LayersAre, EffectiveStates
  <2>4. field \in DOMAIN PackageConfiguration(p) /\ Layers(p)[3].at = p
    BY <2>2, LayersAre, PackageStates
  <2> QED
    BY <2>1, <2>3, <2>4
<1>4. CASE ~States(1) /\ ~States(2) /\ ~States(3) /\ States(4)
  <2>1. Deciding(p, field, dirs) = {Layers(p)[4]}
    BY <1>0, <1>4, DecidingIs
  <2>2. /\ field \notin DOMAIN project.cli /\ field \notin DOMAIN JsoncOf(p)
        /\ field \notin DOMAIN PackageOf(p) /\ field \in DOMAIN project.jsonc.root
    BY <1>4, LayersAre
  <2>3. field \in DOMAIN Effective(p) /\ Effective(p)[field] = Layers(p)[4].of[field]
    BY <2>2, LayersAre, EffectiveStates
  <2>4. field \notin DOMAIN PackageConfiguration(p) /\ Layers(p)[4].at = Root
    BY <2>2, LayersAre, PackageStates
  <2> QED
    BY <2>1, <2>3, <2>4
<1>5. CASE ~States(1) /\ ~States(2) /\ ~States(3) /\ ~States(4) /\ States(5)
  <2>1. Deciding(p, field, dirs) = {Layers(p)[5]}
    BY <1>0, <1>5, DecidingIs
  <2>2. /\ field \notin DOMAIN project.cli /\ field \notin DOMAIN JsoncOf(p)
        /\ field \notin DOMAIN PackageOf(p) /\ field \notin DOMAIN project.jsonc.root
        /\ field \in DOMAIN project.package.root
    BY <1>5, LayersAre
  <2>3. field \in DOMAIN Effective(p) /\ Effective(p)[field] = Layers(p)[5].of[field]
    BY <2>2, LayersAre, EffectiveStates
  <2>4. field \notin DOMAIN PackageConfiguration(p) /\ Layers(p)[5].at = Root
    BY <2>2, LayersAre, PackageStates
  <2> QED
    BY <2>1, <2>3, <2>4
<1>6. CASE ~States(1) /\ ~States(2) /\ ~States(3) /\ ~States(4) /\ ~States(5)
  <2>1. Deciding(p, field, dirs) = {}
    BY <1>6, DecidingNone
  <2>2. /\ field \notin DOMAIN project.cli /\ field \notin DOMAIN JsoncOf(p)
        /\ field \notin DOMAIN PackageOf(p) /\ field \notin DOMAIN project.jsonc.root
        /\ field \notin DOMAIN project.package.root
    BY <1>6, LayersAre
  <2>3. field \notin DOMAIN PackageConfiguration(p)
    BY <2>2, PackageStates
  <2> QED
    BY <2>1, <2>2, <2>3, EffectiveStates
<1> QED
  BY <1>1, <1>2, <1>3, <1>4, <1>5, <1>6
-----------------------------------------------------------------------------
(* The inductive invariant: what each stage has left behind.  The files    *)
(* are those of the packages less the ignored, and of the profiles before  *)
(* the one under way every package has given all its entries, of this one  *)
(* those that were asked; the root is asked first, when there is no entry. *)
Configured == {"files", "ignore", "targets", "requested", "entries", "done"}

Early == {"workspace", "configuration", "files", "ignore", "targets", "requested"}

KeptFiles == {f \in SourceFiles : ~ConfiguredIgnore(f) /\ ~PluginExclusion(f)}

(* A package has given a profile all its entries.                          *)
Settled(p, q) ==
  /\ NamedEntries(p, q) \subseteq entries[q]
  /\ p = Root /\ NamedEntries(p, q) = {} => {p \o c : c \in Fallbacks} \cap files \subseteq entries[q]

(* An entry of a profile is there for a package.                           *)
Explained(q, e) ==
  \E p \in Selected :
    \/ e \in NamedEntries(p, q)
    \/ NamedEntries(p, q) = {} /\ e \in {p \o c : c \in Fallbacks}

StagesInv ==
  /\ project \in Projects
  /\ DOMAIN entries = ToSet(project.profiles)
  /\ phase # "workspace" => packages = {p \in ToSet(project.order) : IsWorkspacePackage(p)}
  /\ phase \notin {"workspace", "DuplicatePackageName", "UnknownWorkspace"} =>
       ToSet(project.workspace) \subseteq packages
  /\ phase \in Configured => loaded = Merged
  /\ phase = "ignore" => files = SourceFiles
  /\ phase \in {"targets", "requested", "entries", "done"} => files = KeptFiles
  /\ phase \in Early => \A q \in DOMAIN entries : entries[q] = {}
  /\ phase \in {"entries", "done"} => \A q \in DOMAIN entries : entries[q] \subseteq files

EntriesInv ==
  /\ todo \in Seq(STRING) /\ IsInjective(todo) /\ ToSet(todo) \subseteq ToSet(project.profiles)
  /\ phase \in Early => todo = project.profiles
  /\ phase = "requested" => project.requested # {}
  /\ phase = "entries" => left \subseteq Selected
  /\ phase \in {"entries", "done"} /\ project.requested = {} =>
       /\ \A q \in DOMAIN entries \ ToSet(todo), p \in Selected : Settled(p, q)
       /\ todo # <<>> => \A p \in Selected \ left : Settled(p, Head(todo))
       /\ todo # <<>> /\ Root \in left => entries[Head(todo)] = {}
       /\ todo # <<>> => \A q \in ToSet(Tail(todo)) : entries[q] = {}
       /\ \A q \in DOMAIN entries : \A e \in entries[q] : Explained(q, e)
  /\ phase = "done" /\ project.requested = {} => todo = <<>>

-----------------------------------------------------------------------------
(* The files and the entries among them.                                   *)

LEMMA MapsToFiles ==
  ASSUME NEW candidate
  PROVE  MapEntryToSource(candidate) \subseteq files
BY DEF MapEntryToSource, FirstPresent

LEMMA NamedAreFiles ==
  ASSUME NEW p, NEW q, NEW sofar
  PROVE  NamedEntries(p, q) \subseteq files /\ FallbackEntries(p, sofar) \subseteq files
<1>1. UNION {MapEntryToSource(c) : c \in Candidates(p, q)} \subseteq files
  BY MapsToFiles
<1>2. PluginEntries(p, q) \subseteq files /\ ConventionalEntries(p, q) \subseteq files
  BY DEF PluginEntries, ConventionalEntries
<1>3. FallbackEntries(p, sofar) \subseteq files
  BY DEF FallbackEntries
<1> QED
  BY <1>1, <1>2, <1>3 DEF NamedEntries

LEMMA StagesInit == Init => StagesInv
BY DEF Init, StagesInv, Configured, Early

LEMMA StagesStep ==
  ASSUME StagesInv, [Next]_vars
  PROVE  StagesInv'
<1>0. /\ project \in Projects
      /\ DOMAIN entries = ToSet(project.profiles)
      /\ phase # "workspace" => packages = {p \in ToSet(project.order) : IsWorkspacePackage(p)}
      /\ phase \notin {"workspace", "DuplicatePackageName", "UnknownWorkspace"} =>
           ToSet(project.workspace) \subseteq packages
      /\ phase \in Configured => loaded = Merged
      /\ phase = "ignore" => files = SourceFiles
      /\ phase \in {"targets", "requested", "entries", "done"} => files = KeptFiles
      /\ phase \in Early => \A q \in DOMAIN entries : entries[q] = {}
      /\ phase \in {"entries", "done"} => \A q \in DOMAIN entries : entries[q] \subseteq files
  BY DEF StagesInv
<1>1. CASE DiscoverWorkspace
  <2>1. /\ phase' \in {"DuplicatePackageName", "UnknownWorkspace", "configuration"}
        /\ packages' = {p \in ToSet(project.order) : IsWorkspacePackage(p)}
        /\ phase' = "configuration" => ToSet(project.workspace) \subseteq packages'
        /\ phase = "workspace" /\ project' = project /\ entries' = entries
    BY <1>1 DEF DiscoverWorkspace
  <2>2. \A p : IsWorkspacePackage(p)' <=> IsWorkspacePackage(p)
    BY <2>1 DEF IsWorkspacePackage, Walked
  <2> QED
    BY <1>0, <2>1, <2>2 DEF StagesInv, Configured, Early
<1>2. CASE LoadConfiguration
  <2>1. /\ phase = "configuration"
        /\ (phase' = "files" /\ loaded' = Merged) \/ phase' = "InvalidConfiguration"
        /\ project' = project /\ packages' = packages /\ entries' = entries
    BY <1>2 DEF LoadConfiguration
  <2>2. Merged' = Merged
    BY <2>1 DEF Merged
  <2> QED
    BY <1>0, <2>1, <2>2 DEF StagesInv, Configured, Early, IsWorkspacePackage, Walked
<1>3. CASE DiscoverFiles
  <2>1. /\ phase = "files"
        /\ phase' \in {"NestedPackage", "FileLimitExceeded", "NoSourceFiles", "ignore"}
        /\ files' = SourceFiles
        /\ project' = project /\ packages' = packages /\ entries' = entries /\ loaded' = loaded
    BY <1>3 DEF DiscoverFiles
  <2>2. Merged' = Merged /\ SourceFiles' = SourceFiles
    BY <2>1 DEF Merged, SourceFiles, Selected, InPackage, Walked
  <2> QED
    BY <1>0, <2>1, <2>2 DEF StagesInv, Configured, Early, IsWorkspacePackage, Walked
<1>4. CASE ApplyIgnoreRules
  <2>1. /\ phase = "ignore"
        /\ phase' \in {"NoSourceFiles", "targets"}
        /\ files' = {f \in files : ~ConfiguredIgnore(f) /\ ~PluginExclusion(f)}
        /\ project' = project /\ packages' = packages /\ entries' = entries /\ loaded' = loaded
    BY <1>4 DEF ApplyIgnoreRules
  <2>2. Merged' = Merged /\ SourceFiles' = SourceFiles
    BY <2>1 DEF Merged, SourceFiles, Selected, InPackage, Walked
  <2>3. KeptFiles' = KeptFiles
    BY <2>1, <2>2 DEF KeptFiles, ConfiguredIgnore, PluginExclusion, PackageForPath, Effective,
                      Inferred, PackageConfiguration, IgnoreBase, Plugins
  <2>4. files' = KeptFiles
    BY <1>0, <2>1 DEF KeptFiles
  <2> QED
    BY <1>0, <2>1, <2>2, <2>3, <2>4 DEF StagesInv, Configured, Early, IsWorkspacePackage, Walked
<1>5. CASE \/ ResolveTargetConditions \/ UseRequestedEntries \/ EndProfile
           \/ (\E p \in left : CollectPackageEntries(p))
           \/ UNCHANGED vars
  <2>1. /\ project' = project /\ packages' = packages /\ loaded' = loaded /\ files' = files
    BY <1>5 DEF ResolveTargetConditions, UseRequestedEntries, EndProfile, CollectPackageEntries, vars
  <2>2. Merged' = Merged /\ SourceFiles' = SourceFiles
    BY <2>1 DEF Merged, SourceFiles, Selected, InPackage, Walked
  <2>3. KeptFiles' = KeptFiles
    BY <2>1, <2>2 DEF KeptFiles, ConfiguredIgnore, PluginExclusion, PackageForPath, Effective,
                      Inferred, PackageConfiguration, IgnoreBase, Plugins
  <2>4. CASE ResolveTargetConditions
    <3>1. /\ phase = "targets" /\ entries' = entries
          /\ phase' \in {"TargetProfileCycle", "UnknownTargetProfile", "entries", "requested"}
      BY <2>4 DEF ResolveTargetConditions
    <3> QED
      BY <1>0, <2>1, <2>2, <2>3, <3>1 DEF StagesInv, Configured, Early, IsWorkspacePackage, Walked
  <2>5. CASE UseRequestedEntries
    <3>1. /\ phase = "requested"
          /\ \/ phase' = "EntryNotSupplied" /\ entries' = entries
             \/ /\ phase' = "done" /\ DOMAIN entries' = DOMAIN entries
                /\ \A q \in DOMAIN entries : entries'[q] \subseteq files
      BY <2>5 DEF UseRequestedEntries
    <3> QED
      BY <1>0, <2>1, <2>2, <2>3, <3>1 DEF StagesInv, Configured, Early, IsWorkspacePackage, Walked
  <2>6. CASE EndProfile
    <3>1. /\ phase = "entries" /\ entries' = entries /\ phase' \in {"NoEntryRoots", "done", "entries"}
      BY <2>6 DEF EndProfile
    <3> QED
      BY <1>0, <2>1, <2>2, <2>3, <3>1 DEF StagesInv, Configured, Early, IsWorkspacePackage, Walked
  <2>7. ASSUME NEW p \in left, CollectPackageEntries(p)
        PROVE  StagesInv'
    <3>1. /\ phase = "entries" /\ DOMAIN entries' = DOMAIN entries
          /\ phase' \in {"UnsafeEntry", "entries"}
          /\ \A q \in DOMAIN entries : entries'[q] \subseteq files
      BY <1>0, <2>7, NamedAreFiles DEF CollectPackageEntries
    <3> QED
      BY <1>0, <2>1, <2>2, <2>3, <3>1 DEF StagesInv, Configured, Early, IsWorkspacePackage, Walked
  <2>8. CASE UNCHANGED vars
    <3>1. phase' = phase /\ entries' = entries
      BY <2>8 DEF vars
    <3> QED
      BY <1>0, <2>1, <2>2, <2>3, <3>1 DEF StagesInv, Configured, Early, IsWorkspacePackage, Walked
  <2> QED
    BY <1>5, <2>4, <2>5, <2>6, <2>7, <2>8
<1> QED
  BY <1>1, <1>2, <1>3, <1>4, <1>5 DEF Next

-----------------------------------------------------------------------------
LEMMA IgnoredIsRuledOut ==
  ASSUME project \in Projects, loaded = Merged, NEW f
  PROVE  ConfiguredIgnore(f) <=> RuledOut(PackageForPath(f), f)
<1> DEFINE p == PackageForPath(f)
           deciding == Deciding(p, "ignore", {p, Root})
<1>1. "ignore" \notin DOMAIN project.cli
  BY ProjectsAssumption
<1>2. "ignore" \notin DOMAIN Inferred(p)
  BY DEF Inferred
<1>3. ConfiguredIgnore(f) <=>
        /\ "ignore" \in DOMAIN Effective(p)
        /\ \E rule \in Effective(p)["ignore"] : Below(IgnoreBase(p), f) \in rule
  BY DEF ConfiguredIgnore, Field
<1>4. RuledOut(p, f) <=>
        \E layer \in deciding : \E rule \in layer.of["ignore"] : Below(layer.at, f) \in rule
  BY DEF RuledOut
<1>5. CASE deciding = {}
  <2>1. "ignore" \notin DOMAIN Effective(p)
    BY <1>2, <1>5, EffectiveIsDecided
  <2> QED
    BY <1>3, <1>4, <1>5, <2>1
<1>6. CASE deciding # {}
  <2>1. PICK layer : /\ deciding = {layer}
                     /\ "ignore" \in DOMAIN Effective(p)
                     /\ Effective(p)["ignore"] = layer.of["ignore"]
                     /\ layer.at = IF "ignore" \in DOMAIN PackageConfiguration(p) THEN p ELSE Root
    BY <1>1, <1>6, EffectiveIsDecided
  <2>2. IgnoreBase(p) = layer.at
    BY <2>1 DEF IgnoreBase
  <2>3. ConfiguredIgnore(f) <=> \E rule \in layer.of["ignore"] : Below(layer.at, f) \in rule
    BY <1>3, <2>1, <2>2
  <2> HIDE DEF p, deciding
  <2>4. RuledOut(p, f) <=> \E rule \in layer.of["ignore"] : Below(layer.at, f) \in rule
    BY <1>4, <2>1
  <2> QED
    BY <2>3, <2>4 DEF p
<1> QED
  BY <1>5, <1>6

LEMMA WorldIsDecided ==
  ASSUME loaded = Merged, NEW p
  PROVE  Effective(p).world = "Open" <=>
           IF Deciding(p, "world", {p, Root}) = {} THEN ~Field(project.manifests[p], "private", FALSE)
           ELSE \E l \in Deciding(p, "world", {p, Root}) : l.of.world = "Open"
<1> DEFINE deciding == Deciding(p, "world", {p, Root})
<1>1. /\ "world" \in DOMAIN Inferred(p)
      /\ Inferred(p)["world"] = "Open" <=> ~Field(project.manifests[p], "private", FALSE)
  BY DEF Inferred
<1>2. CASE deciding = {}
  <2>1. Effective(p)["world"] = Inferred(p)["world"]
    BY <1>1, <1>2, EffectiveIsDecided
  <2> QED
    BY <1>1, <1>2, <2>1
<1>3. CASE deciding # {}
  <2>1. PICK layer : deciding = {layer} /\ Effective(p)["world"] = layer.of["world"]
    BY <1>3, EffectiveIsDecided
  <2> QED
    BY <1>3, <2>1
<1> QED
  BY <1>2, <1>3

LEMMA LayersHold ==
  ASSUME StagesInv
  PROVE  LayersDecide
<1> SUFFICES ASSUME Done PROVE LayersDecide
  BY DEF LayersDecide
<1>1. /\ project \in Projects /\ loaded = Merged /\ files = KeptFiles
      /\ DOMAIN entries = ToSet(project.profiles)
      /\ \A q \in DOMAIN entries : entries[q] \subseteq files
  BY DEF StagesInv, Done, Configured
<1>2. project.profiles = <<>> <=> DOMAIN entries = {}
  <2>1. project.profiles \in Seq(STRING)
    BY <1>1, ProjectsAssumption
  <2>2. project.profiles # <<>> => 1 \in DOMAIN project.profiles
    BY <2>1
  <2>3. project.profiles = <<>> => DOMAIN project.profiles = {}
    BY <2>1
  <2> QED
    BY <1>1, <2>2, <2>3 DEF ToSet
<1>3. \A f : PluginExclusion(f) <=> LeftOut(PackageForPath(f), f)
  BY <1>1, <1>2 DEF PluginExclusion, LeftOut
<1>4. files = {f \in SourceFiles :
                 LET p == PackageForPath(f) IN ~RuledOut(p, f) /\ ~LeftOut(p, f)}
  BY <1>1, <1>3, IgnoredIsRuledOut DEF KeptFiles
<1>5. ASSUME NEW q \in DOMAIN entries, NEW e \in entries[q]
      PROVE  LET p == PackageForPath(e) IN
             e \in OpenWorldEntries(q) <=>
               IF Deciding(p, "world", {p, Root}) = {}
               THEN ~Field(project.manifests[p], "private", FALSE)
               ELSE \E l \in Deciding(p, "world", {p, Root}) : l.of.world = "Open"
  <2>1. e \in OpenWorldEntries(q) <=> Effective(PackageForPath(e)).world = "Open"
    BY <1>5 DEF OpenWorldEntries
  <2> QED
    BY <1>1, <2>1, WorldIsDecided
<1> QED
  BY <1>1, <1>4, <1>5 DEF LayersDecide
-----------------------------------------------------------------------------
(* Profiles and packages in turn.                                          *)

LEMMA FirstOfTodo ==
  ASSUME NEW s \in Seq(STRING), s # <<>>, IsInjective(s)
  PROVE  /\ Tail(s) \in Seq(STRING) /\ IsInjective(Tail(s))
         /\ Head(s) \in ToSet(s) /\ Head(s) \notin ToSet(Tail(s))
         /\ ToSet(s) = {Head(s)} \cup ToSet(Tail(s))
<1>1. Len(s) \in Nat /\ Len(s) # 0 /\ DOMAIN s = 1..Len(s) /\ Head(s) = s[1]
  OBVIOUS
<1>2. /\ Tail(s) \in Seq(STRING) /\ Len(Tail(s)) = Len(s) - 1
      /\ DOMAIN Tail(s) = 1..(Len(s) - 1)
      /\ \A i \in 1..(Len(s) - 1) : Tail(s)[i] = s[i + 1]
  BY <1>1
<1>3. IsInjective(Tail(s))
  <2> SUFFICES ASSUME NEW a \in 1..(Len(s) - 1), NEW b \in 1..(Len(s) - 1), Tail(s)[a] = Tail(s)[b]
               PROVE  a = b
    BY <1>2 DEF IsInjective
  <2>1. s[a + 1] = s[b + 1] /\ a + 1 \in DOMAIN s /\ b + 1 \in DOMAIN s
    BY <1>1, <1>2
  <2> QED
    BY <2>1 DEF IsInjective
<1>4. Head(s) \in ToSet(s)
  BY <1>1 DEF ToSet
<1>5. ASSUME NEW i \in DOMAIN Tail(s)
      PROVE  Tail(s)[i] \in ToSet(s) /\ Tail(s)[i] # Head(s)
  <2>1. i + 1 \in DOMAIN s /\ Tail(s)[i] = s[i + 1] /\ i + 1 # 1 /\ 1 \in DOMAIN s
    BY <1>1, <1>2
  <2>2. s[i + 1] # s[1]
    BY <2>1 DEF IsInjective
  <2> QED
    BY <1>1, <2>1, <2>2 DEF ToSet
<1>6. ASSUME NEW i \in DOMAIN s, i # 1
      PROVE  s[i] \in ToSet(Tail(s))
  <2>1. i - 1 \in DOMAIN Tail(s) /\ Tail(s)[i - 1] = s[i]
    BY <1>1, <1>2, <1>6
  <2> QED
    BY <2>1 DEF ToSet
<1> QED
  BY <1>1, <1>2, <1>3, <1>4, <1>5, <1>6 DEF ToSet

LEMMA SelectedAreOrdered ==
  ASSUME StagesInv, phase = "entries", NEW p \in Selected
  PROVE  p \in ToSet(project.order)
BY DEF StagesInv, Selected

(* The root is the first package that is asked.                            *)
LEMMA RootIsFirst ==
  ASSUME StagesInv, phase = "entries", left \subseteq Selected, Root \in left,
         NEW p \in left, ~\E o \in left : Precedes(o, p)
  PROVE  p = Root
<1>1. project.order \in Seq(DOMAIN project.manifests) /\ project.order # <<>> /\ project.order[1] = Root
  BY ProjectsAssumption DEF StagesInv
<1>2. PICK j \in DOMAIN project.order : project.order[j] = p
  BY SelectedAreOrdered DEF ToSet
<1>3. j \in Nat /\ j # 0 /\ 1 \in DOMAIN project.order
  BY <1>1
<1>4. CASE j = 1
  BY <1>1, <1>2, <1>4
<1>5. CASE j # 1
  <2>1. 1 < j
    BY <1>3, <1>5
  <2>2. Precedes(Root, p)
    BY <1>1, <1>2, <1>3, <2>1 DEF Precedes
  <2> QED
    BY <2>2
<1> QED
  BY <1>4, <1>5

(* What names an entry is settled before entries are collected.            *)
LEMMA NamedStay ==
  ASSUME project' = project, packages' = packages, loaded' = loaded, files' = files
  PROVE  /\ \A p, q : NamedEntries(p, q)' = NamedEntries(p, q)
         /\ Selected' = Selected
<1>1. \A p : Effective(p)' = Effective(p) /\ PackageConfiguration(p)' = PackageConfiguration(p)
  BY DEF Effective, PackageConfiguration, Inferred
<1>2. \A p, q : /\ ConfiguredEntries(p)' = ConfiguredEntries(p)
                /\ ManifestEntries(p, q)' = ManifestEntries(p, q)
                /\ ScriptEntries(p)' = ScriptEntries(p)
  BY <1>1 DEF ConfiguredEntries, ManifestEntries, ScriptEntries, ScriptsOf, ExplicitlySelected
<1>3. \A p, q : Candidates(p, q)' = Candidates(p, q)
  BY <1>2 DEF Candidates
<1>4. \A c : MapEntryToSource(c)' = MapEntryToSource(c)
  BY DEF MapEntryToSource, FirstPresent, OriginalVariants
<1>5. \A p, q : /\ PluginEntries(p, q)' = PluginEntries(p, q)
                /\ ConventionalEntries(p, q)' = ConventionalEntries(p, q)
  BY DEF PluginEntries, ConventionalEntries, Plugins
<1>6. Selected' = Selected
  BY DEF Selected
<1>7. ASSUME NEW p, NEW q
      PROVE  NamedEntries(p, q)' = NamedEntries(p, q)
  <2>1. (UNION {MapEntryToSource(c) : c \in Candidates(p, q)})'
          = UNION {MapEntryToSource(c) : c \in Candidates(p, q)}
    BY <1>3, <1>4
  <2> QED
    BY <1>5, <2>1 DEF NamedEntries
<1> QED
  BY <1>6, <1>7

LEMMA SettledStays ==
  ASSUME project' = project, packages' = packages, loaded' = loaded, files' = files,
         NEW p, NEW q, Settled(p, q), entries[q] \subseteq entries'[q]
  PROVE  Settled(p, q)'
BY NamedStay DEF Settled, Root

LEMMA ExplainedStays ==
  ASSUME project' = project, packages' = packages, loaded' = loaded, files' = files,
         NEW q, NEW e, Explained(q, e)
  PROVE  Explained(q, e)'
BY NamedStay DEF Explained

(* The files of a scan of one package are below it, those of any below the *)
(* root.                                                                   *)
LEMMA BelowFront ==
  ASSUME NEW p \in Seq(STRING), NEW f \in Seq(STRING), IsPrefix(p, Front(f))
  PROVE  IsPrefix(p, f)
<1>1. CASE f = <<>>
  <2>1. Front(f) = <<>>
    BY <1>1 DEF Front
  <2> QED
    BY <1>1, <2>1
<1>2. CASE f # <<>>
  <2>1. Len(f) \in Nat /\ Len(f) # 0 /\ Len(p) \in Nat
    BY <1>2
  <2>2. /\ Front(f) \in Seq(STRING) /\ Len(Front(f)) = Len(f) - 1
        /\ \A i \in 1..(Len(f) - 1) : Front(f)[i] = f[i]
    <3> DEFINE n == Len(f) - 1
    <3>1. n \in Int /\ n + 1 = Len(f) /\ 0 <= n
      BY <2>1
    <3>2. \A i \in 1..n : f[i] \in STRING
      BY <2>1, <3>1
    <3>3. /\ SubSeq(f, 1, n) \in Seq(STRING)
          /\ Len(SubSeq(f, 1, n)) = IF 1 <= n THEN n - 1 + 1 ELSE 0
          /\ \A i \in 1..(n - 1 + 1) : SubSeq(f, 1, n)[i] = f[1 + i - 1]
      BY <3>1, <3>2, SubSeqProperties
    <3> QED
      BY <2>1, <3>1, <3>3 DEF Front
  <2>3. Len(p) <= Len(f) - 1 /\ SubSeq(p, 1, Len(p)) = SubSeq(Front(f), 1, Len(p))
    BY <2>2, <1>2 DEF IsPrefix
  <2>4. SubSeq(Front(f), 1, Len(p)) = SubSeq(f, 1, Len(p))
    BY <2>1, <2>2, <2>3
  <2> QED
    BY <2>1, <2>3, <2>4 DEF IsPrefix
<1> QED
  BY <1>1, <1>2

LEMMA FilesAreBelow ==
  ASSUME StagesInv, phase = "entries", NEW p \in Selected, p = Root \/ ExplicitlySelected(p),
         NEW f \in files
  PROVE  IsPrefix(p, f)
<1>1. /\ project.sources \subseteq Seq(STRING) \ {<<>>}
      /\ project.workspace = <<>> \/ \E w \in DOMAIN project.manifests : project.workspace = <<w>>
      /\ DOMAIN project.manifests \subseteq Seq(STRING)
  BY ProjectsAssumption DEF StagesInv
<1>2. f \in SourceFiles
  BY DEF StagesInv, KeptFiles
<1>3. f \in Seq(STRING)
  BY <1>1, <1>2 DEF SourceFiles
<1>4. CASE p = Root
  BY <1>3, <1>4 DEF Root, IsPrefix
<1>5. CASE ExplicitlySelected(p)
  <2>1. project.workspace = <<p>>
    BY <1>5 DEF ExplicitlySelected
  <2>2. Selected = {p} /\ p \in Seq(STRING)
    BY <1>1, <2>1 DEF Selected, ToSet
  <2>3. IsPrefix(p, Front(f))
    BY <1>2, <2>2 DEF SourceFiles, InPackage
  <2> QED
    BY <1>3, <2>2, <2>3, BelowFront
<1> QED
  BY <1>4, <1>5
-----------------------------------------------------------------------------
(* The entries of the profiles.                                            *)

LEMMA EntriesInit == Init => EntriesInv
<1> SUFFICES ASSUME Init PROVE EntriesInv
  OBVIOUS
<1>1. /\ project \in Projects /\ phase = "workspace" /\ todo = project.profiles
      /\ project.profiles \in Seq(STRING) /\ IsInjective(project.profiles)
  BY ProjectsAssumption DEF Init
<1> QED
  BY <1>1 DEF EntriesInv

(* Before entries are collected every profile waits, and has none.         *)
LEMMA EarlyStep ==
  ASSUME StagesInv, EntriesInv, phase \in Early \ {"targets"}, [Next]_vars
  PROVE  EntriesInv'
<1>1. /\ todo \in Seq(STRING) /\ IsInjective(todo) /\ ToSet(todo) \subseteq ToSet(project.profiles)
      /\ todo = project.profiles
      /\ phase = "requested" => project.requested # {}
  BY DEF EntriesInv, Early
<1>2. /\ todo' = todo /\ project' = project
      /\ phase' \notin {"entries"} /\ (phase' = "requested" => phase = "requested")
      /\ phase' = "done" => phase = "requested"
  BY DEF Next, vars, DiscoverWorkspace, LoadConfiguration, DiscoverFiles, ApplyIgnoreRules,
         ResolveTargetConditions, UseRequestedEntries, CollectPackageEntries, EndProfile, Early
<1> QED
  BY <1>1, <1>2 DEF EntriesInv

LEMMA TargetsStep ==
  ASSUME StagesInv, EntriesInv, ResolveTargetConditions
  PROVE  EntriesInv'
<1>1. /\ phase = "targets" /\ entries' = entries /\ todo' = todo /\ project' = project
      /\ packages' = packages /\ loaded' = loaded /\ files' = files
      /\ phase' \in {"TargetProfileCycle", "UnknownTargetProfile", "entries", "requested"}
      /\ phase' \in {"entries", "requested"} => left' = Selected
      /\ phase' = "entries" => project.requested = {}
      /\ phase' = "requested" => project.requested # {}
  BY DEF ResolveTargetConditions
<1>2. /\ todo \in Seq(STRING) /\ IsInjective(todo) /\ todo = project.profiles
      /\ DOMAIN entries = ToSet(todo) /\ \A q \in DOMAIN entries : entries[q] = {}
  BY <1>1 DEF EntriesInv, StagesInv, Early
<1>3. Selected' = Selected
  BY <1>1, NamedStay
<1>4. todo # <<>> => Head(todo) \in ToSet(todo) /\ ToSet(Tail(todo)) \subseteq ToSet(todo)
  BY <1>2, FirstOfTodo
<1> QED
  BY <1>1, <1>2, <1>3, <1>4 DEF EntriesInv

LEMMA CollectStep ==
  ASSUME StagesInv, EntriesInv, NEW p \in left, CollectPackageEntries(p)
  PROVE  EntriesInv'
<1>0. PICK q : q = Head(todo)
  OBVIOUS
<1> DEFINE named == entries[q] \cup NamedEntries(p, q)
<1>1. /\ phase = "entries" /\ todo # <<>> /\ ~\E o \in left : Precedes(o, p)
      /\ project' = project /\ packages' = packages /\ loaded' = loaded /\ files' = files
      /\ todo' = todo
  BY DEF CollectPackageEntries
<1>2. \/ phase' = "UnsafeEntry"
      \/ /\ phase' = "entries" /\ left' = left \ {p}
         /\ entries' = [entries EXCEPT ![q] = named \cup FallbackEntries(p, named)]
  BY <1>0, <1>1 DEF CollectPackageEntries
<1>3. /\ todo \in Seq(STRING) /\ IsInjective(todo) /\ ToSet(todo) \subseteq ToSet(project.profiles)
      /\ left \subseteq Selected
      /\ project.requested = {} =>
           /\ \A r \in DOMAIN entries \ ToSet(todo), o \in Selected : Settled(o, r)
           /\ \A o \in Selected \ left : Settled(o, q)
           /\ Root \in left => entries[q] = {}
           /\ \A r \in ToSet(Tail(todo)) : entries[r] = {}
           /\ \A r \in DOMAIN entries : \A e \in entries[r] : Explained(r, e)
  BY <1>0, <1>1 DEF EntriesInv
<1>4. CASE phase' = "UnsafeEntry"
  BY <1>1, <1>3, <1>4 DEF EntriesInv, Early
<1>5. CASE phase' # "UnsafeEntry"
  <2>1. /\ phase' = "entries" /\ left' = left \ {p}
        /\ entries' = [entries EXCEPT ![q] = named \cup FallbackEntries(p, named)]
    BY <1>2, <1>5
  <2>2. /\ q \in ToSet(todo) /\ q \notin ToSet(Tail(todo))
        /\ ToSet(todo) = {q} \cup ToSet(Tail(todo))
    BY <1>0, <1>1, <1>3, FirstOfTodo
  <2>3. /\ DOMAIN entries = ToSet(project.profiles) /\ q \in DOMAIN entries
        /\ \A r \in DOMAIN entries : entries[r] \subseteq files
    BY <1>1, <1>3, <2>2 DEF StagesInv
  <2>4. /\ DOMAIN entries' = DOMAIN entries
        /\ entries'[q] = named \cup FallbackEntries(p, named)
        /\ \A r \in DOMAIN entries \ {q} : entries'[r] = entries[r]
    BY <2>1, <2>3
  <2>5. \A r \in DOMAIN entries : entries[r] \subseteq entries'[r]
    <3> SUFFICES ASSUME NEW r \in DOMAIN entries PROVE entries[r] \subseteq entries'[r]
      OBVIOUS
    <3>1. CASE r = q
      BY <2>4, <3>1
    <3>2. CASE r # q
      BY <2>4, <3>2
    <3> QED
      BY <3>1, <3>2
  <2>6. Selected' = Selected /\ p \in Selected
    BY <1>1, <1>3, NamedStay
  <2>7. FallbackEntries(p, named) # {} =>
          /\ NamedEntries(p, q) = {}
          /\ FallbackEntries(p, named) \subseteq {p \o c : c \in Fallbacks}
    <3> SUFFICES ASSUME FallbackEntries(p, named) # {}
                 PROVE  /\ NamedEntries(p, q) = {}
                        /\ FallbackEntries(p, named) \subseteq {p \o c : c \in Fallbacks}
      OBVIOUS
    <3>1. /\ p = Root \/ ExplicitlySelected(p)
          /\ ~\E e \in named : IsPrefix(p, e)
          /\ FallbackEntries(p, named) \subseteq {p \o c : c \in Fallbacks}
      BY DEF FallbackEntries
    <3>2. NamedEntries(p, q) \subseteq files
      BY NamedAreFiles
    <3>3. \A e \in NamedEntries(p, q) : IsPrefix(p, e)
      BY <1>1, <2>6, <3>1, <3>2, FilesAreBelow
    <3> QED
      BY <3>1, <3>3
  <2> HIDE DEF named
  <2>8. SUFFICES ASSUME project.requested = {} PROVE EntriesInv'
    BY <1>1, <1>3, <2>1, <2>6 DEF EntriesInv, Early
  <2>9. ASSUME NEW r \in DOMAIN entries' \ ToSet(todo'), NEW o \in Selected'
        PROVE  Settled(o, r)'
    <3>1. r \in DOMAIN entries /\ Settled(o, r) /\ entries[r] \subseteq entries'[r]
      BY <1>1, <1>3, <2>4, <2>5, <2>6, <2>8, <2>9
    <3> QED
      BY <1>1, <3>1, SettledStays
  <2>10. ASSUME NEW o \in Selected' \ left'
         PROVE  Settled(o, q)'
    <3>1. CASE o # p
      <4>1. Settled(o, q) /\ entries[q] \subseteq entries'[q]
        BY <1>3, <2>1, <2>3, <2>5, <2>6, <2>8, <2>10, <3>1
      <4> QED
        BY <1>1, <4>1, SettledStays
    <3>2. CASE o = p
      <4>1. NamedEntries(p, q) \subseteq entries'[q]
        BY <2>4 DEF named
      <4>2. ASSUME p = Root, NamedEntries(p, q) = {}
            PROVE  {p \o c : c \in Fallbacks} \cap files \subseteq entries'[q]
        <5>1. named = {}
          BY <1>3, <2>8, <4>2 DEF named
        <5>2. FallbackEntries(p, named) = {p \o c : c \in Fallbacks} \cap files
          BY <4>2, <5>1 DEF FallbackEntries
        <5> QED
          BY <2>4, <5>2
      <4>3. NamedEntries(p, q)' = NamedEntries(p, q)
        BY <1>1, NamedStay
      <4> QED
        BY <1>1, <3>2, <4>1, <4>2, <4>3 DEF Settled, Root
    <3> QED
      BY <3>1, <3>2
  <2>11. Root \in left' => entries'[q] = {}
    <3>1. Root \in left => p = Root
      BY <1>1, <1>3, RootIsFirst
    <3> QED
      BY <2>1, <3>1
  <2>12. \A r \in ToSet(Tail(todo)) : entries'[r] = {}
    BY <1>3, <2>2, <2>3, <2>4, <2>8
  <2>13. ASSUME NEW r \in DOMAIN entries', NEW e \in entries'[r]
         PROVE  Explained(r, e)'
    <3>1. CASE e \in entries[r]
      <4>1. Explained(r, e)
        BY <1>3, <2>4, <2>8, <2>13, <3>1
      <4> QED
        BY <1>1, <4>1, ExplainedStays
    <3>2. CASE e \notin entries[r]
      <4>1. r = q /\ e \in named \cup FallbackEntries(p, named)
        BY <2>4, <2>13, <3>2
      <4>2. e \in NamedEntries(p, q) \/ e \in FallbackEntries(p, named)
        BY <3>2, <4>1 DEF named
      <4>3. Explained(r, e)
        BY <2>6, <2>7, <4>1, <4>2 DEF Explained
      <4> QED
        BY <1>1, <4>3, ExplainedStays
    <3> QED
      BY <3>1, <3>2
  <2> QED
    BY <1>0, <1>1, <1>3, <2>1, <2>6, <2>9, <2>10, <2>11, <2>12, <2>13 DEF EntriesInv, Early
<1> QED
  BY <1>4, <1>5

LEMMA EndProfileStep ==
  ASSUME StagesInv, EntriesInv, EndProfile
  PROVE  EntriesInv'
<1>0. PICK q : q = Head(todo)
  OBVIOUS
<1>1. /\ phase = "entries" /\ todo # <<>> /\ left = {} /\ todo' = Tail(todo) /\ left' = Selected
      /\ project' = project /\ packages' = packages /\ loaded' = loaded /\ files' = files
      /\ entries' = entries
      /\ phase' \in {"NoEntryRoots", "done", "entries"}
      /\ phase' = "done" => Len(todo) = 1
  BY DEF EndProfile
<1>2. /\ todo \in Seq(STRING) /\ IsInjective(todo) /\ ToSet(todo) \subseteq ToSet(project.profiles)
      /\ project.requested = {} =>
           /\ \A r \in DOMAIN entries \ ToSet(todo), o \in Selected : Settled(o, r)
           /\ \A o \in Selected : Settled(o, q)
           /\ \A r \in ToSet(Tail(todo)) : entries[r] = {}
           /\ \A r \in DOMAIN entries : \A e \in entries[r] : Explained(r, e)
  BY <1>0, <1>1 DEF EntriesInv
<1>3. /\ Tail(todo) \in Seq(STRING) /\ IsInjective(Tail(todo))
      /\ ToSet(todo) = {q} \cup ToSet(Tail(todo))
  BY <1>0, <1>1, <1>2, FirstOfTodo
<1>4. Tail(todo) # <<>> =>
        /\ Head(Tail(todo)) \in ToSet(Tail(todo))
        /\ ToSet(Tail(Tail(todo))) \subseteq ToSet(Tail(todo))
  <2> DEFINE rest == Tail(todo)
  <2>1. rest \in Seq(STRING) /\ IsInjective(rest)
    BY <1>3
  <2> HIDE DEF rest
  <2>2. rest # <<>> => Head(rest) \in ToSet(rest) /\ ToSet(Tail(rest)) \subseteq ToSet(rest)
    BY <2>1, FirstOfTodo
  <2> QED
    BY <2>2 DEF rest
<1>5. Selected' = Selected
  BY <1>1, NamedStay
<1>6. phase' = "done" => Tail(todo) = <<>>
  BY <1>1, <1>2
<1>7. ASSUME NEW r \in DOMAIN entries \ ToSet(Tail(todo)), NEW o \in Selected, project.requested = {}
      PROVE  Settled(o, r)'
  <2>1. Settled(o, r)
    BY <1>2, <1>3, <1>7
  <2> QED
    BY <1>1, <2>1, SettledStays
<1>8. ASSUME NEW r \in DOMAIN entries, NEW e \in entries[r], project.requested = {}
      PROVE  Explained(r, e)'
  BY <1>1, <1>2, <1>8, ExplainedStays
<1>9. project.requested = {} => \A r \in ToSet(Tail(todo)) : entries[r] = {}
  BY <1>2
<1>10. ToSet(Tail(todo)) \subseteq ToSet(project.profiles)
  BY <1>2, <1>3
<1> QED
  BY <1>1, <1>3, <1>4, <1>5, <1>6, <1>7, <1>8, <1>9, <1>10 DEF EntriesInv, Early

LEMMA EntriesStep ==
  ASSUME StagesInv, EntriesInv, [Next]_vars
  PROVE  EntriesInv'
<1>1. CASE phase \in Early \ {"targets"}
  BY <1>1, EarlyStep
<1>2. CASE phase \notin Early \ {"targets"} /\ Next
  <2>1. ResolveTargetConditions \/ EndProfile \/ \E p \in left : CollectPackageEntries(p)
    BY <1>2 DEF Next, DiscoverWorkspace, LoadConfiguration, DiscoverFiles, ApplyIgnoreRules,
                UseRequestedEntries, Early
  <2> QED
    BY <2>1, TargetsStep, EndProfileStep, CollectStep
<1>3. CASE UNCHANGED vars
  <2>1. /\ phase' = phase /\ todo' = todo /\ left' = left /\ entries' = entries
        /\ project' = project /\ packages' = packages /\ loaded' = loaded /\ files' = files
    BY <1>3 DEF vars
  <2>2. Selected' = Selected
    BY <2>1, NamedStay
  <2>3. \A p, q : Settled(p, q) => Settled(p, q)'
    BY <2>1, SettledStays
  <2>4. \A q, e : Explained(q, e) => Explained(q, e)'
    BY <2>1, ExplainedStays
  <2> QED
    BY <2>1, <2>2, <2>3, <2>4 DEF EntriesInv
<1> QED
  BY <1>1, <1>2, <1>3
-----------------------------------------------------------------------------
(* What names an entry.                                                    *)

LEMMA ConfiguredAreStated ==
  ASSUME project \in Projects, loaded = Merged, NEW p
  PROVE  ConfiguredEntries(p) = StatedEntries(p)
<1>1. CASE p = Root
  <2> DEFINE deciding == Deciding(p, "entry", {p, Root})
  <2>1. StatedEntries(p) = UNION {l.of["entry"] : l \in deciding}
    <3>1. {p} = {p, Root}
      BY <1>1
    <3> QED
      BY <3>1 DEF StatedEntries
  <2>2. "entry" \notin DOMAIN Inferred(p)
    BY DEF Inferred
  <2>3. CASE deciding = {}
    <3>1. "entry" \notin DOMAIN Effective(p)
      BY <2>2, <2>3, EffectiveIsDecided
    <3> QED
      BY <1>1, <2>1, <2>3, <3>1 DEF ConfiguredEntries, Field
  <2>4. CASE deciding # {}
    <3>1. PICK layer : /\ deciding = {layer}
                       /\ "entry" \in DOMAIN Effective(p)
                       /\ Effective(p)["entry"] = layer.of["entry"]
      BY <2>4, EffectiveIsDecided
    <3>2. ConfiguredEntries(p) = layer.of["entry"]
      BY <1>1, <3>1 DEF ConfiguredEntries, Field
    <3> QED
      BY <2>1, <3>1, <3>2
  <2> QED
    BY <2>3, <2>4
<1>2. CASE p # Root
  <2> DEFINE States(j) == Layers(p)[j].at \in {p} /\ "entry" \in DOMAIN Layers(p)[j].of
  <2>1. ~States(1) /\ ~States(4) /\ ~States(5)
    BY <1>2, LayersAre
  <2>2. /\ States(2) <=> "entry" \in DOMAIN JsoncOf(p)
        /\ States(3) <=> "entry" \in DOMAIN PackageOf(p)
    BY LayersAre
  <2>3. ConfiguredEntries(p) = Field(PackageConfiguration(p), "entry", {})
    BY <1>2 DEF ConfiguredEntries
  <2>4. CASE States(2)
    <3>1. Deciding(p, "entry", {p}) = {Layers(p)[2]}
      BY <2>1, <2>4, DecidingIs
    <3>3. StatedEntries(p) = Layers(p)[2].of["entry"]
      BY <3>1 DEF StatedEntries
    <3>4. Layers(p)[2].of = JsoncOf(p)
      BY LayersAre
    <3>2. ConfiguredEntries(p) = JsoncOf(p)["entry"]
      BY <2>2, <2>3, <2>4, PackageStates DEF Field
    <3> QED
      BY <3>2, <3>3, <3>4
  <2>5. CASE ~States(2) /\ States(3)
    <3>1. Deciding(p, "entry", {p}) = {Layers(p)[3]}
      BY <2>1, <2>5, DecidingIs
    <3>3. StatedEntries(p) = Layers(p)[3].of["entry"]
      BY <3>1 DEF StatedEntries
    <3>4. Layers(p)[3].of = PackageOf(p)
      BY LayersAre
    <3>2. ConfiguredEntries(p) = PackageOf(p)["entry"]
      BY <2>2, <2>3, <2>5, PackageStates DEF Field
    <3> QED
      BY <3>2, <3>3, <3>4
  <2>6. CASE ~States(2) /\ ~States(3)
    <3>1. \A j \in 1..5 : ~States(j)
      BY <2>1, <2>6
    <3>2. Deciding(p, "entry", {p}) = {}
      BY <3>1, DecidingNone
    <3>3. ConfiguredEntries(p) = {}
      BY <2>2, <2>3, <2>6, PackageStates DEF Field
    <3> QED
      BY <3>2, <3>3 DEF StatedEntries
  <2> QED
    BY <2>4, <2>5, <2>6
<1> QED
  BY <1>1, <1>2

(* The files that a command names are those its references do.             *)
LEMMA FilesReferred ==
  ASSUME NEW c, NEW w
  PROVE  Reference("File", w) \in References(c) <=> w \in NamesFiles(c)
<1>1. Reference("File", w) \in {LoaderReference(l) : l \in Loaders(c)} <=> w \in Loaders(c) \cap LooksLikeFile
  BY DEF Reference, LoaderReference
<1>2. ASSUME NEW words
      PROVE  Reference("File", w) \in Files(words) <=> w \in words \cap LooksLikeFile
  BY DEF Reference, Files
<1>3. /\ Reference("File", w) \notin {Reference("Binary", c.word)}
      /\ Reference("File", w) \notin {Reference("Package", p) : p \in c.packages}
  BY DEF Reference
<1>4. Reference("File", w) \in CommandReferences(c) <=>
        \/ c.form = "node" /\ w \in ({c.word} \cup c.operands) \cap LooksLikeFile
        \/ c.form = "file" /\ w \in {c.word} \cap LooksLikeFile
        \/ c.form = "tool" /\ w \in (c.operands \cup c.preloads) \cap LooksLikeFile
  <2>1. CASE c.form = "node"
    BY <1>2, <2>1 DEF CommandReferences
  <2>2. CASE c.form = "file"
    BY <1>2, <2>2 DEF CommandReferences
  <2>3. CASE c.form = "tool"
    BY <1>2, <1>3, <2>3 DEF CommandReferences
  <2>4. CASE c.form \notin {"node", "file", "tool"}
    BY <1>3, <2>4 DEF CommandReferences
  <2> QED
    BY <2>1, <2>2, <2>3, <2>4
<1> QED
  BY <1>1, <1>4 DEF References, NamesFiles

LEMMA ReferencesAreRecords ==
  ASSUME NEW c, NEW r \in References(c), r.kind = "File"
  PROVE  r = Reference("File", r.value)
<1>1. r \in {LoaderReference(l) : l \in Loaders(c)} \/ r \in CommandReferences(c)
  BY DEF References
<1>2. CASE r \in {LoaderReference(l) : l \in Loaders(c)}
  BY <1>2 DEF LoaderReference, Reference
<1>3. CASE r \in CommandReferences(c)
  BY <1>3 DEF CommandReferences, Reference, Files
<1> QED
  BY <1>1, <1>2, <1>3

LEMMA ScriptsLoad ==
  ASSUME NEW p
  PROVE  ScriptEntries(p) = Loaded(p)
<1> DEFINE read == Modeled(ScriptsOf(p))
           references == AnalyzeScripts(ScriptsOf(p)).references
<1>1. references = UNION {References(c) : c \in read}
  BY DEF AnalyzeScripts
<1>2. ASSUME NEW r \in references, r.kind = "File"
      PROVE  r.value \in LooksLikeFile \cap UNION {NamesFiles(c) : c \in read}
  <2>1. PICK c \in read : r \in References(c)
    BY <1>1, <1>2
  <2>2. r = Reference("File", r.value)
    BY <1>2, <2>1, ReferencesAreRecords
  <2>3. r.value \in LooksLikeFile \cap NamesFiles(c)
    BY <2>1, <2>2, FilesReferred DEF NamesFiles
  <2> QED
    BY <2>3
<1>3. ASSUME NEW w \in LooksLikeFile, NEW c \in read, w \in NamesFiles(c)
      PROVE  \E r \in references : r.kind = "File" /\ r.value = w
  <2>1. Reference("File", w) \in References(c)
    BY <1>3, FilesReferred
  <2>2. Reference("File", w) \in references
    BY <1>1, <1>3, <2>1
  <2> QED
    BY <2>2 DEF Reference
<1>4. \A c : NamesFiles(c) \subseteq LooksLikeFile
  BY DEF NamesFiles
<1> QED
  BY <1>2, <1>3, <1>4 DEF ScriptEntries, Loaded

LEMMA MapsToVariants ==
  ASSUME NEW candidate
  PROVE  MapEntryToSource(candidate) \subseteq SourceVariants(candidate)
<1>1. ASSUME NEW paths
      PROVE  FirstPresent(paths) \subseteq ToSet(paths)
  BY DEF FirstPresent, IsFirst, ToSet
<1> QED
  BY <1>1 DEF MapEntryToSource, SourceVariants

LEMMA BelowConcat ==
  ASSUME NEW S, NEW p \in Seq(S), NEW c \in Seq(S)
  PROVE  Below(p, p \o c) = c
<1>1. Len(p) \in Nat /\ Len(c) \in Nat /\ Len(p \o c) = Len(p) + Len(c)
  OBVIOUS
<1> QED
  BY <1>1, SubSeqOfConcat2 DEF Below

(* A source file stands for itself.                                        *)
LEMMA MapsToItself ==
  ASSUME project \in Projects, files \subseteq project.sources, NEW f \in files
  PROVE  f \in MapEntryToSource(f)
<1> DEFINE names == Field(VariantsOf, Last(f), <<Last(f)>>)
<1>1. f \in Seq(STRING) /\ f # <<>>
  BY ProjectsAssumption
<1>2. 1 \in DOMAIN names /\ names[1] = Last(f)
  BY VariantsAssumption DEF Field
<1>3. Append(Front(f), Last(f)) = f
  <2>1. Len(f) \in Nat /\ Len(f) # 0
    BY <1>1
  <2> QED
    BY <1>1, <2>1 DEF Front, Last
<1>4. 1 \in DOMAIN Variants(f) /\ Variants(f)[1] = f
  BY <1>2, <1>3 DEF Variants
<1>5. f \in ToSet(Variants(f)) \cap files
  BY <1>4 DEF ToSet
<1>6. IsFirst(f, Variants(f), files)
  BY <1>4 DEF IsFirst
<1> QED
  BY <1>5, <1>6 DEF MapEntryToSource, FirstPresent

-----------------------------------------------------------------------------
(* What a package offers.                                                  *)

LEMMA LoadsAreTargets ==
  ASSUME NEW value, NEW S, NEW priority \in Seq(S), IsInjective(priority)
  PROVE  Loads(value, ToSet(priority)) \subseteq ExportTargets(value, priority)
<1> DEFINE order == Append(priority, "default")
           n == Len(priority)
<1>1. /\ n \in Nat /\ DOMAIN priority = 1..n /\ DOMAIN order = 1..(n + 1)
      /\ order[n + 1] = "default" /\ \A i \in 1..n : order[i] = priority[i]
  OBVIOUS
<1>2. ASSUME NEW name, NEW offered, ToSet(priority) \cap offered = {name}
      PROVE  IsFirst(name, order, offered)
  <2>1. PICK i \in 1..n : priority[i] = name
    BY <1>1, <1>2 DEF ToSet
  <2>2. ASSUME NEW j \in 1..(i - 1), priority[j] \in offered
        PROVE  FALSE
    <3>1. j \in 1..n /\ j # i
      BY <1>1
    <3>2. priority[j] = name
      BY <1>1, <1>2, <2>2, <3>1 DEF ToSet
    <3> QED
      BY <1>1, <2>1, <3>1, <3>2 DEF IsInjective
  <2>3. \A j \in 1..(i - 1) : order[j] \notin offered
    BY <1>1, <2>2
  <2> QED
    BY <1>1, <1>2, <2>1, <2>3 DEF IsFirst
<1>3. ASSUME NEW offered, ToSet(priority) \cap offered = {}, "default" \in offered
      PROVE  IsFirst("default", order, offered)
  <2>1. \A j \in 1..n : order[j] \notin offered
    BY <1>1, <1>3 DEF ToSet
  <2>2. n + 1 \in DOMAIN order /\ (n + 1) - 1 = n
    BY <1>1
  <2> QED
    BY <1>1, <1>3, <2>1, <2>2 DEF IsFirst
<1> HIDE DEF order
<1>4. ASSUME NEW t \in value, NEW i \in DOMAIN t.steps, IntoObject(t.steps[i]),
             LET step == t.steps[i]
                 apply == ToSet(priority) \cap ToSet(step.among)
             IN  \/ apply = {step.condition}
                 \/ apply = {} /\ step.condition = "default" /\ "default" \in ToSet(step.among)
      PROVE  IsFirst(t.steps[i].condition, order, ToSet(t.steps[i].among))
  BY <1>2, <1>3, <1>4
<1>5. ASSUME NEW t \in value,
             \A i \in DOMAIN t.steps :
               LET step == t.steps[i] IN
               IF IntoObject(step)
               THEN LET apply == ToSet(priority) \cap ToSet(step.among) IN
                    \/ apply = {step.condition}
                    \/ apply = {} /\ step.condition = "default" /\ "default" \in ToSet(step.among)
               ELSE step.position = 1
      PROVE  t.to \in ExportTargets(value, priority)
  <2>1. \A i \in DOMAIN t.steps :
          IntoObject(t.steps[i]) => IsFirst(t.steps[i].condition, order, ToSet(t.steps[i].among))
    BY <1>4, <1>5
  <2> QED
    BY <2>1 DEF ExportTargets, order
<1> QED
  BY <1>5 DEF Loads

(* The consumers of a profile are those it reads a manifest for.           *)
LEMMA ProfilesRead ==
  ASSUME NEW q, NEW written
  PROVE  /\ q = "types" => "Types" \in ManifestProfiles(q, written)
         /\ q = "browser" => "Browser" \in ManifestProfiles(q, written)
         /\ q \in {"node", "test", "cli"} =>
               {"NodeImport", "NodeRequire"} \subseteq ManifestProfiles(q, written)
         /\ q = "cli" => "CommandLine" \in ManifestProfiles(q, written)
<1>1. BuiltinConditions(q) \subseteq TargetConditions(q, written)
  BY DEF TargetConditions, Lineage
<1>2. q = "types" => "types" \in TargetConditions(q, written)
  BY <1>1 DEF BuiltinConditions, BuiltinTargets
<1>3. q = "browser" => "browser" \in TargetConditions(q, written)
  BY <1>1 DEF BuiltinConditions, BuiltinTargets
<1>4. q \in {"node", "test", "cli"} => "node" \in TargetConditions(q, written)
  BY <1>1 DEF BuiltinConditions, BuiltinTargets
<1>5. q = "cli" => "cli" \in TargetConditions(q, written)
  BY <1>1 DEF BuiltinConditions, BuiltinTargets
<1> QED
  BY <1>2, <1>3, <1>4, <1>5 DEF ManifestProfiles

LEMMA InOrder ==
  /\ <<"types">> \in Seq({"types"}) /\ IsInjective(<<"types">>) /\ ToSet(<<"types">>) = {"types"}
  /\ LET o == <<"browser", "import">> IN
     o \in Seq({"browser", "import"}) /\ IsInjective(o) /\ ToSet(o) = {"browser", "import"}
  /\ LET o == <<"node", "import">> IN
     o \in Seq({"node", "import"}) /\ IsInjective(o) /\ ToSet(o) = {"node", "import"}
  /\ LET o == <<"node", "require">> IN
     o \in Seq({"node", "require"}) /\ IsInjective(o) /\ ToSet(o) = {"node", "require"}
<1>1. ASSUME NEW a, NEW b, a # b
      PROVE  <<a, b>> \in Seq({a, b}) /\ IsInjective(<<a, b>>) /\ ToSet(<<a, b>>) = {a, b}
  BY <1>1 DEF IsInjective, ToSet
<1>2. <<"types">> \in Seq({"types"}) /\ IsInjective(<<"types">>) /\ ToSet(<<"types">>) = {"types"}
  BY DEF IsInjective, ToSet
<1>3. LET o == <<"browser", "import">> IN
      o \in Seq({"browser", "import"}) /\ IsInjective(o) /\ ToSet(o) = {"browser", "import"}
  BY <1>1
<1>4. LET o == <<"node", "import">> IN
      o \in Seq({"node", "import"}) /\ IsInjective(o) /\ ToSet(o) = {"node", "import"}
  BY <1>1
<1>5. LET o == <<"node", "require">> IN
      o \in Seq({"node", "require"}) /\ IsInjective(o) /\ ToSet(o) = {"node", "require"}
  BY <1>1
<1> QED
  BY <1>2, <1>3, <1>4, <1>5

(* A reading of a manifest for a consumer, with its conditions in order.   *)
LEMMA ConsumersAreRead ==
  ASSUME NEW q, NEW written, NEW c \in Consumers(q)
  PROVE  \E r \in ManifestProfiles(q, written) :
           /\ r # "CommandLine"
           /\ ConditionPriority[r] \in Seq(c) /\ IsInjective(ConditionPriority[r])
           /\ ToSet(ConditionPriority[r]) = c
<1> DEFINE Reads(r, names) ==
             /\ r # "CommandLine"
             /\ ConditionPriority[r] \in Seq(names) /\ IsInjective(ConditionPriority[r])
             /\ ToSet(ConditionPriority[r]) = names
<1>1. Reads("Types", {"types"})
  <2>1. ConditionPriority["Types"] = <<"types">>
    BY DEF ConditionPriority
  <2> QED
    BY <2>1, InOrder
<1>2. Reads("Browser", {"browser", "import"})
  <2>1. ConditionPriority["Browser"] = <<"browser", "import">>
    BY DEF ConditionPriority
  <2> QED
    BY <2>1, InOrder
<1>3. Reads("NodeImport", {"node", "import"}) /\ Reads("NodeRequire", {"node", "require"})
  <2>1. /\ ConditionPriority["NodeImport"] = <<"node", "import">>
        /\ ConditionPriority["NodeRequire"] = <<"node", "require">>
    BY DEF ConditionPriority
  <2> QED
    BY <2>1, InOrder
<1> HIDE DEF Reads
<1>4. \/ q = "types" /\ c = {"types"}
      \/ q = "browser" /\ c = {"browser", "import"}
      \/ q \in {"node", "test", "cli"} /\ c = {"node", "import"}
      \/ q \in {"node", "test", "cli"} /\ c = {"node", "require"}
  BY DEF Consumers
<1>5. ASSUME q = "types" /\ c = {"types"}
      PROVE  \E r \in ManifestProfiles(q, written) : Reads(r, c)
  BY <1>1, <1>5, ProfilesRead
<1>6. ASSUME q = "browser" /\ c = {"browser", "import"}
      PROVE  \E r \in ManifestProfiles(q, written) : Reads(r, c)
  BY <1>2, <1>6, ProfilesRead
<1>7. ASSUME q \in {"node", "test", "cli"} /\ c = {"node", "import"}
      PROVE  \E r \in ManifestProfiles(q, written) : Reads(r, c)
  BY <1>3, <1>7, ProfilesRead
<1>8. ASSUME q \in {"node", "test", "cli"} /\ c = {"node", "require"}
      PROVE  \E r \in ManifestProfiles(q, written) : Reads(r, c)
  BY <1>3, <1>8, ProfilesRead
<1>9. \E r \in ManifestProfiles(q, written) : Reads(r, c)
  BY <1>4, <1>5, <1>6, <1>7, <1>8
<1> QED
  BY <1>9 DEF Reads

(* What consumers load of the package itself is what the profile reads.    *)
LEMMA LoadsAreRead ==
  ASSUME NEW manifest, NEW q, NEW written, NEW c \in Consumers(q),
         NEW t \in Loads(RootExportValue(Exports(manifest)), c)
  PROVE  \E r \in ManifestProfiles(q, written) :
           ToSet(ConditionPriority[r]) = c /\ r # "CommandLine" /\ t \in PackageEntryRoots(manifest, r)
<1>1. PICK r \in ManifestProfiles(q, written) :
           /\ r # "CommandLine"
           /\ ConditionPriority[r] \in Seq(c) /\ IsInjective(ConditionPriority[r])
           /\ ToSet(ConditionPriority[r]) = c
  BY ConsumersAreRead
<1>2. t \in ExportTargets(RootExportValue(Exports(manifest)), ConditionPriority[r])
  BY <1>1, LoadsAreTargets
<1> QED
  BY <1>1, <1>2 DEF PackageEntryRoots

LEMMA OfferedAreRead ==
  ASSUME NEW p, NEW q, NEW x \in Offered(project.manifests[p], q), Published(p)
  PROVE  x \in ManifestEntries(p, q)
<1> DEFINE manifest == project.manifests[p]
           written == Effective(p).targets
<1>1. ASSUME NEW r \in ManifestProfiles(q, written), x \in PackageEntryRoots(manifest, r)
      PROVE  x \in ManifestEntries(p, q)
  BY <1>1 DEF ManifestEntries, Published
<1>2. CASE q = "cli" /\ x \in Field(manifest, "bin", {})
  BY <1>1, <1>2, ProfilesRead DEF PackageEntryRoots
<1>3. CASE /\ "exports" \in DOMAIN manifest
           /\ \E c \in Consumers(q) : x \in Loads(RootExportValue(manifest.exports), c)
  <2>1. Exports(manifest) = manifest.exports
    BY <1>3 DEF Exports, Field
  <2>2. PICK c \in Consumers(q) : x \in Loads(RootExportValue(Exports(manifest)), c)
    BY <1>3, <2>1
  <2> QED
    BY <1>1, <2>2, LoadsAreRead
<1>4. ASSUME "exports" \notin DOMAIN manifest, NEW r, NEW field, r # "CommandLine",
             1 \in DOMAIN FieldPriority[r], FieldPriority[r][1] = field, field \in DOMAIN manifest
      PROVE  manifest[field] \in PackageEntryRoots(manifest, r)
  <2>1. RootExportValue(Exports(manifest)) = {}
    BY <1>4 DEF RootExportValue, Exports, Field
  <2>2. ExportTargets(RootExportValue(Exports(manifest)), ConditionPriority[r]) = {}
    BY <2>1 DEF ExportTargets
  <2>4. IsFirst(field, FieldPriority[r], DOMAIN manifest)
    BY <1>4 DEF IsFirst
  <2> QED
    BY <1>4, <2>2, <2>4 DEF PackageEntryRoots
<1>5. CASE /\ "exports" \notin DOMAIN manifest /\ q \in {"node", "test", "cli"}
           /\ "main" \in DOMAIN manifest /\ x = manifest.main
  <2>1. FieldPriority["NodeImport"] = <<"main">>
    BY DEF FieldPriority
  <2>3. 1 \in DOMAIN <<"main">> /\ <<"main">>[1] = "main"
    OBVIOUS
  <2>2. x \in PackageEntryRoots(manifest, "NodeImport")
    BY <1>4, <1>5, <2>1, <2>3
  <2> QED
    BY <1>1, <1>5, <2>2, ProfilesRead
<1>6. CASE /\ "exports" \notin DOMAIN manifest /\ q = "types"
           /\ "types" \in DOMAIN manifest /\ x = manifest.types
  <2>1. FieldPriority["Types"] = <<"types", "typings">>
    BY DEF FieldPriority
  <2>3. 1 \in DOMAIN <<"types", "typings">> /\ <<"types", "typings">>[1] = "types"
    OBVIOUS
  <2>2. x \in PackageEntryRoots(manifest, "Types")
    BY <1>4, <1>6, <2>1, <2>3
  <2> QED
    BY <1>1, <1>6, <2>2, ProfilesRead
<1> QED
  BY <1>2, <1>3, <1>5, <1>6 DEF Offered

-----------------------------------------------------------------------------

LEMMA NamesHold ==
  ASSUME StagesInv, EntriesInv
  PROVE  NamedFilesAreEntries
<1> SUFFICES ASSUME Done, project.requested = {}, NEW p \in Selected, NEW q \in DOMAIN entries
             PROVE  /\ {p \o e : e \in StatedEntries(p) \cup Loaded(p)} \cap files \subseteq entries[q]
                    /\ Published(p) =>
                         {p \o e : e \in Offered(project.manifests[p], q)} \cap files \subseteq entries[q]
                    /\ p = Root /\ NamedEntries(p, q) = {} =>
                         {p \o c : c \in Fallbacks} \cap files \subseteq entries[q]
  BY DEF NamedFilesAreEntries
<1>1. project \in Projects /\ loaded = Merged /\ files \subseteq project.sources
  BY DEF StagesInv, Done, Configured, KeptFiles, SourceFiles
<1>2. Settled(p, q)
  <2>1. todo = <<>> /\ q \notin ToSet(todo)
    BY DEF EntriesInv, Done, ToSet
  <2> QED
    BY <2>1 DEF EntriesInv, Done
<1>3. ASSUME NEW e \in ConfiguredEntries(p) \cup ManifestEntries(p, q) \cup ScriptEntries(p), p \o e \in files
      PROVE  p \o e \in entries[q]
  <2>1. p \o e \in Candidates(p, q)
    BY <1>3 DEF Candidates
  <2>2. p \o e \in MapEntryToSource(p \o e)
    BY <1>1, <1>3, MapsToItself
  <2>3. p \o e \in NamedEntries(p, q)
    BY <2>1, <2>2 DEF NamedEntries
  <2> QED
    BY <1>2, <2>3 DEF Settled
<1>4. {p \o e : e \in StatedEntries(p) \cup Loaded(p)} \cap files \subseteq entries[q]
  BY <1>1, <1>3, ConfiguredAreStated, ScriptsLoad
<1>5. Published(p) => {p \o e : e \in Offered(project.manifests[p], q)} \cap files \subseteq entries[q]
  BY <1>3, OfferedAreRead
<1> QED
  BY <1>2, <1>4, <1>5 DEF Settled

LEMMA OnlyNamesHold ==
  ASSUME StagesInv, EntriesInv
  PROVE  OnlyNamedFilesAreEntries
<1> DEFINE IsNamed(p, q, e) ==
             \/ \E c \in StatedEntries(p) \cup Loaded(p) : e \in SourceVariants(p \o c)
             \/ /\ Published(p)
                /\ \E c \in UNION {PackageEntryRoots(project.manifests[p], r) :
                                    r \in ManifestProfiles(q, Effective(p).targets)} :
                     e \in SourceVariants(p \o c)
             \/ e \in PluginEntries(p, q) \cup ConventionalEntries(p, q)
             \/ Below(p, e) \in Fallbacks /\ NamedEntries(p, q) = {}
<1> SUFFICES ASSUME Done, project.requested = {}, NEW q \in DOMAIN entries, NEW e \in entries[q]
             PROVE  \E p \in Selected : IsNamed(p, q, e)
  BY DEF OnlyNamedFilesAreEntries
<1>1. project \in Projects /\ loaded = Merged
  BY DEF StagesInv, Done, Configured
<1>2. Explained(q, e)
  BY DEF EntriesInv, Done
<1>3. PICK p \in Selected :
        \/ e \in NamedEntries(p, q)
        \/ NamedEntries(p, q) = {} /\ e \in {p \o c : c \in Fallbacks}
  BY <1>2 DEF Explained
<1>4. ASSUME NEW c \in Candidates(p, q), e \in MapEntryToSource(c)
      PROVE  IsNamed(p, q, e)
  <2>1. PICK x \in ConfiguredEntries(p) \cup ManifestEntries(p, q) \cup ScriptEntries(p) : c = p \o x
    BY DEF Candidates
  <2>2. e \in SourceVariants(p \o x)
    BY <1>4, <2>1, MapsToVariants
  <2>3. CASE x \in ConfiguredEntries(p) \cup ScriptEntries(p)
    BY <1>1, <2>2, <2>3, ConfiguredAreStated, ScriptsLoad
  <2>4. CASE x \in ManifestEntries(p, q)
    <3>1. /\ Published(p)
          /\ x \in UNION {PackageEntryRoots(project.manifests[p], r) :
                            r \in ManifestProfiles(q, Effective(p).targets)}
      BY <2>4 DEF ManifestEntries, Published
    <3> QED
      BY <2>2, <3>1
  <2> QED
    BY <2>1, <2>3, <2>4
<1>5. CASE e \in NamedEntries(p, q)
  <2>1. \/ \E c \in Candidates(p, q) : e \in MapEntryToSource(c)
        \/ e \in PluginEntries(p, q) \cup ConventionalEntries(p, q)
    BY <1>5 DEF NamedEntries
  <2> QED
    BY <1>4, <2>1
<1>6. CASE NamedEntries(p, q) = {} /\ e \in {p \o c : c \in Fallbacks}
  <2>1. PICK c \in Fallbacks : e = p \o c
    BY <1>6
  <2>2. \E S : c \in Seq(S)
    <3>1. PICK a, b, d : c = <<a>> \/ c = <<a, b>> \/ c = <<a, b, d>>
      BY DEF Fallbacks
    <3>2. /\ <<a>> \in Seq({a, b, d}) /\ <<a, b>> \in Seq({a, b, d})
          /\ <<a, b, d>> \in Seq({a, b, d})
      OBVIOUS
    <3> QED
      BY <3>1, <3>2
  <2>3. p \in Seq(STRING)
    <3>1. /\ project.order \in Seq(DOMAIN project.manifests) /\ DOMAIN project.manifests \subseteq Seq(STRING)
          /\ project.workspace = <<>> \/ \E w \in DOMAIN project.manifests : project.workspace = <<w>>
      BY <1>1, ProjectsAssumption
    <3>2. packages \subseteq ToSet(project.order)
      BY DEF StagesInv, Done
    <3>3. ToSet(project.order) \subseteq DOMAIN project.manifests
      BY <3>1 DEF ToSet
    <3>4. p \in packages \/ \E w \in DOMAIN project.manifests : p = w
      BY <3>1 DEF Selected, ToSet
    <3> QED
      BY <3>1, <3>2, <3>3, <3>4
  <2>4. Below(p, e) = c
    <3>1. PICK S : c \in Seq(S)
      BY <2>2
    <3>2. c \in Seq(STRING \cup S) /\ p \in Seq(STRING \cup S)
      BY <2>3, <3>1, SeqMonotonic
    <3> QED
      BY <2>1, <3>2, BelowConcat
  <2> QED
    BY <1>6, <2>4
<1> QED
  BY <1>3, <1>5, <1>6

-----------------------------------------------------------------------------
(* Paths.                                                                  *)

LEMMA LastOfPath ==
  ASSUME NEW S, NEW s \in Seq(S), s # <<>>
  PROVE  /\ Front(s) \in Seq(S) /\ Last(s) \in S
         /\ Append(Front(s), Last(s)) = s
         /\ Len(Front(s)) = Len(s) - 1
<1>1. Len(s) \in Nat /\ Len(s) # 0 /\ 1 <= Len(s)
  BY EmptySeq
<1>2. DOMAIN s = 1..Len(s) /\ \A i \in 1..Len(s) : s[i] \in S
  OBVIOUS
<1>3. Last(s) \in S
  BY <1>1, <1>2 DEF Last
<1>4. PICK n \in Nat : n = Len(s) - 1
  BY <1>1
<1>5. /\ Front(s) \in Seq(S) /\ Len(Front(s)) = Len(s) - 1
      /\ \A i \in 1..(Len(s) - 1) : Front(s)[i] = s[i]
  <2>1. \A i \in 1..n : s[i] \in S
    BY <1>1, <1>2, <1>4
  <2>2. /\ SubSeq(s, 1, n) \in Seq(S)
        /\ Len(SubSeq(s, 1, n)) = IF 1 <= n THEN n - 1 + 1 ELSE 0
        /\ \A i \in 1..(n - 1 + 1) : SubSeq(s, 1, n)[i] = s[1 + i - 1]
    BY <2>1, SubSeqProperties
  <2>3. Len(SubSeq(s, 1, n)) = n /\ \A i \in 1..n : SubSeq(s, 1, n)[i] = s[i]
    BY <2>2
  <2> QED
    BY <1>4, <2>2, <2>3 DEF Front
<1>6. /\ Append(Front(s), Last(s)) \in Seq(S)
      /\ Len(Append(Front(s), Last(s))) = Len(s)
      /\ \A i \in 1..(Len(s) - 1) : Append(Front(s), Last(s))[i] = Front(s)[i]
      /\ Append(Front(s), Last(s))[Len(s)] = Last(s)
  BY <1>1, <1>3, <1>5, AppendProperties
<1>7. \A i \in 1..Len(s) : Append(Front(s), Last(s))[i] = s[i]
  <2> TAKE i \in 1..Len(s)
  <2>1. i \in 1..(Len(s) - 1) \/ i = Len(s)
    BY <1>1
  <2> QED
    BY <1>5, <1>6, <2>1 DEF Last
<1>8. Append(Front(s), Last(s)) = s
  BY <1>6, <1>7, SeqEqual
<1> QED
  BY <1>3, <1>5, <1>8

LEMMA PathExtended ==
  ASSUME NEW S, NEW s \in Seq(S), NEW x \in S
  PROVE  /\ Append(s, x) \in Seq(S) /\ Append(s, x) # <<>>
         /\ Front(Append(s, x)) = s /\ Last(Append(s, x)) = x
<1> DEFINE t == Append(s, x)
<1>1. /\ t \in Seq(S) /\ Len(t) = Len(s) + 1 /\ Len(s) \in Nat
      /\ \A i \in 1..Len(s) : t[i] = s[i]
      /\ t[Len(s) + 1] = x
  BY AppendProperties
<1> HIDE DEF t
<1>2. t # <<>>
  BY <1>1, EmptySeq
<1>3. Last(t) = x
  BY <1>1 DEF Last
<1>4. \A i \in 1..Len(s) : t[i] \in S
  BY <1>1
<1>5. /\ Front(t) \in Seq(S)
      /\ Len(Front(t)) = IF 1 <= Len(s) THEN Len(s) - 1 + 1 ELSE 0
      /\ \A i \in 1..(Len(s) - 1 + 1) : Front(t)[i] = t[1 + i - 1]
  <2>1. Len(t) - 1 = Len(s)
    BY <1>1
  <2> QED
    BY <1>1, <1>4, <2>1, SubSeqProperties DEF Front
<1>6. Len(Front(t)) = Len(s) /\ \A i \in 1..Len(s) : Front(t)[i] = s[i]
  BY <1>1, <1>5
<1>7. Front(t) = s
  BY <1>5, <1>6, SeqEqual
<1> QED
  BY <1>1, <1>2, <1>3, <1>7 DEF t

(* Of a path below another the last component and what is before it.       *)
LEMMA LastBelow ==
  ASSUME NEW S, NEW a \in Seq(S), NEW b \in Seq(S), b # <<>>
  PROVE  /\ a \o b \in Seq(S) /\ a \o b # <<>>
         /\ Front(a \o b) = a \o Front(b) /\ Last(a \o b) = Last(b)
<1>1. /\ Front(b) \in Seq(S) /\ Last(b) \in S /\ Append(Front(b), Last(b)) = b
  BY LastOfPath
<1>2. a \o Front(b) \in Seq(S) /\ <<Last(b)>> \in Seq(S)
  BY <1>1, ConcatProperties
<1>3. a \o Append(Front(b), Last(b)) = Append(a \o Front(b), Last(b))
  <2>1. Append(Front(b), Last(b)) = Front(b) \o <<Last(b)>>
    BY <1>1, AppendIsConcat
  <2>2. Append(a \o Front(b), Last(b)) = (a \o Front(b)) \o <<Last(b)>>
    BY <1>1, <1>2, AppendIsConcat
  <2>3. (a \o Front(b)) \o <<Last(b)>> = a \o (Front(b) \o <<Last(b)>>)
    BY <1>1, <1>2, ConcatAssociative
  <2> QED
    BY <2>1, <2>2, <2>3
<1>4. a \o b = Append(a \o Front(b), Last(b))
  BY <1>1, <1>3
<1> DEFINE t == Append(a \o Front(b), Last(b))
<1>5. t \in Seq(S) /\ t # <<>> /\ Front(t) = a \o Front(b) /\ Last(t) = Last(b)
  BY <1>1, <1>2, PathExtended
<1> QED
  BY <1>4, <1>5

LEMMA BelowPrefix ==
  ASSUME NEW S, NEW a \in Seq(S), NEW b \in Seq(S), IsPrefix(a, b)
  PROVE  /\ Below(a, b) \in Seq(S) /\ a \o Below(a, b) = b
         /\ a # b => Below(a, b) # <<>>
<1> DEFINE c == Below(a, b)
<1>1. Len(a) \in Nat /\ Len(b) \in Nat /\ Len(a) <= Len(b) /\ SubSeq(a, 1, Len(a)) = SubSeq(b, 1, Len(a))
  BY LenProperties DEF IsPrefix
<1>2. \A i \in 1..Len(b) : b[i] \in S
  BY ElementOfSeq
<1>3. /\ c \in Seq(S)
      /\ Len(c) = IF Len(a) + 1 <= Len(b) THEN Len(b) - (Len(a) + 1) + 1 ELSE 0
      /\ \A i \in 1..(Len(b) - (Len(a) + 1) + 1) : c[i] = b[Len(a) + 1 + i - 1]
  BY <1>1, <1>2, SubSeqProperties DEF Below
<1> HIDE DEF c
<1>4. Len(c) = Len(b) - Len(a) /\ \A i \in 1..Len(c) : c[i] = b[Len(a) + i]
  BY <1>1, <1>3
<1>5. \A i \in 1..Len(a) : a[i] = b[i]
  <2>1. \A i \in 1..Len(a) : SubSeq(a, 1, Len(a))[i] = a[i] /\ SubSeq(b, 1, Len(a))[i] = b[i]
    BY <1>1
  <2> QED
    BY <1>1, <2>1
<1>6. /\ a \o c \in Seq(S) /\ Len(a \o c) = Len(a) + Len(c)
      /\ \A i \in 1..(Len(a) + Len(c)) : (a \o c)[i] = IF i <= Len(a) THEN a[i] ELSE c[i - Len(a)]
  BY <1>3, ConcatProperties
<1>7. \A i \in 1..Len(b) : (a \o c)[i] = b[i]
  <2> TAKE i \in 1..Len(b)
  <2>1. CASE i <= Len(a)
    BY <1>1, <1>4, <1>5, <1>6, <2>1
  <2>2. CASE ~(i <= Len(a))
    <3>1. i - Len(a) \in 1..Len(c) /\ Len(a) + (i - Len(a)) = i
      BY <1>1, <1>4, <2>2
    <3> QED
      BY <1>1, <1>4, <1>6, <2>2, <3>1
  <2> QED
    BY <2>1, <2>2
<1>8. a \o c = b
  <2>1. Len(a \o c) = Len(b)
    BY <1>1, <1>4, <1>6
  <2>2. \A i \in 1..Len(a \o c) : (a \o c)[i] = b[i]
    BY <1>7, <2>1
  <2> QED
    BY <1>6, <2>1, <2>2, SeqEqual
<1>9. c = <<>> => a = b
  BY <1>8, ConcatEmptySeq
<1> QED
  BY <1>3, <1>8, <1>9 DEF c

LEMMA PrefixOfConcat ==
  ASSUME NEW S, NEW a \in Seq(S), NEW c \in Seq(S)
  PROVE  IsPrefix(a, a \o c)
<1>1. /\ a \o c \in Seq(S) /\ Len(a \o c) = Len(a) + Len(c) /\ Len(a) \in Nat /\ Len(c) \in Nat
  BY ConcatProperties, LenProperties
<1>2. SubSeq(a \o c, 1, Len(a)) = a
  BY SubSeqOfConcat1, SubSeqFull, <1>1
<1>3. SubSeq(a, 1, Len(a)) = a
  BY SubSeqFull
<1> QED
  BY <1>1, <1>2, <1>3 DEF IsPrefix
(* A source file that stands for a name is compiled to it, if that is what *)
(* the compiler makes of the file's own.                                   *)
LEMMA VariantsShareDirectory ==
  ASSUME NEW S, NEW path \in Seq(S), path # <<>>, NEW f \in ToSet(Variants(path))
  PROVE  /\ f # <<>> /\ Front(f) = Front(path)
<1>1. PICK x : f = Append(Front(path), x)
  BY DEF Variants, ToSet
<1>2. Front(path) \in Seq(S)
  BY LastOfPath
<1>3. Front(path) \in Seq(S \cup {x}) /\ x \in S \cup {x}
  BY <1>2, SeqMonotonic
<1> QED
  BY <1>1, <1>3, PathExtended

LEMMA SourcesAreEmitted ==
  ASSUME project \in Projects, files \subseteq project.sources,
         NEW S, STRING \subseteq S, NEW candidate \in Seq(S), candidate # <<>>,
         NEW f \in MapEntryToSource(candidate), Field(OutputName, Last(f), Last(f)) = Last(candidate)
  PROVE  candidate \in EmittedVariants(f)
<1>1. f \in Seq(STRING) /\ f # <<>>
  BY MapsToFiles, ProjectsAssumption
<1>2. f \in Seq(S)
  BY <1>1, SeqMonotonic
<1>3. Append(Front(candidate), Last(candidate)) = candidate /\ Front(candidate) \in Seq(S)
  BY LastOfPath
<1>4. ASSUME NEW path, Front(path) = Front(candidate), Last(path) = Last(f)
      PROVE  RuntimeOutput(path) = candidate
  BY <1>3, <1>4 DEF RuntimeOutput
<1>5. CASE f \in ToSet(Variants(candidate))
  <2>1. Front(f) = Front(candidate)
    BY <1>5, VariantsShareDirectory
  <2>2. RuntimeOutput(f) = candidate
    BY <1>4, <2>1
  <2> QED
    BY <2>2 DEF EmittedVariants
<1>6. CASE \E n \in DOMAIN project.outputs : f \in ToSet(OriginalVariants(candidate, n))
  <2>1. PICK n \in DOMAIN project.outputs : f \in ToSet(OriginalVariants(candidate, n))
    BY <1>6
  <2>0. PICK o : o = project.outputs[n]
    OBVIOUS
  <2> DEFINE inner == Below(o.out, candidate)
             rest == Append(Front(inner), Last(f))
             compiled == o.out \o Below(o.root, f)
  <2>2. o.out \in Seq(STRING) /\ o.root \in Seq(STRING)
    BY <2>0, PathsAssumption
  <2>3. o.out \in Seq(S) /\ o.root \in Seq(S)
    BY <2>2, SeqMonotonic
  <2>4. IsStrictPrefix(o.out, candidate) /\ f \in ToSet(Variants(o.root \o inner))
    BY <2>0, <2>1 DEF OriginalVariants, ToSet
  <2>5. inner \in Seq(S) /\ inner # <<>> /\ o.out \o inner = candidate
    BY <2>3, <2>4, BelowPrefix DEF IsStrictPrefix
  <2> HIDE DEF inner
  <2>6. /\ o.root \o inner \in Seq(S) /\ o.root \o inner # <<>>
        /\ Front(o.root \o inner) = o.root \o Front(inner)
        /\ Front(candidate) = o.out \o Front(inner)
    BY <2>3, <2>5, LastBelow
  <2>7. Front(f) = o.root \o Front(inner)
    BY <2>4, <2>6, VariantsShareDirectory
  <2>8. Front(inner) \in Seq(S) /\ Last(f) \in S /\ f = Append(Front(f), Last(f))
    BY <1>1, <1>2, <2>5, LastOfPath
  <2>9. rest \in Seq(S) /\ rest # <<>> /\ Front(rest) = Front(inner) /\ Last(rest) = Last(f)
    BY <2>8, PathExtended
  <2> HIDE DEF rest
  <2>10. f = o.root \o rest
    <3>1. /\ o.root \o rest \in Seq(S) /\ o.root \o rest # <<>>
          /\ Front(o.root \o rest) = o.root \o Front(rest) /\ Last(o.root \o rest) = Last(rest)
      BY <2>3, <2>9, LastBelow
    <3> DEFINE g == o.root \o rest
    <3>2. g \in Seq(S) /\ g # <<>> /\ Front(g) = Front(f) /\ Last(g) = Last(f)
      BY <2>7, <2>9, <3>1
    <3> HIDE DEF g
    <3>3. Append(Front(g), Last(g)) = g
      BY <3>2, LastOfPath
    <3> QED
      BY <2>8, <3>2, <3>3 DEF g
  <2>11. IsPrefix(o.root, f) /\ Below(o.root, f) = rest
    BY <2>3, <2>9, <2>10, PrefixOfConcat, BelowConcat
  <2>12. Front(compiled) = Front(candidate) /\ Last(compiled) = Last(f)
    <3>1. Front(o.out \o rest) = o.out \o Front(rest) /\ Last(o.out \o rest) = Last(rest)
      BY <2>3, <2>9, LastBelow
    <3> QED
      BY <2>6, <2>9, <2>11, <3>1
  <2>13. RuntimeOutput(compiled) = candidate
    BY <1>4, <2>12
  <2>14. o \in {c \in ToSet(project.outputs) : IsPrefix(c.root, f)}
    BY <2>0, <2>11 DEF ToSet
  <2>15. compiled \in {c.out \o Below(c.root, f) : c \in {d \in ToSet(project.outputs) : IsPrefix(d.root, f)}}
    BY <2>14
  <2> QED
    BY <2>13, <2>15 DEF EmittedVariants
<1>7. f \in SourceVariants(candidate)
  BY MapsToVariants
<1> QED
  BY <1>5, <1>6, <1>7 DEF SourceVariants
-----------------------------------------------------------------------------
(* Imports of packages.                                                    *)

(* What one reading of a manifest finds for a subpath is where an import   *)
(* of the mode of that reading leads.                                      *)
LEMMA FoundIsLed ==
  ASSUME NEW q, targets[q] = WorkspaceModuleTargets(q), NEW p \in Named,
         NEW r \in ManifestProfiles(q, TargetsOf(p)),
         NEW s, NEW f, <<s, f>> \in ReadTargets(p, q, r)
  PROVE  f \in WorkspaceFiles(q, <<project.manifests[p].name, s>>, ModeOf(r))
<1> DEFINE name == project.manifests[p].name
           Readings(o, mode) == {x \in ManifestProfiles(q, TargetsOf(o)) : ModeOf(x) = mode}
           Found(mode) ==
             UNION {UNION {{<<project.manifests[o].name, t[1], t[2]>> : t \in ReadTargets(o, q, x)} :
                             x \in Readings(o, mode)} : o \in Named}
           FilesOf(found, specifier) == {t[3] : t \in {u \in found : <<u[1], u[2]>> = specifier}}
           known == {<<t[1], t[2]>> : t \in Found("Esm") \cup Found("CommonJs")}
                      \cup {<<project.manifests[o].name, <<>>>> : o \in Named}
<1>1. WorkspaceModuleTargets(q) =
        [specifier \in known |-> [Esm |-> FilesOf(Found("Esm"), specifier),
                                  CommonJs |-> FilesOf(Found("CommonJs"), specifier)]]
  BY DEF WorkspaceModuleTargets
<1>2. <<name, s, f>> \in Found(ModeOf(r))
  <2>1. <<name, s, f>> \in {<<name, t[1], t[2]>> : t \in ReadTargets(p, q, r)}
    OBVIOUS
  <2>2. r \in Readings(p, ModeOf(r))
    OBVIOUS
  <2> HIDE DEF Readings
  <2>3. <<name, s, f>> \in UNION {{<<name, t[1], t[2]>> : t \in ReadTargets(p, q, x)} :
                                    x \in Readings(p, ModeOf(r))}
    BY <2>1, <2>2
  <2> QED
    BY <2>3
<1> HIDE DEF Found, name
<1>3. f \in FilesOf(Found(ModeOf(r)), <<name, s>>)
  BY <1>2
<1>4. ModeOf(r) \in {"Esm", "CommonJs"}
  BY DEF ModeOf
<1>5. <<name, s>> \in known
  BY <1>2, <1>4
<1> HIDE DEF known, FilesOf
<1>6. /\ DOMAIN targets[q] = known
      /\ targets[q][<<name, s>>].Esm = FilesOf(Found("Esm"), <<name, s>>)
      /\ targets[q][<<name, s>>].CommonJs = FilesOf(Found("CommonJs"), <<name, s>>)
  BY <1>1, <1>5
<1>7. f \in WorkspaceFiles(q, <<name, s>>, ModeOf(r))
  BY <1>3, <1>4, <1>5, <1>6 DEF WorkspaceFiles
<1> QED
  BY <1>7 DEF name

(* A consumer that requires is read for in the mode of require.            *)
LEMMA ModeOfConsumer ==
  ASSUME NEW q, NEW written, NEW r \in ManifestProfiles(q, written), r # "CommandLine"
  PROVE  ModeOf(r) = IF "require" \in ToSet(ConditionPriority[r]) THEN "CommonJs" ELSE "Esm"
<1>1. r \in {"NodeImport", "NodeRequire", "Browser", "Bundler", "Types"}
  BY DEF ManifestProfiles
<1>2. /\ "require" \notin ToSet(<<"types">>) /\ "require" \notin ToSet(<<"node", "import">>)
      /\ "require" \in ToSet(<<"node", "require">>) /\ "require" \notin ToSet(<<"import", "module">>)
      /\ "require" \notin ToSet(<<"browser", "import">>)
  BY DEF ToSet
<1> QED
  BY <1>1, <1>2 DEF ModeOf, ConditionPriority

(* Where what a consumer loads is exported, a reading of the manifest with *)
(* just the consumer's conditions, and those of the profile, finds it.     *)
LEMMA SubpathsAreRead ==
  ASSUME NEW q, NEW p, NEW c \in Consumers(q), NEW r,
         r # "CommandLine", ToSet(ConditionPriority[r]) = c,
         "subpaths" \in DOMAIN Exports(project.manifests[p]),
         NEW key \in DOMAIN Exports(project.manifests[p]).subpaths \ {<<>>},
         NEW t \in LoadsAsWritten(Exports(project.manifests[p]).subpaths[key],
                                  c \cup TargetConditions(q, TargetsOf(p)))
  PROVE  ExpandExport(p, key, t) \subseteq ReadTargets(p, q, r)
<1> DEFINE exports == Exports(project.manifests[p])
           applying == TargetConditions(q, TargetsOf(p)) \cup ReadingConditions(r)
<1>1. applying = c \cup TargetConditions(q, TargetsOf(p))
  BY DEF ReadingConditions
<1>2. t \in ConditionalTargets(exports.subpaths[key], applying)
  BY <1>1 DEF LoadsAsWritten, ConditionalTargets
<1>3. <<key, t>> \in SubpathExports(p, q, r)
  <2>1. <<key, t>> \in {key} \X ConditionalTargets(exports.subpaths[key], applying)
    BY <1>2
  <2> QED
    BY <2>1 DEF SubpathExports
<1>4. ExpandExport(p, <<key, t>>[1], <<key, t>>[2]) \subseteq ReadTargets(p, q, r)
  BY <1>3 DEF ReadTargets
<1> QED
  BY <1>4

(* A pattern stands for the name of every file that is compiled to a name  *)
(* it matches.                                                             *)
LEMMA PatternsAreExpanded ==
  ASSUME project \in Projects, files \subseteq project.sources,
         NEW p \in Seq(STRING), NEW key \in Seq(STRING), NEW t \in Seq(STRING),
         IsPattern(key), IsPattern(t), NEW name \in DOMAIN Captures[Last(t)],
         NEW f \in MapEntryToSource(p \o Append(Front(t), name)),
         IsPrefix(p, f), Field(OutputName, Last(f), Last(f)) = name
  PROVE  <<Append(Front(key), Captures[Last(t)][name]), f>> \in ExpandExport(p, key, t)
<1>1. PICK star : star = Captures[Last(t)][name]
  OBVIOUS
<1>2. PICK S : S = STRING \cup {name, star}
  OBVIOUS
<1>3. /\ p \in Seq(S) /\ key \in Seq(S) /\ t \in Seq(S) /\ name \in S /\ star \in S
      /\ STRING \subseteq S
  BY <1>2, SeqMonotonic
<1>4. t # <<>> /\ key # <<>>
  BY DEF IsPattern
<1>5. Front(t) \in Seq(S) /\ Front(key) \in Seq(S)
  BY <1>3, <1>4, LastOfPath
<1>6. PICK last : last = Append(Front(t), name)
  OBVIOUS
<1>7. last \in Seq(S) /\ last # <<>> /\ Front(last) = Front(t) /\ Last(last) = name
  BY <1>3, <1>5, <1>6, PathExtended
<1>8. PICK candidate : candidate = p \o last
  OBVIOUS
<1>9. /\ candidate \in Seq(S) /\ candidate # <<>>
      /\ Front(candidate) = p \o Front(t) /\ Last(candidate) = name
  BY <1>3, <1>7, <1>8, LastBelow
<1>10. candidate \in EmittedVariants(f)
  BY <1>3, <1>6, <1>8, <1>9, SourcesAreEmitted
<1>11. Front(p \o t) = Front(candidate) /\ Last(p \o t) = Last(t)
  BY <1>3, <1>4, <1>9, LastBelow
<1>12. Front(candidate) \in Seq(S)
  BY <1>9, LastOfPath
<1>13. IsPrefix(Front(candidate), Front(candidate)) /\ Below(Front(candidate), Front(candidate)) = <<>>
  <2>1. Len(Front(candidate)) \in Nat
    BY <1>12, LenProperties
  <2> QED
    BY <2>1, SubSeqEmpty DEF IsPrefix, Below
<1>14. CapturesIn(p \o t, candidate) = {Append(<<>>, star)}
  BY <1>1, <1>9, <1>11, <1>13 DEF CapturesIn
<1>15. Append(<<>>, star) = <<star>>
  OBVIOUS
<1>16. Front(key) \o <<star>> = Append(Front(key), star)
  BY <1>3, <1>5, AppendIsConcat
<1> DEFINE stars == UNION {CapturesIn(p \o t, e) : e \in EmittedVariants(f)}
<1>17. <<star>> \in stars
  BY <1>10, <1>14, <1>15
<1> HIDE DEF stars
<1>18. <<Append(Front(key), star), f>> \in {Front(key) \o x : x \in stars} \X {f}
  BY <1>16, <1>17
<1>19. f \in {g \in files : IsPrefix(p, g)}
  BY MapsToFiles
<1>20. ExpandExport(p, key, t) =
         UNION {{Front(key) \o x : x \in UNION {CapturesIn(p \o t, e) : e \in EmittedVariants(g)}} \X {g} :
                  g \in {h \in files : IsPrefix(p, h)}}
  BY DEF ExpandExport
<1> QED
  BY <1>1, <1>18, <1>19, <1>20 DEF stars

(* Imports of packages lead to the source of what is loaded.               *)
LEMMA ImportsHold ==
  ASSUME StagesInv, \A q \in Linked : targets[q] = WorkspaceModuleTargets(q)
  PROVE  PackageImportsLead
<1> DEFINE Leads(q, p, c, subpath) ==
             WorkspaceFiles(q, <<project.manifests[p].name, subpath>>,
                            IF "require" \in c THEN "CommonJs" ELSE "Esm")
<1>1. ASSUME NEW q \in Linked, NEW p \in Named, NEW c \in Consumers(q)
      PROVE  \E r \in ManifestProfiles(q, TargetsOf(p)) :
               /\ r # "CommandLine" /\ ToSet(ConditionPriority[r]) = c
               /\ \A s, f : <<s, f>> \in ReadTargets(p, q, r) => f \in Leads(q, p, c, s)
  <2>1. PICK r \in ManifestProfiles(q, TargetsOf(p)) :
          r # "CommandLine" /\ ToSet(ConditionPriority[r]) = c
    BY ConsumersAreRead
  <2>2. ModeOf(r) = IF "require" \in c THEN "CommonJs" ELSE "Esm"
    BY <2>1, ModeOfConsumer
  <2> QED
    BY <2>1, <2>2, FoundIsLed
<1> HIDE DEF Leads
<1>2. ASSUME NEW q \in Linked, NEW p \in Named, NEW c \in Consumers(q),
             NEW t \in Loads(RootExportValue(Exports(project.manifests[p])), c)
      PROVE  MapEntryToSource(p \o t) \subseteq Leads(q, p, c, <<>>)
  <2>1. PICK r \in ManifestProfiles(q, TargetsOf(p)) :
          /\ r # "CommandLine" /\ ToSet(ConditionPriority[r]) = c
          /\ t \in PackageEntryRoots(project.manifests[p], r)
    BY LoadsAreRead
  <2>2. ModeOf(r) = IF "require" \in c THEN "CommonJs" ELSE "Esm"
    BY <2>1, ModeOfConsumer
  <2>3. ASSUME NEW f \in MapEntryToSource(p \o t)
        PROVE  <<<<>>, f>> \in ReadTargets(p, q, r)
    BY <2>1 DEF ReadTargets
  <2> QED
    BY <2>2, <2>3, FoundIsLed DEF Leads
<1>3. ASSUME NEW q \in Linked
      PROVE  /\ project \in Projects /\ files \subseteq project.sources
             /\ \A p \in Named : p \in DOMAIN project.manifests /\ p \in Seq(STRING)
  <2>1. phase = "done"
    BY DEF Linked
  <2>2. /\ project \in Projects /\ files = KeptFiles
        /\ packages = {p \in ToSet(project.order) : IsWorkspacePackage(p)}
    BY <2>1 DEF StagesInv
  <2>3. /\ project.order \in Seq(DOMAIN project.manifests)
        /\ DOMAIN project.manifests \subseteq Seq(STRING)
    BY <2>2, ProjectsAssumption
  <2>4. ToSet(project.order) \subseteq DOMAIN project.manifests
    BY <2>3 DEF ToSet
  <2> QED
    BY <2>2, <2>3, <2>4 DEF KeptFiles, SourceFiles, Named
<1>4. ASSUME NEW q \in Linked, NEW p \in Named, NEW c \in Consumers(q),
             "subpaths" \in DOMAIN Exports(project.manifests[p]),
             NEW key \in DOMAIN Exports(project.manifests[p]).subpaths \ {<<>>},
             NEW t \in LoadsAsWritten(Exports(project.manifests[p]).subpaths[key],
                                      c \cup TargetConditions(q, TargetsOf(p)))
      PROVE  IF ~IsPattern(key)
             THEN IsPattern(t) \/ MapEntryToSource(p \o t) \subseteq Leads(q, p, c, key)
             ELSE IsPattern(t) =>
                    \A name \in DOMAIN Captures[Last(t)] :
                      \A f \in MapEntryToSource(p \o Append(Front(t), name)) :
                        IsPrefix(p, f) /\ Field(OutputName, Last(f), Last(f)) = name =>
                          f \in Leads(q, p, c, Append(Front(key), Captures[Last(t)][name]))
  <2>1. PICK r \in ManifestProfiles(q, TargetsOf(p)) :
          /\ r # "CommandLine" /\ ToSet(ConditionPriority[r]) = c
          /\ \A s, f : <<s, f>> \in ReadTargets(p, q, r) => f \in Leads(q, p, c, s)
    BY <1>1
  <2>2. ExpandExport(p, key, t) \subseteq ReadTargets(p, q, r)
    BY <1>4, <2>1, SubpathsAreRead
  <2>3. \A s, f : <<s, f>> \in ExpandExport(p, key, t) => f \in Leads(q, p, c, s)
    BY <2>1, <2>2
  <2>4. CASE ~IsPattern(key)
    <3>1. CASE ~IsPattern(t)
      <4>1. ExpandExport(p, key, t) = {key} \X MapEntryToSource(p \o t)
        BY <2>4, <3>1 DEF ExpandExport
      <4> QED
        BY <2>3, <2>4, <4>1
    <3> QED
      BY <2>4, <3>1
  <2>5. CASE IsPattern(key)
    <3>1. p \in Seq(STRING) /\ key \in Seq(STRING) /\ t \in Seq(STRING)
      <4>1. /\ key \in Seq(STRING)
            /\ \A x \in Exports(project.manifests[p]).subpaths[key] : x.to \in Seq(STRING)
        BY <1>3, <1>4, PathsAssumption
      <4>2. \E x \in Exports(project.manifests[p]).subpaths[key] : t = x.to
        BY DEF LoadsAsWritten
      <4> QED
        BY <1>3, <4>1, <4>2
    <3>2. ASSUME IsPattern(t), NEW name \in DOMAIN Captures[Last(t)],
                 NEW f \in MapEntryToSource(p \o Append(Front(t), name)),
                 IsPrefix(p, f), Field(OutputName, Last(f), Last(f)) = name
          PROVE  f \in Leads(q, p, c, Append(Front(key), Captures[Last(t)][name]))
      BY <1>3, <2>3, <2>5, <3>1, <3>2, PatternsAreExpanded
    <3> QED
      BY <2>5, <3>2
  <2> QED
    BY <2>4, <2>5
<1> QED
  BY <1>2, <1>4 DEF PackageImportsLead, Leads
-----------------------------------------------------------------------------
(* The inductive invariant of links: no profile is linked before entries   *)
(* are complete, those that are have their imports and the links of every  *)
(* plugin, and what a plugin could not link has left a diagnostic.         *)
LinksOf(q) ==
  {e \in UNION {DeclaredEdges(p, q) \cup TransformEdges(p, q) : p \in Selected} :
     {e.from, e.to} \subseteq files}

IsLinked(q) ==
  /\ targets[q] = WorkspaceModuleTargets(q)
  /\ edges[q] = LinksOf(q) \/ gaps # {}
  /\ \A p \in Selected : TransformGaps(p, q) \subseteq gaps

LinkInv ==
  /\ unlinked \in Seq(STRING) /\ IsInjective(unlinked)
  /\ ToSet(unlinked) \subseteq ToSet(project.profiles)
  /\ DOMAIN targets = ToSet(project.profiles) /\ DOMAIN edges = ToSet(project.profiles)
  /\ phase \in Early \cup {"entries"} => unlinked = project.profiles
  /\ phase \in {"targets", "requested", "entries", "done"} =>
       ~HasTransforms \/ discovered = OnDisk \/ gaps # {}
  /\ \A q \in Linked : IsLinked(q)

(* What links are made of is settled when entries are complete.            *)
LEMMA ImportsStay ==
  ASSUME project' = project, packages' = packages, loaded' = loaded, files' = files, NEW q
  PROVE  WorkspaceModuleTargets(q)' = WorkspaceModuleTargets(q)
<1>1. Selected' = Selected
  BY NamedStay
<1>2. \A p : TargetsOf(p)' = TargetsOf(p)
  BY <1>1 DEF TargetsOf, Effective, PackageConfiguration, Inferred
<1>3. \A c : MapEntryToSource(c)' = MapEntryToSource(c)
  BY DEF MapEntryToSource, FirstPresent, OriginalVariants
<1>4. \A p, r : SubpathExports(p, q, r)' = SubpathExports(p, q, r)
  BY <1>2 DEF SubpathExports
<1>5. \A f : EmittedVariants(f)' = EmittedVariants(f)
  BY DEF EmittedVariants
<1>6. \A p, key, t : ExpandExport(p, key, t)' = ExpandExport(p, key, t)
  BY <1>3, <1>5 DEF ExpandExport
<1>7. \A p, r : ReadTargets(p, q, r)' = ReadTargets(p, q, r)
  BY <1>3, <1>4, <1>6 DEF ReadTargets
<1>8. Named' = Named
  BY DEF Named
<1> DEFINE Of(p, r) == {<<project.manifests[p].name, t[1], t[2]>> : t \in ReadTargets(p, q, r)}
           Readings(p, mode) == {r \in ManifestProfiles(q, TargetsOf(p)) : ModeOf(r) = mode}
           OfPackage(p, mode) == UNION {Of(p, r) : r \in Readings(p, mode)}
           Found(mode) == UNION {OfPackage(p, mode) : p \in Named}
           FilesOf(found, specifier) == {t[3] : t \in {u \in found : <<u[1], u[2]>> = specifier}}
           Names == {<<project.manifests[p].name, <<>>>> : p \in Named}
           Linking(esm, common, names) ==
             [specifier \in {<<t[1], t[2]>> : t \in esm \cup common} \cup names |->
                [Esm |-> FilesOf(esm, specifier), CommonJs |-> FilesOf(common, specifier)]]
<1>9. \A p, r : Of(p, r)' = Of(p, r)
  BY <1>7
<1>10. \A p, mode : Readings(p, mode)' = Readings(p, mode)
  BY <1>2
<1> HIDE DEF Of, Readings
<1>11. \A p, mode : OfPackage(p, mode)' = OfPackage(p, mode)
  BY <1>9, <1>10
<1> HIDE DEF OfPackage
<1>12. \A mode : Found(mode)' = Found(mode)
  BY <1>8, <1>11
<1>13. Names' = Names
  BY <1>8
<1>14. WorkspaceModuleTargets(q) = Linking(Found("Esm"), Found("CommonJs"), Names)
  BY DEF WorkspaceModuleTargets, OfPackage, Of, Readings
<1>15. WorkspaceModuleTargets(q)' = Linking(Found("Esm")', Found("CommonJs")', Names')
  BY DEF WorkspaceModuleTargets, OfPackage, Of, Readings
<1> HIDE DEF Found, Names, Linking
<1> QED
  BY <1>12, <1>13, <1>14, <1>15

LEMMA PluginLinksStay ==
  ASSUME project' = project, packages' = packages, loaded' = loaded, files' = files,
         discovered' = discovered, NEW q
  PROVE  /\ LinksOf(q)' = LinksOf(q)
         /\ \A p : TransformGaps(p, q)' = TransformGaps(p, q)
<1>1. Selected' = Selected
  BY NamedStay
<1>2. \A p : DeclaredEdges(p, q)' = DeclaredEdges(p, q) /\ TransformsOf(p, q)' = TransformsOf(p, q)
  BY DEF DeclaredEdges, TransformsOf, Plugins
<1>3. \A p, t, a : Outputs(p, t, a)' = Outputs(p, t, a)
  BY DEF Outputs
<1>4. \A p, t : /\ Matched(p, t, files)' = Matched(p, t, files)
                /\ Matched(p, t, discovered)' = Matched(p, t, discovered)
  BY DEF Matched
<1>5. \A p : TransformEdges(p, q)' = TransformEdges(p, q)
  BY <1>2, <1>3, <1>4 DEF TransformEdges
<1>6. \A p : TransformGaps(p, q)' = TransformGaps(p, q)
  BY <1>2, <1>3, <1>4 DEF TransformGaps
<1>7. LinksOf(q)' = LinksOf(q)
  BY <1>1, <1>2, <1>5 DEF LinksOf
<1> QED
  BY <1>6, <1>7

LEMMA LinkInitially ==
  ASSUME LinkInit
  PROVE  LinkInv
<1>1. /\ project \in Projects /\ phase = "workspace" /\ unlinked = project.profiles
      /\ DOMAIN targets = ToSet(project.profiles) /\ DOMAIN edges = ToSet(project.profiles)
  BY DEF LinkInit, Init
<1>2. project.profiles \in Seq(STRING) /\ IsInjective(project.profiles)
  BY <1>1, ProjectsAssumption
<1> QED
  BY <1>1, <1>2 DEF LinkInv, Linked, Early

(* While entries are collected nothing is linked; when files are ignored   *)
(* the files on disk are known, or it is recorded that they are not.       *)
LEMMA CollectLinks ==
  ASSUME StagesInv, EntriesInv, LinkInv, CollectEntries
  PROVE  LinkInv'
<1>1. /\ Next /\ unlinked' = unlinked /\ targets' = targets /\ edges' = edges
      /\ IF phase = "ignore" THEN DiscoverTransformSources ELSE discovered' = discovered /\ gaps' = gaps
  BY DEF CollectEntries
<1>2. project' = project /\ phase \in Early \cup {"entries"}
  BY <1>1 DEF Next, DiscoverWorkspace, LoadConfiguration, DiscoverFiles, ApplyIgnoreRules,
              ResolveTargetConditions, UseRequestedEntries, CollectPackageEntries, EndProfile, Early
<1>3. unlinked = project.profiles
  BY <1>2 DEF LinkInv
<1>4. StagesInv'
  BY <1>1, StagesStep
<1>5. Linked' = {}
  <2>1. DOMAIN entries' = ToSet(unlinked')
    BY <1>1, <1>2, <1>3, <1>4 DEF StagesInv
  <2> QED
    BY <2>1 DEF Linked
<1>6. phase' \in {"targets", "requested", "entries", "done"} =>
        (~HasTransforms \/ discovered = OnDisk \/ gaps # {})'
  <2>1. CASE phase = "ignore"
    <3>1. /\ ApplyIgnoreRules /\ DiscoverTransformSources
      BY <1>1, <2>1 DEF Next, DiscoverWorkspace, LoadConfiguration, DiscoverFiles,
                  ResolveTargetConditions, UseRequestedEntries, CollectPackageEntries, EndProfile
    <3>2. project' = project /\ packages' = packages /\ entries' = entries /\ loaded' = loaded
      BY <3>1 DEF ApplyIgnoreRules
    <3>3. HasTransforms' = HasTransforms /\ OnDisk' = OnDisk
      BY <3>2 DEF HasTransforms, OnDisk, Selected, Plugins
    <3> QED
      BY <3>1, <3>3 DEF DiscoverTransformSources
  <2>2. CASE phase \in {"targets", "requested", "entries"}
    <3>1. /\ packages' = packages /\ loaded' = loaded /\ DOMAIN entries' = DOMAIN entries
      <4>1. DOMAIN entries' = DOMAIN entries
        BY <1>2, <1>4 DEF StagesInv
      <4> QED
        BY <1>1, <2>2, <4>1 DEF Next, DiscoverWorkspace, LoadConfiguration, DiscoverFiles, ApplyIgnoreRules,
                     ResolveTargetConditions, UseRequestedEntries, CollectPackageEntries, EndProfile
    <3>2. HasTransforms' = HasTransforms /\ OnDisk' = OnDisk
      BY <1>2, <3>1 DEF HasTransforms, OnDisk, Selected, Plugins
    <3>3. discovered' = discovered /\ gaps' = gaps
      BY <1>1, <2>2
    <3> QED
      BY <2>2, <3>2, <3>3 DEF LinkInv
  <2>3. CASE phase \in {"workspace", "configuration", "files"}
    <3>1. phase' \notin {"targets", "requested", "entries", "done"}
      BY <1>1, <2>3 DEF Next, DiscoverWorkspace, LoadConfiguration, DiscoverFiles, ApplyIgnoreRules,
              ResolveTargetConditions, UseRequestedEntries, CollectPackageEntries, EndProfile
    <3> QED
      BY <3>1
  <2> QED
    BY <1>2, <2>1, <2>2, <2>3 DEF Early
<1> QED
  BY <1>1, <1>2, <1>3, <1>5, <1>6 DEF LinkInv

(* A profile is linked after those that were, which stay linked.           *)
LEMMA ProfileLinks ==
  ASSUME StagesInv, EntriesInv, LinkInv, LinkProfile
  PROVE  StagesInv' /\ EntriesInv' /\ LinkInv'
<1>1. /\ phase = "done" /\ unlinked # <<>>
      /\ project' = project /\ packages' = packages /\ loaded' = loaded /\ files' = files
      /\ todo' = todo /\ left' = left /\ entries' = entries
  BY DEF LinkProfile
<1>2. /\ unlinked \in Seq(STRING) /\ IsInjective(unlinked)
      /\ ToSet(unlinked) \subseteq ToSet(project.profiles)
      /\ DOMAIN targets = ToSet(project.profiles) /\ DOMAIN edges = ToSet(project.profiles)
      /\ ~HasTransforms \/ discovered = OnDisk \/ gaps # {}
      /\ \A q \in DOMAIN entries \ ToSet(unlinked) : IsLinked(q)
  BY <1>1 DEF LinkInv, Linked
<1>3. phase' = "done" \/ phase' \in {"UnknownTargetProfile", "UnsafeEntry"}
  BY <1>1 DEF LinkProfile
<1>4. /\ KeptFiles' = KeptFiles /\ Merged' = Merged /\ Selected' = Selected
      /\ \A p : IsWorkspacePackage(p)' <=> IsWorkspacePackage(p)
  <2>1. Merged' = Merged /\ SourceFiles' = SourceFiles
    BY <1>1 DEF Merged, SourceFiles, Selected, InPackage, Walked
  <2>2. KeptFiles' = KeptFiles
    BY <1>1, <2>1 DEF KeptFiles, ConfiguredIgnore, PluginExclusion, PackageForPath, Effective,
                      Inferred, PackageConfiguration, IgnoreBase, Plugins
  <2>3. \A p : IsWorkspacePackage(p)' <=> IsWorkspacePackage(p)
    BY <1>1 DEF IsWorkspacePackage, Walked
  <2> QED
    BY <1>1, <2>1, <2>2, <2>3, NamedStay
<1>5. StagesInv'
  BY <1>1, <1>3, <1>4 DEF StagesInv, Configured, Early
<1>6. EntriesInv'
  <2>1. \A p, q : Settled(p, q) => Settled(p, q)'
    BY <1>1, SettledStays
  <2>2. \A q, e : Explained(q, e) => Explained(q, e)'
    BY <1>1, ExplainedStays
  <2> QED
    BY <1>1, <1>3, <1>4, <2>1, <2>2 DEF EntriesInv, Early
<1>7. CASE UNCHANGED linkVars
  <2>1. /\ unlinked' = unlinked /\ discovered' = discovered /\ targets' = targets
        /\ edges' = edges /\ gaps' = gaps
    BY <1>7 DEF linkVars
  <2>2. HasTransforms' = HasTransforms /\ OnDisk' = OnDisk
    BY <1>1, <1>4 DEF HasTransforms, OnDisk, Plugins
  <2>3. \A q : IsLinked(q) => IsLinked(q)'
    BY <1>1, <1>4, <2>1, ImportsStay, PluginLinksStay DEF IsLinked
  <2>4. \A q \in Linked' : IsLinked(q)'
    <3>1. Linked' \subseteq DOMAIN entries \ ToSet(unlinked)
      BY <1>1, <2>1 DEF Linked
    <3> QED
      BY <1>2, <2>3, <3>1
  <2>5. phase' \notin Early \cup {"entries"}
    BY <1>3 DEF Early
  <2> QED
    BY <1>1, <1>2, <1>5, <1>6, <2>1, <2>2, <2>4, <2>5 DEF LinkInv
<1>8. CASE /\ targets' = [targets EXCEPT ![Head(unlinked)] = WorkspaceModuleTargets(Head(unlinked))]
           /\ CollectPluginEdges(Head(unlinked))
           /\ unlinked' = Tail(unlinked) /\ phase' = phase /\ discovered' = discovered
  <2> DEFINE q == Head(unlinked)
  <2>1. /\ Tail(unlinked) \in Seq(STRING) /\ IsInjective(Tail(unlinked))
        /\ q \in ToSet(unlinked) /\ ToSet(unlinked) = {q} \cup ToSet(Tail(unlinked))
    BY <1>1, <1>2, FirstOfTodo
  <2>2. PICK beyond \in BOOLEAN :
          /\ edges' = [edges EXCEPT ![q] = IF beyond THEN {} ELSE LinksOf(q)]
          /\ gaps' = gaps \cup (UNION {TransformGaps(p, q) : p \in Selected})
                          \cup (IF beyond THEN {"plugin_pattern_limit_exceeded"} ELSE {})
    BY <1>8 DEF CollectPluginEdges, LinksOf
  <2> HIDE DEF q
  <2>3. /\ gaps \subseteq gaps' /\ (beyond => gaps' # {})
        /\ \A p \in Selected : TransformGaps(p, q) \subseteq gaps'
    BY <2>2
  <2>4. ASSUME NEW r \in DOMAIN entries \ ToSet(Tail(unlinked))
        PROVE  IsLinked(r)'
    <3>1. r \in DOMAIN targets /\ r \in DOMAIN edges /\ (r # q => IsLinked(r))
      BY <1>2, <2>1 DEF StagesInv
    <3>2. /\ WorkspaceModuleTargets(r)' = WorkspaceModuleTargets(r)
          /\ LinksOf(r)' = LinksOf(r) /\ \A p : TransformGaps(p, r)' = TransformGaps(p, r)
      BY <1>1, <1>8, ImportsStay, PluginLinksStay
    <3>3. CASE r = q
      <4>1. targets'[r] = WorkspaceModuleTargets(r)
        BY <1>8, <3>1, <3>3 DEF q
      <4>2. edges'[r] = LinksOf(r) \/ gaps' # {}
        BY <2>2, <2>3, <3>1, <3>3
      <4> QED
        BY <1>4, <2>3, <3>2, <3>3, <4>1, <4>2 DEF IsLinked
    <3>4. CASE r # q
      <4>1. targets'[r] = targets[r] /\ edges'[r] = edges[r]
        BY <1>8, <2>2, <3>1, <3>4 DEF q
      <4> QED
        BY <1>4, <2>3, <3>1, <3>2, <3>4, <4>1 DEF IsLinked
    <3> QED
      BY <3>3, <3>4
  <2>5. HasTransforms' = HasTransforms /\ OnDisk' = OnDisk
    BY <1>1, <1>4 DEF HasTransforms, OnDisk, Plugins
  <2>6. DOMAIN targets' = DOMAIN targets /\ DOMAIN edges' = DOMAIN edges
    BY <1>8, <2>2
  <2>7. ~HasTransforms' \/ discovered' = OnDisk' \/ gaps' # {}
    BY <1>2, <1>8, <2>3, <2>5
  <2>8. \A r \in Linked' : IsLinked(r)'
    <3>1. Linked' \subseteq DOMAIN entries \ ToSet(Tail(unlinked))
      BY <1>1, <1>8 DEF Linked
    <3> QED
      BY <2>4, <3>1
  <2>9. phase' \notin Early \cup {"entries"}
    BY <1>3 DEF Early
  <2>10. unlinked' = Tail(unlinked) /\ ToSet(Tail(unlinked)) \subseteq ToSet(project.profiles)
    BY <1>2, <1>8, <2>1
  <2> QED
    BY <1>1, <1>2, <1>5, <1>6, <2>1, <2>6, <2>7, <2>8, <2>9, <2>10 DEF LinkInv
<1> QED
  BY <1>5, <1>6, <1>7, <1>8 DEF LinkProfile

LEMMA LinkStep ==
  ASSUME StagesInv, EntriesInv, LinkInv, [LinkNext]_<<vars, linkVars>>
  PROVE  StagesInv' /\ EntriesInv' /\ LinkInv'
<1>1. CASE CollectEntries
  <2>1. Next
    BY <1>1 DEF CollectEntries
  <2> QED
    BY <1>1, <2>1, StagesStep, EntriesStep, CollectLinks
<1>2. CASE LinkProfile
  BY <1>2, ProfileLinks
<1>3. CASE UNCHANGED <<vars, linkVars>>
  <2>1. UNCHANGED vars /\ UNCHANGED linkVars
    BY <1>3
  <2>2. /\ project' = project /\ packages' = packages /\ loaded' = loaded /\ files' = files
        /\ entries' = entries /\ phase' = phase
    BY <2>1 DEF vars
  <2>3. /\ unlinked' = unlinked /\ discovered' = discovered /\ targets' = targets
        /\ edges' = edges /\ gaps' = gaps
    BY <2>1 DEF linkVars
  <2>4. Selected' = Selected
    BY <2>2, NamedStay
  <2>5. HasTransforms' = HasTransforms /\ OnDisk' = OnDisk
    BY <2>2, <2>4 DEF HasTransforms, OnDisk, Plugins
  <2>6. \A q : IsLinked(q) => IsLinked(q)'
    BY <2>2, <2>3, <2>4, ImportsStay, PluginLinksStay DEF IsLinked
  <2>7. LinkInv'
    BY <2>2, <2>3, <2>5, <2>6 DEF LinkInv, Linked
  <2> QED
    BY <2>1, <2>7, StagesStep, EntriesStep
<1> QED
  BY <1>1, <1>2, <1>3 DEF LinkNext

(* Each stage leaves behind what the later ones rest on: the files are     *)
(* those kept, every package that was asked has given its entries, every   *)
(* profile that was linked has its links or a diagnostic of their lack.    *)
THEOREM LinkInvariant == LinkSpec => [](StagesInv /\ EntriesInv /\ LinkInv)
<1>1. LinkInit => StagesInv /\ EntriesInv /\ LinkInv
  BY StagesInit, EntriesInit, LinkInitially DEF LinkInit
<1>2. StagesInv /\ EntriesInv /\ LinkInv /\ [LinkNext]_<<vars, linkVars>>
        => (StagesInv /\ EntriesInv /\ LinkInv)'
  BY LinkStep
<1> QED
  BY <1>1, <1>2, PTL DEF LinkSpec
-----------------------------------------------------------------------------
(* Links of plugins are whole where there is no diagnostic.                *)

LEMMA EdgesOfPlugin ==
  ASSUME NEW q, NEW p \in Selected, NEW g \in Plugins(p, q)
  PROVE  /\ \A e \in g.edges : \A a \in e.from, b \in e.to :
              {p \o a, p \o b} \subseteq files => \E l \in LinksOf(q) : l.from = p \o a /\ l.to = p \o b
         /\ \A t \in g.transforms : \A a \in Matched(p, t, files) : \A b \in Outputs(p, t, a) :
              b = p \o a \/ \E l \in LinksOf(q) : l.from = p \o a /\ l.to = b
<1>1. ASSUME NEW l \in DeclaredEdges(p, q) \cup TransformEdges(p, q), {l.from, l.to} \subseteq files
      PROVE  l \in LinksOf(q)
  BY <1>1 DEF LinksOf
<1>2. ASSUME NEW e \in g.edges, NEW a \in e.from, NEW b \in e.to, {p \o a, p \o b} \subseteq files
      PROVE  \E l \in LinksOf(q) : l.from = p \o a /\ l.to = p \o b
  <2>1. PICK l : l = [from |-> p \o a, to |-> p \o b, reason |-> e.reason]
    OBVIOUS
  <2> DEFINE Of(x) ==
               {[from |-> p \o c[1], to |-> p \o c[2], reason |-> x.reason] : c \in x.from \X x.to}
  <2>2. l \in Of(e)
    <3>1. <<a, b>> \in e.from \X e.to /\ <<a, b>>[1] = a /\ <<a, b>>[2] = b
      OBVIOUS
    <3> QED
      BY <2>1, <3>1
  <2>3. DeclaredEdges(p, q) = UNION {UNION {Of(x) : x \in h.edges} : h \in Plugins(p, q)}
    BY DEF DeclaredEdges
  <2> HIDE DEF Of
  <2>4. l \in UNION {Of(x) : x \in g.edges}
    BY <2>2
  <2>5. l \in DeclaredEdges(p, q)
    BY <2>3, <2>4
  <2>6. l.from = p \o a /\ l.to = p \o b
    BY <2>1
  <2> QED
    BY <1>1, <1>2, <2>5, <2>6
<1>3. ASSUME NEW t \in g.transforms, NEW a \in Matched(p, t, files), NEW b \in Outputs(p, t, a), b # p \o a
      PROVE  \E l \in LinksOf(q) : l.from = p \o a /\ l.to = b
  <2>1. PICK l : l = [from |-> p \o a, to |-> b, reason |-> t.reason]
    OBVIOUS
  <2> DEFINE Of(x, c) ==
               {[from |-> p \o c, to |-> d, reason |-> x.reason] : d \in Outputs(p, x, c) \ {p \o c}}
  <2>2. l \in Of(t, a)
    BY <1>3, <2>1
  <2>3. TransformEdges(p, q) =
          UNION {UNION {Of(x, c) : c \in Matched(p, x, files)} : x \in TransformsOf(p, q)}
    BY DEF TransformEdges
  <2> HIDE DEF Of
  <2>4. t \in TransformsOf(p, q)
    BY DEF TransformsOf
  <2>5. l \in UNION {Of(t, c) : c \in Matched(p, t, files)}
    BY <2>2
  <2>6. l \in TransformEdges(p, q)
    BY <2>3, <2>4, <2>5
  <2>7. l.from = p \o a /\ l.to = b
    BY <2>1
  <2>8. p \o a \in files /\ b \in files
    BY DEF Matched, Outputs
  <2> QED
    BY <1>1, <2>6, <2>7, <2>8
<1> QED
  BY <1>2, <1>3

LEMMA PluginLinksHold ==
  ASSUME StagesInv, LinkInv
  PROVE  PluginLinksAreWhole
<1> SUFFICES ASSUME gaps = {}, NEW q \in Linked, NEW p \in Selected, NEW g \in Plugins(p, q)
             PROVE  LET IsEdge(a, b) == \E e \in edges[q] : e.from = a /\ e.to = b IN
                    /\ \A e \in g.edges : \A a \in e.from, b \in e.to :
                         {p \o a, p \o b} \subseteq files => IsEdge(p \o a, p \o b)
                    /\ \A t \in g.transforms :
                         /\ Matched(p, t, OnDisk) # {} => Matched(p, t, files) # {}
                         /\ \A a \in Matched(p, t, files) :
                              /\ Outputs(p, t, a) # {}
                              /\ \A b \in Outputs(p, t, a) : b = p \o a \/ IsEdge(p \o a, b)
  BY DEF PluginLinksAreWhole
<1>1. phase = "done" /\ q \in DOMAIN entries
  BY DEF Linked
<1>2. edges[q] = LinksOf(q) /\ TransformGaps(p, q) = {}
  BY DEF LinkInv, IsLinked
<1>3. ASSUME NEW t \in g.transforms
      PROVE  /\ Matched(p, t, OnDisk) # {} => Matched(p, t, files) # {}
             /\ \A a \in Matched(p, t, files) : Outputs(p, t, a) # {}
  <2>1. HasTransforms /\ t \in TransformsOf(p, q)
    BY <1>1 DEF HasTransforms, TransformsOf
  <2>2. discovered = OnDisk
    BY <1>1, <2>1 DEF LinkInv
  <2>3. ~(Matched(p, t, files) = {} /\ Matched(p, t, discovered) # {})
    BY <1>2, <2>1 DEF TransformGaps
  <2>4. ~\E a \in Matched(p, t, files) : Outputs(p, t, a) = {}
    BY <1>2, <2>1 DEF TransformGaps
  <2> QED
    BY <2>2, <2>3, <2>4
<1> QED
  BY <1>2, <1>3, EdgesOfPlugin

-----------------------------------------------------------------------------
(* Types.                                                                  *)
LEMMA InitTyped ==
  ASSUME Init
  PROVE  TypeOK
<1>1. project.profiles \in Seq(STRING)
  BY ProjectsAssumption DEF Init
<1>2. project.profiles \in Seq(ToSet(project.profiles))
  BY <1>1 DEF ToSet
<1> QED
  BY <1>2 DEF Init, TypeOK

LEMMA TypesStep ==
  ASSUME StagesInv, TypeOK, [Next]_vars
  PROVE  TypeOK'
<1>0. /\ packages \subseteq DOMAIN project.manifests
      /\ files \subseteq project.sources
      /\ DOMAIN entries = ToSet(project.profiles)
      /\ \A q \in DOMAIN entries : entries[q] \subseteq files
      /\ todo \in Seq(DOMAIN entries)
      /\ left \subseteq DOMAIN project.manifests
  BY DEF TypeOK
<1>1. CASE DiscoverWorkspace
  <2>1. /\ packages' \subseteq ToSet(project.order)
        /\ project' = project /\ files' = files /\ entries' = entries /\ todo' = todo /\ left' = left
        /\ phase = "workspace"
    BY <1>1 DEF DiscoverWorkspace
  <2>2. ToSet(project.order) \subseteq DOMAIN project.manifests
    BY ProjectsAssumption DEF StagesInv, ToSet
  <2> QED
    BY <1>0, <2>1, <2>2 DEF TypeOK
<1>2. CASE LoadConfiguration
  BY <1>0, <1>2 DEF LoadConfiguration, TypeOK
<1>3. CASE DiscoverFiles
  <2>1. \A q \in DOMAIN entries : entries[q] = {}
    BY <1>3 DEF DiscoverFiles, StagesInv, Early
  <2>2. SourceFiles \subseteq project.sources
    BY DEF SourceFiles
  <2> QED
    BY <1>0, <1>3, <2>1, <2>2 DEF DiscoverFiles, TypeOK
<1>4. CASE ApplyIgnoreRules
  <2>1. \A q \in DOMAIN entries : entries[q] = {}
    BY <1>4 DEF ApplyIgnoreRules, StagesInv, Early
  <2>2. files' \subseteq files
    BY <1>4 DEF ApplyIgnoreRules
  <2> QED
    BY <1>0, <1>4, <2>1, <2>2 DEF ApplyIgnoreRules, TypeOK
<1>5. phase \in {"targets", "entries"} => Selected \subseteq packages
  BY DEF StagesInv, Selected
<1>6. CASE ResolveTargetConditions
  <2>1. left' = left \/ left' = Selected
    BY <1>6 DEF ResolveTargetConditions
  <2> QED
    BY <1>0, <1>5, <1>6, <2>1 DEF ResolveTargetConditions, TypeOK
<1>7. CASE UseRequestedEntries
  <2>1. DOMAIN entries' = DOMAIN entries /\ \A q \in DOMAIN entries : entries'[q] \subseteq files
    BY <1>0, <1>7 DEF UseRequestedEntries
  <2> QED
    BY <1>0, <1>7, <2>1 DEF UseRequestedEntries, TypeOK
<1>8. ASSUME NEW p \in left, CollectPackageEntries(p)
      PROVE  TypeOK'
  <2>1. DOMAIN entries' = DOMAIN entries /\ \A q \in DOMAIN entries : entries'[q] \subseteq files
    BY <1>0, <1>8, NamedAreFiles DEF CollectPackageEntries
  <2>2. left' \subseteq left
    BY <1>8 DEF CollectPackageEntries
  <2> QED
    BY <1>0, <1>8, <2>1, <2>2 DEF CollectPackageEntries, TypeOK
<1>9. CASE EndProfile
  <2>1. todo' = Tail(todo) /\ todo # <<>>
    BY <1>9 DEF EndProfile
  <2>2. todo' \in Seq(DOMAIN entries)
    BY <1>0, <2>1
  <2> QED
    BY <1>0, <1>5, <1>9, <2>2 DEF EndProfile, TypeOK
<1>10. CASE UNCHANGED vars
  BY <1>0, <1>10 DEF vars, TypeOK
<1> QED
  BY <1>1, <1>2, <1>3, <1>4, <1>6, <1>7, <1>8, <1>9, <1>10 DEF Next

(* No link is there before the entries are complete.                       *)
Unmade ==
  phase \in Early \cup {"entries"} => \A q \in DOMAIN entries : targets[q] = <<>> /\ edges[q] = {}

LEMMA ReadTargetsAreFiles ==
  ASSUME NEW p, NEW q, NEW r, NEW t \in ReadTargets(p, q, r)
  PROVE  t[2] \in files
<1>1. CASE t \in {<<>>} \X UNION {MapEntryToSource(p \o c) :
                                     c \in PackageEntryRoots(project.manifests[p], r)}
  BY <1>1, MapsToFiles
<1>2. ASSUME NEW x \in SubpathExports(p, q, r), t \in ExpandExport(p, x[1], x[2])
      PROVE  t[2] \in files
  <2>1. CASE ~IsPattern(x[1]) /\ ~IsPattern(x[2])
    <3>1. t \in {x[1]} \X MapEntryToSource(p \o x[2])
      BY <1>2, <2>1 DEF ExpandExport
    <3> QED
      BY <3>1, MapsToFiles
  <2>2. CASE IsPattern(x[1]) /\ IsPattern(x[2])
    <3>1. ExpandExport(p, x[1], x[2]) =
            UNION {{Front(x[1]) \o c : c \in UNION {CapturesIn(p \o x[2], e) : e \in EmittedVariants(f)}}
                     \X {f} : f \in {g \in files : IsPrefix(p, g)}}
      BY <2>2 DEF ExpandExport
    <3> QED
      BY <1>2, <3>1
  <2>3. CASE ~(~IsPattern(x[1]) /\ ~IsPattern(x[2])) /\ ~(IsPattern(x[1]) /\ IsPattern(x[2]))
    <3>1. ExpandExport(p, x[1], x[2]) = {}
      BY <2>3 DEF ExpandExport
    <3> QED
      BY <1>2, <3>1
  <2> QED
    BY <2>1, <2>2, <2>3
<1> QED
  BY <1>1, <1>2 DEF ReadTargets

LEMMA LinkedAreFiles ==
  ASSUME NEW q, NEW specifier \in DOMAIN WorkspaceModuleTargets(q)
  PROVE  WorkspaceModuleTargets(q)[specifier].Esm \cup WorkspaceModuleTargets(q)[specifier].CommonJs
           \subseteq files
<1> DEFINE Of(p, r) == {<<project.manifests[p].name, t[1], t[2]>> : t \in ReadTargets(p, q, r)}
           OfPackage(p, mode) ==
             UNION {Of(p, r) : r \in {s \in ManifestProfiles(q, TargetsOf(p)) : ModeOf(s) = mode}}
           Found(mode) == UNION {OfPackage(p, mode) : p \in Named}
           FilesOf(found, s) == {t[3] : t \in {u \in found : <<u[1], u[2]>> = s}}
           Names == {<<t[1], t[2]>> : t \in Found("Esm") \cup Found("CommonJs")}
                      \cup {<<project.manifests[p].name, <<>>>> : p \in Named}
<1>1. \A p, r : \A u \in Of(p, r) : u[3] \in files
  BY ReadTargetsAreFiles
<1> HIDE DEF Of
<1>2. \A mode : \A u \in Found(mode) : u[3] \in files
  BY <1>1
<1>3. WorkspaceModuleTargets(q) =
        [s \in Names |-> [Esm |-> FilesOf(Found("Esm"), s), CommonJs |-> FilesOf(Found("CommonJs"), s)]]
  BY DEF WorkspaceModuleTargets, Of
<1> HIDE DEF OfPackage, Found, Names
<1>4. \A mode, s : FilesOf(Found(mode), s) \subseteq files
  BY <1>2
<1> HIDE DEF FilesOf
<1> QED
  BY <1>3, <1>4

LEMMA LinkTypesStep ==
  ASSUME StagesInv, LinkInv, TypeOK, LinkTypeOK, Unmade, [LinkNext]_<<vars, linkVars>>
  PROVE  TypeOK' /\ LinkTypeOK' /\ Unmade'
<1>1. CASE CollectEntries
  <2>1. /\ Next /\ unlinked' = unlinked /\ targets' = targets /\ edges' = edges
    BY <1>1 DEF CollectEntries
  <2>2. phase \in Early \cup {"entries"}
    BY <2>1 DEF Next, DiscoverWorkspace, LoadConfiguration, DiscoverFiles, ApplyIgnoreRules,
                ResolveTargetConditions, UseRequestedEntries, CollectPackageEntries, EndProfile, Early
  <2>3. TypeOK' /\ StagesInv'
    BY <2>1, StagesStep, TypesStep
  <2>4. project' = project
    BY <2>1 DEF Next, DiscoverWorkspace, LoadConfiguration, DiscoverFiles, ApplyIgnoreRules,
                ResolveTargetConditions, UseRequestedEntries, CollectPackageEntries, EndProfile
  <2>5. DOMAIN entries' = DOMAIN entries
    BY <2>3, <2>4 DEF StagesInv
  <2>6. \A q \in DOMAIN entries : targets[q] = <<>> /\ edges[q] = {}
    BY <2>2 DEF Unmade
  <2>7. Unmade'
    BY <2>1, <2>5, <2>6 DEF Unmade
  <2>8. LinkTypeOK'
    BY <2>1, <2>5, <2>6 DEF LinkTypeOK
  <2> QED
    BY <2>3, <2>7, <2>8
<1>2. CASE LinkProfile
  <2>1. /\ phase = "done" /\ phase' \notin Early \cup {"entries"} /\ unlinked # <<>>
        /\ project' = project /\ packages' = packages /\ files' = files /\ todo' = todo
        /\ left' = left /\ entries' = entries
    BY <1>2 DEF LinkProfile, Early
  <2>2. TypeOK' /\ Unmade'
    BY <2>1 DEF TypeOK, Unmade
  <2>3. CASE UNCHANGED linkVars
    BY <2>1, <2>2, <2>3 DEF linkVars, LinkTypeOK
  <2>4. CASE /\ targets' = [targets EXCEPT ![Head(unlinked)] = WorkspaceModuleTargets(Head(unlinked))]
             /\ CollectPluginEdges(Head(unlinked))
             /\ unlinked' = Tail(unlinked)
    <3> DEFINE q == Head(unlinked)
    <3>1. q \in DOMAIN entries /\ Tail(unlinked) \in Seq(DOMAIN entries)
      BY <2>1 DEF LinkTypeOK
    <3>2. edges' = [edges EXCEPT ![q] = {}] \/ edges' = [edges EXCEPT ![q] = LinksOf(q)]
      BY <2>4 DEF CollectPluginEdges, LinksOf
    <3> HIDE DEF q
    <3>3. \A e \in LinksOf(q) : {e.from, e.to} \subseteq files
      BY DEF LinksOf
    <3>4. \A r \in DOMAIN entries : \A e \in edges'[r] : {e.from, e.to} \subseteq files
      BY <3>1, <3>2, <3>3 DEF LinkTypeOK
    <3>5. targets' = [targets EXCEPT ![q] = WorkspaceModuleTargets(q)]
      BY <2>4 DEF q
    <3>6. \A r \in DOMAIN entries : \A s \in DOMAIN targets'[r] :
            targets'[r][s].Esm \cup targets'[r][s].CommonJs \subseteq files
      BY <3>1, <3>5, LinkedAreFiles DEF LinkTypeOK
    <3>7. DOMAIN targets' = DOMAIN entries /\ DOMAIN edges' = DOMAIN entries
      BY <3>2, <3>5 DEF LinkTypeOK
    <3> QED
      BY <2>1, <2>2, <2>4, <3>1, <3>4, <3>6, <3>7 DEF LinkTypeOK
  <2> QED
    BY <1>2, <2>3, <2>4 DEF LinkProfile
<1>3. CASE UNCHANGED <<vars, linkVars>>
  <2>1. UNCHANGED vars /\ UNCHANGED linkVars
    BY <1>3
  <2>2. TypeOK'
    BY <2>1, TypesStep
  <2> QED
    BY <2>1, <2>2 DEF vars, linkVars, LinkTypeOK, Unmade
<1> QED
  BY <1>1, <1>2, <1>3 DEF LinkNext

-----------------------------------------------------------------------------
(* What holds of the entries and of the links.                             *)

(* What packages, files, entries and links are made of is there in the     *)
(* project: no entry of a profile and no end of a link is outside of the   *)
(* files that are scanned, at any stage (discover_workspace_files,         *)
(* collect_profile_entries, workspace_module_targets and                   *)
(* collect_plugin_file_edges of application/project.rs).                   *)
THEOREM EntryTypesCorrect == LinkSpec => [](TypeOK /\ LinkTypeOK)
<1>1. LinkSpec => [](StagesInv /\ EntriesInv /\ LinkInv)
  BY LinkInvariant
<1>2. LinkInit => TypeOK /\ LinkTypeOK /\ Unmade
  <2> SUFFICES ASSUME LinkInit
               PROVE  TypeOK /\ LinkTypeOK /\ Unmade
    OBVIOUS
  <2>1. TypeOK
    BY InitTyped DEF LinkInit
  <2>2. unlinked = todo /\ DOMAIN entries = ToSet(project.profiles)
    BY DEF LinkInit, Init
  <2>3. \A q \in DOMAIN entries : targets[q] = <<>> /\ edges[q] = {}
    BY <2>2 DEF LinkInit
  <2>4. LinkTypeOK
    BY <2>1, <2>2, <2>3 DEF LinkInit, LinkTypeOK, TypeOK
  <2> QED
    BY <2>1, <2>3, <2>4 DEF Unmade
<1>3. /\ StagesInv /\ EntriesInv /\ LinkInv /\ TypeOK /\ LinkTypeOK /\ Unmade
      /\ [LinkNext]_<<vars, linkVars>>
      => (TypeOK /\ LinkTypeOK /\ Unmade)'
  BY LinkTypesStep
<1> QED
  BY <1>1, <1>2, <1>3, PTL DEF LinkSpec

(* The highest layer that states a rule list or a world decides, and rules *)
(* are read where it is meant (merge_configuration_layers, the ignore      *)
(* rules and open_world_entries of scan_project_measured).                 *)
THEOREM HighestLayerDecides == LinkSpec => []LayersDecide
<1>1. LinkSpec => [](StagesInv /\ EntriesInv /\ LinkInv)
  BY LinkInvariant
<1>2. StagesInv => LayersDecide
  BY LayersHold
<1> QED
  BY <1>1, <1>2, PTL

(* What names a file as an entry makes it one: the configuration of its    *)
(* package, what the package offers the consumers of a profile, what its   *)
(* scripts load, and by default a convention (manifest_entry_candidates    *)
(* and map_entry_to_source of application/project.rs).                     *)
THEOREM NamedFilesBecomeEntries == LinkSpec => []NamedFilesAreEntries
<1>1. LinkSpec => [](StagesInv /\ EntriesInv /\ LinkInv)
  BY LinkInvariant
<1>2. StagesInv /\ EntriesInv => NamedFilesAreEntries
  BY NamesHold
<1> QED
  BY <1>1, <1>2, PTL

(* No file is an entry that nothing names: of each entry of a profile some *)
(* package scanned states it, offers it to this profile, loads it, or has  *)
(* it by convention, itself or by what is compiled from it (the same, and  *)
(* source_variants).                                                       *)
THEOREM EntriesAreNamed == LinkSpec => []OnlyNamedFilesAreEntries
<1>1. LinkSpec => [](StagesInv /\ EntriesInv /\ LinkInv)
  BY LinkInvariant
<1>2. StagesInv /\ EntriesInv => OnlyNamedFilesAreEntries
  BY OnlyNamesHold
<1> QED
  BY <1>1, <1>2, PTL

(* What is loaded of another package, and what a plugin knows to be loaded *)
(* or generated, is in the graph of every profile, or a diagnostic says    *)
(* that links are missing (workspace_module_targets, expand_export and     *)
(* collect_plugin_file_edges of application/project.rs).                   *)
THEOREM LinksAreNotLost == LinkSpec => []LinksAreWhole
<1>1. LinkSpec => [](StagesInv /\ EntriesInv /\ LinkInv)
  BY LinkInvariant
<1>2. StagesInv /\ EntriesInv /\ LinkInv => LinksAreWhole
  <2>1. LinkInv => \A q \in Linked : targets[q] = WorkspaceModuleTargets(q)
    BY DEF LinkInv, IsLinked
  <2> QED
    BY <2>1, ImportsHold, PluginLinksHold DEF LinksAreWhole
<1> QED
  BY <1>1, <1>2, PTL
=============================================================================
