----------------------------- MODULE PluginHost -----------------------------
(***************************************************************************)
(* The plugins of one package, application/project.rs: detected ones,      *)
(* configured ones, and those that are programs of their own, which the    *)
(* host runs once per target profile.                                      *)
(*                                                                         *)
(* A call writes the request, waits for the program to exit while a thread *)
(* reads its output, and parses what was read.  The two pipes have a       *)
(* bounded capacity; requests and answers are counted in its units.  The   *)
(* program is external: it reads, writes, closes its input, leaves another *)
(* process behind, and exits whenever it likes, if ever.                   *)
(***************************************************************************)
EXTENDS PluginContract

CONSTANTS Builtin,          \* ids of the built-in plugins
          Plugin,           \* per configured name, what the plugin is
          Plans,            \* configurations: Detect, or names in order
          Detect,           \* no plugins are configured
          Packages,         \* the facts about the package
          ProfileLists,     \* the target profiles
          Answers,          \* what a program may write
          Capacity,         \* of a pipe
          MaxMessage,       \* AnalysisLimits::max_protocol_message_bytes
          MaxResponse       \* max_response_bytes

ASSUME HostAssumption ==
  /\ Capacity \in Nat \ {0} /\ MaxMessage \in Nat /\ MaxResponse \in Nat
  /\ Builtin \subseteq DOMAIN Plugin
  /\ \A p \in DOMAIN Plugin :
       /\ Plugin[p].kind \in {"builtin", "file", "program"}
       /\ Plugin[p].kind = "builtin" <=> p \in Builtin
       /\ Plugin[p].kind = "program" => Plugin[p].request \in Nat
       /\ \A f \in Plugin[p].contributions.facts : IsFact(f)
  /\ \A a \in Answers :
       /\ a.size \in Nat \ {0} /\ a.status \in {"Complete", "Incomplete", "Failed"}
       /\ a.quotable \in BOOLEAN
       /\ \A f \in a.contributions.facts : IsFact(f)
       /\ a.contributions.diagnostics \subseteq PluginDiagnostic
  /\ \A list \in Plans \ {Detect} : list \in Seq(DOMAIN Plugin)
  /\ \A list \in ProfileLists : Len(list) \in Nat /\ DOMAIN list = 1..Len(list)

VARIABLES plan, package, profiles, \* the configuration and the facts
          pc,            \* the stage of detect_plugins
          next,          \* the position in the plan
          asked,         \* the profiles the current program was asked for
          contributions, \* what it contributed so far
          selected,      \* the plugins by id
          diagnostics,   \* what append_plugin_diagnostics reports
          sent,          \* units of the request written
          input, output, \* units in the two pipes
          answer,        \* what the program is about to write
          child,         \* the program
          heir,          \* another process holds the program's pipes
          reader, got,   \* the reading thread, and what it has read
          late,          \* the deadline has passed
          accepted,      \* history: the answers accepted, and of which call
          stray          \* history: the inputs of programs that outlived a call

inputVars == <<plan, package, profiles>>
callVars == <<sent, input, output, answer, child, heir, reader, got, late>>
historyVars == <<accepted, stray>>
allVars == <<inputVars, pc, next, asked, contributions, selected, diagnostics,
          callVars, historyVars>>

InCall == pc \in {"write", "wait", "kill", "drain", "join"}

Silent == [state |-> "none", input |-> "open", wrote |-> 0]

HostTypeOK ==
  /\ plan \in Plans /\ package \in Packages /\ profiles \in ProfileLists
  /\ pc \in {"select", "request", "write", "wait", "kill", "drain", "join",
             "validate", "assemble", "report", "failed", "done"}
  /\ asked \in 0..Len(profiles)
  /\ \A f \in contributions.facts : IsFact(f)
  /\ contributions.diagnostics \subseteq PluginDiagnostic
  /\ sent \in 0..MaxMessage /\ got \in 0..(MaxResponse + 1)
  /\ input \in 0..Capacity /\ output \in 0..Capacity
  /\ child.state \in {"none", "running", "ok", "fail"}
  /\ child.input \in {"open", "closed"} /\ child.wrote \in Nat
  /\ reader \in {"none", "reading", "ended"}
  /\ heir \in BOOLEAN /\ late \in BOOLEAN
  /\ stray \subseteq {"open", "closed"}

HostInit ==
  /\ plan \in Plans /\ package \in Packages /\ profiles \in ProfileLists
  /\ pc = "select" /\ next = 1 /\ asked = 0
  /\ contributions = NoContributions
  /\ selected = [id \in {} |-> NoContributions] /\ diagnostics = {}
  /\ sent = 0 /\ input = 0 /\ output = 0
  /\ answer = CHOOSE a \in Answers : TRUE
  /\ child = Silent /\ heir = FALSE /\ reader = "none" /\ got = 0 /\ late = FALSE
  /\ accepted = {} /\ stray = {}

-----------------------------------------------------------------------------
(* Selecting plugins.                                                      *)

Current == Plugin[plan[next]]

BuiltinEvidence(p) ==
  {d \in package.dependencies : d.name \in Plugin[p].detects}
     \cup {f \in package.directory : f.name \in Plugin[p].detects}

DetectionInputValid ==
  /\ \A d \in package.dependencies : d.name \in Referable
  /\ \A f \in package.directory : f.normalized

Chosen(p, contributed, evident) ==
  [id          |-> Plugin[p].id,
   unsupported |-> IF evident THEN Plugin[p].unsupported ELSE {},
   name        |-> p,
   diagnostics |-> contributed.diagnostics,
   facts       |-> contributed.facts]

(* A detected plugin also refers to the packages it was detected by.       *)
WithReferences(p) ==
  [Plugin[p].contributions EXCEPT !.facts = @ \cup
     {[capability |-> "References", item |-> d.name, normalized |-> TRUE,
       wellFormed |-> TRUE, outside |-> FALSE] :
        d \in BuiltinEvidence(p) \cap package.dependencies}]

DetectPlugins ==
  /\ pc = "select" /\ plan = Detect
  /\ IF DetectionInputValid
     THEN /\ selected' =
               [id \in {b \in Builtin : BuiltinEvidence(b) # {}} |->
                  Chosen(id, WithReferences(id),
                         \/ Plugin[id].intrinsic
                         \/ BuiltinEvidence(id) \cap package.directory # {})]
          /\ pc' = "report"
     ELSE pc' = "failed" /\ UNCHANGED selected
  /\ UNCHANGED <<inputVars, next, asked, contributions, diagnostics, callVars, historyVars>>

(* A plugin that was selected before under the same id is replaced.        *)
Keep(contributed) ==
  /\ selected' = [id \in DOMAIN selected \cup {Current.id} |->
                    IF id = Current.id THEN Chosen(plan[next], contributed, TRUE)
                    ELSE selected[id]]
  /\ next' = next + 1
  /\ pc' = "select"

Select ==
  /\ pc = "select" /\ plan # Detect
  /\ next <= Len(plan)
  /\ CASE Current.kind = "program" /\ Current.loads /\ ConfigValid(Current) ->
            /\ pc' = "request" /\ asked' = 0 /\ contributions' = NoContributions
            /\ UNCHANGED <<next, selected>>
       [] Current.kind # "program" /\ Current.loads /\ PluginValid(Current) ->
            Keep(Current.contributions) /\ UNCHANGED <<asked, contributions>>
       [] OTHER ->
            pc' = "failed" /\ UNCHANGED <<next, asked, contributions, selected>>
  /\ UNCHANGED <<inputVars, diagnostics, callVars, historyVars>>

EndSelection ==
  /\ pc = "select" /\ plan # Detect
  /\ next > Len(plan)
  /\ pc' = "report"
  /\ UNCHANGED <<inputVars, next, asked, contributions, selected, diagnostics,
                 callVars, historyVars>>

(* append_plugin_diagnostics *)
ReportPlugins ==
  /\ pc = "report"
  /\ diagnostics' = UNION {selected[id].diagnostics \cup selected[id].unsupported :
                             id \in DOMAIN selected}
  /\ pc' = "done"
  /\ UNCHANGED <<inputVars, next, asked, contributions, selected, callVars, historyVars>>

-----------------------------------------------------------------------------
(* One call of a program.                                                  *)

Running == child.state = "running"

InputOpen == child.input = "open" /\ (Running \/ heir)

Blocker(printable) == [error |-> TRUE, blocks |-> TRUE, printable |-> printable]

(* Variant: the loop is left without a word.                               *)
FailQuietly(printable) ==
  /\ pc' = "assemble"
  /\ stray' = IF Running THEN stray \cup {child.input} ELSE stray
  /\ UNCHANGED contributions

(* Any failure ends the questions, and leaves a diagnostic that blocks.    *)
Fail(printable) ==
  /\ contributions' = [contributions EXCEPT !.diagnostics = @ \cup {Blocker(printable)}]
  /\ pc' = "assemble"
  /\ stray' = IF Running THEN stray \cup {child.input} ELSE stray

Profile == profiles[asked + 1]

Spawn ==
  /\ pc = "request" /\ asked < Len(profiles)
  /\ RequestValid(package, Profile) /\ Current.request <= MaxMessage
  /\ answer' \in Answers
  /\ child' = [Silent EXCEPT !.state = "running"]
  /\ sent' = 0 /\ input' = 0 /\ output' = 0
  /\ heir' = FALSE /\ reader' = "none" /\ got' = 0 /\ late' = FALSE
  /\ pc' = "write"
  /\ UNCHANGED <<inputVars, next, asked, contributions, selected, diagnostics, historyVars>>

(* The request is refused, and what is wrong with it is quoted, or it is   *)
(* too long, or the program cannot be started.                             *)
NoSpawn ==
  /\ pc = "request" /\ asked < Len(profiles)
  /\ \E printable \in BOOLEAN :
       /\ RequestValid(package, Profile) => printable
       /\ Fail(printable)
  /\ UNCHANGED <<inputVars, next, asked, selected, diagnostics, callVars, accepted>>

Write ==
  /\ pc = "write" /\ sent < Current.request
  /\ InputOpen /\ input < Capacity
  /\ sent' = sent + 1 /\ input' = input + 1
  /\ UNCHANGED <<inputVars, pc, next, asked, contributions, selected, diagnostics, output,
                 answer, child, heir, reader, got, late, historyVars>>

(* Nobody holds the other end: the call returns, and nobody stops a        *)
(* program that merely closed its input.                                   *)
WriteFails ==
  /\ pc = "write" /\ sent < Current.request
  /\ ~InputOpen
  /\ Fail(TRUE)
  /\ UNCHANGED <<inputVars, next, asked, selected, diagnostics, callVars, accepted>>

StartReader ==
  /\ pc = "write" /\ sent = Current.request
  /\ reader' = "reading"
  /\ pc' = "wait"
  /\ UNCHANGED <<inputVars, next, asked, contributions, selected, diagnostics, sent, input,
                 output, answer, child, heir, got, late, historyVars>>

Read ==
  /\ reader = "reading" /\ output > 0 /\ got <= MaxResponse
  /\ got' = got + 1 /\ output' = output - 1
  /\ UNCHANGED <<inputVars, pc, next, asked, contributions, selected, diagnostics, sent,
                 input, answer, child, heir, reader, late, historyVars>>

(* take(limit + 1) ends, or the last writer has closed the pipe.           *)
ReadEnds ==
  /\ reader = "reading"
  /\ got > MaxResponse \/ (output = 0 /\ ~Running /\ ~heir)
  /\ reader' = "ended"
  /\ UNCHANGED <<inputVars, pc, next, asked, contributions, selected, diagnostics, sent,
                 input, output, answer, child, heir, got, late, historyVars>>

DeadlinePasses ==
  /\ pc = "wait" /\ ~late
  /\ late' = TRUE
  /\ UNCHANGED <<inputVars, pc, next, asked, contributions, selected, diagnostics, sent,
                 input, output, answer, child, heir, reader, got, historyVars>>

(* try_wait has an exit status, even after the deadline.                   *)
Exited ==
  /\ pc = "wait" /\ ~Running
  /\ pc' = "join"
  /\ UNCHANGED <<inputVars, next, asked, contributions, selected, diagnostics, callVars,
                 historyVars>>

WaitFails ==
  /\ pc = "wait" /\ ~Running
  /\ Fail(TRUE)
  /\ UNCHANGED <<inputVars, next, asked, selected, diagnostics, callVars, accepted>>

(* Variant: the output is awaited before the deadline is looked at.        *)
TimedOutAfterReading ==
  /\ pc = "wait" /\ Running /\ late /\ reader = "ended"
  /\ pc' = "kill"
  /\ UNCHANGED <<inputVars, next, asked, contributions, selected, diagnostics, callVars,
                 historyVars>>

TimedOut ==
  /\ pc = "wait" /\ Running /\ late
  /\ pc' = "kill"
  /\ UNCHANGED <<inputVars, next, asked, contributions, selected, diagnostics, callVars,
                 historyVars>>

(* Variant: a late program is given up, and goes on.                       *)
GiveUp ==
  /\ pc = "kill"
  /\ pc' = "drain"
  /\ UNCHANGED <<inputVars, next, asked, contributions, selected, diagnostics, callVars,
                 historyVars>>

Kill ==
  /\ pc = "kill"
  /\ child' = IF Running THEN [child EXCEPT !.state = "fail"] ELSE child
  /\ pc' = "drain"
  /\ UNCHANGED <<inputVars, next, asked, contributions, selected, diagnostics, sent, input,
                 output, answer, heir, reader, got, late, historyVars>>

Drained ==
  /\ pc = "drain" /\ reader = "ended"
  /\ Fail(TRUE)
  /\ UNCHANGED <<inputVars, next, asked, selected, diagnostics, callVars, accepted>>

(* What was read parses when it is the whole of a JSON answer.             *)
Parses == got = answer.size /\ answer.json

(* What does not parse is quoted in the diagnostic.                        *)
Quotable == (child.state = "ok" /\ got <= MaxResponse) => answer.quotable

(* Variant: the exit status is not looked at.                              *)
JoinedAnyhow ==
  /\ pc = "join" /\ reader = "ended"
  /\ IF got <= MaxResponse /\ Parses
     THEN pc' = "validate" /\ UNCHANGED <<contributions, stray>>
     ELSE Fail(Quotable)
  /\ UNCHANGED <<inputVars, next, asked, selected, diagnostics, callVars, accepted>>

Joined ==
  /\ pc = "join" /\ reader = "ended"
  /\ IF child.state = "ok" /\ got <= MaxResponse /\ Parses
     THEN pc' = "validate" /\ UNCHANGED <<contributions, stray>>
     ELSE Fail(Quotable)
  /\ UNCHANGED <<inputVars, next, asked, selected, diagnostics, callVars, accepted>>

(* A refused answer is quoted in the diagnostic.                           *)
Validate ==
  /\ pc = "validate"
  /\ IF ResponseValid(package, Profile, Capability, answer)
     THEN /\ contributions' = Merge(contributions, answer.contributions)
          /\ accepted' = accepted \cup
               {[plugin |-> next, profile |-> asked + 1, answer |-> answer,
                 exit |-> child.state, got |-> got]}
          /\ asked' = asked + 1
          /\ pc' = "request"
          /\ UNCHANGED stray
     ELSE Fail(answer.quotable) /\ UNCHANGED <<asked, accepted>>
  /\ UNCHANGED <<inputVars, next, selected, diagnostics, callVars>>

Assemble ==
  /\ \/ pc = "assemble"
     \/ pc = "request" /\ asked = Len(profiles)
  /\ LET whole == Canonicalize(contributions)
         plugin == [wellFormed    |-> TRUE,
                    capabilities  |-> UsedCapabilities(whole) \cup {"Diagnostics"},
                    contributions |-> whole]
     IN IF PluginValid(plugin)
        THEN Keep(whole)
        ELSE pc' = "failed" /\ UNCHANGED <<next, selected>>
  /\ UNCHANGED <<inputVars, asked, contributions, diagnostics, callVars, historyVars>>

-----------------------------------------------------------------------------
(* The program, and a process it may leave behind.                         *)

hostVars == <<inputVars, pc, next, asked, contributions, selected, diagnostics, sent,
              answer, reader, got, late, historyVars>>

ProgramReads ==
  /\ InCall /\ Running /\ child.input = "open" /\ input > 0
  /\ input' = input - 1
  /\ UNCHANGED <<hostVars, output, child, heir>>

ProgramCloses ==
  /\ InCall /\ Running /\ child.input = "open"
  /\ child' = [child EXCEPT !.input = "closed"]
  /\ UNCHANGED <<hostVars, input, output, heir>>

ProgramWrites ==
  /\ InCall /\ Running /\ child.wrote < answer.size
  /\ output < Capacity /\ reader # "ended"
  /\ child' = [child EXCEPT !.wrote = @ + 1]
  /\ output' = output + 1
  /\ UNCHANGED <<hostVars, input, heir>>

ProgramForks ==
  /\ InCall /\ Running /\ ~heir
  /\ heir' = TRUE
  /\ UNCHANGED <<hostVars, input, output, child>>

ProgramExits ==
  /\ InCall /\ Running
  /\ \E state \in {"ok", "fail"} : child' = [child EXCEPT !.state = state]
  /\ UNCHANGED <<hostVars, input, output, heir>>

HeirExits ==
  /\ InCall /\ heir
  /\ heir' = FALSE
  /\ UNCHANGED <<hostVars, input, output, child>>

Host ==
  \/ DetectPlugins \/ Select \/ EndSelection \/ ReportPlugins
  \/ Spawn \/ NoSpawn \/ Write \/ WriteFails \/ StartReader
  \/ Exited \/ WaitFails \/ TimedOut \/ Kill \/ Drained \/ Joined \/ Validate \/ Assemble

Reader == Read \/ ReadEnds

Program == \/ ProgramReads \/ ProgramCloses \/ ProgramWrites \/ ProgramForks
           \/ ProgramExits \/ HeirExits

HostNext == Host \/ Reader \/ DeadlinePasses \/ Program

(* The host, its thread and the clock go on; the program owes nothing.     *)
Fairness == WF_allVars(Host) /\ WF_allVars(Reader) /\ WF_allVars(DeadlinePasses)

HostSpec == HostInit /\ [][HostNext]_allVars /\ Fairness
-----------------------------------------------------------------------------
(* Properties.                                                             *)

ProgramAt(i) == Plugin[plan[i]].kind = "program"

Vouched(f) ==
  \E call \in accepted :
     /\ f \in call.answer.contributions.facts
     /\ call.exit = "ok"
     /\ call.got = call.answer.size /\ call.answer.size <= MaxResponse
     /\ call.answer.status = "Complete"

(* A fact a program contributes comes from an answer that was read whole,  *)
(* from a run that succeeded within its limits and called its own answer   *)
(* complete: nothing of a run that crashed, was killed, wrote too much or  *)
(* gave up reaches the analysis.                                           *)
FactsAreVouchedFor ==
  /\ \A f \in contributions.facts : Vouched(f)
  /\ \A id \in DOMAIN selected :
        plan # Detect /\ Plugin[selected[id].name].kind = "program" =>
           \A f \in selected[id].facts : Vouched(f)

Answered(i, p) == \E call \in accepted : call.plugin = i /\ call.profile = p

(* The report of a package blocks findings, or every program kept for it   *)
(* has answered for every target profile: a failure at any step of any     *)
(* call is never silent.  A program whose id a later plugin takes over is  *)
(* left out here.                                                          *)
SilentMeansAnswered ==
  pc = "done" /\ plan # Detect /\ ~(\E d \in diagnostics : d.blocks) =>
    \A i \in DOMAIN plan :
       ProgramAt(i) /\ (\A j \in DOMAIN plan : j > i => Plugin[plan[j]].id # Plugin[plan[i]].id) =>
          \A p \in DOMAIN profiles : Answered(i, p)

(* The same of every configured program, also one that shares its id.      *)
EveryFailureIsReported ==
  pc = "done" /\ plan # Detect /\ ~(\E d \in diagnostics : d.blocks) =>
    \A i \in DOMAIN plan :
       ProgramAt(i) => \A p \in DOMAIN profiles : Answered(i, p)

(* A program that has not exited when its call returns has closed its      *)
(* input before the request was written: no other path leaves one running, *)
(* a timeout least of all.                                                 *)
NoProgramOutlivesItsCall == stray \subseteq {"closed"}

Unread == pc = "write" /\ input = Capacity /\ InputOpen

(* A call that never returns waits forever for the program to read its     *)
(* request, or for a process the program left behind: in every other case  *)
(* the deadline ends it.                                                   *)
CallsEnd == <>[]InCall => <>[]Unread \/ <>[]heir
=============================================================================
