---------------------------- MODULE MemberRules -----------------------------
(***************************************************************************)
(* The rules for one class member: the facts javascript/parse.rs collects  *)
(* of it, the candidate application/scan.rs makes of them, and the         *)
(* decision of analysis/members.rs.                                        *)
(*                                                                         *)
(* A fact about the file is a fact about its text: a name counts as        *)
(* referenced if it occurs twice in the file, whatever it is there.        *)
(***************************************************************************)
EXTENDS Naturals, FiniteSets

Modes == {"fast", "balanced", "deep"}
Visibilities == {"jsPrivate", "tsPrivate", "protected", "public"}

(* What a text may contain that makes members reachable without a name.    *)
Hazards == {"computed", "bracketed", "enumerated", "serialized", "spread", "proxied"}

Candidate ==
  [visibility: Visibilities, static: BOOLEAN, referenced: BOOLEAN, overrides: BOOLEAN,
   implements: BOOLEAN, decorated: BOOLEAN, exported: BOOLEAN, escaped: BOOLEAN,
   open: BOOLEAN, hazard: BOOLEAN, inherits: BOOLEAN]

(* What the deep evidence says of a candidate.                             *)
Resolution ==
  [state: {"none", "unavailable", "resolved"}, receiver: BOOLEAN, contract: BOOLEAN]

NotRequested == [state |-> "none", receiver |-> FALSE, contract |-> FALSE]
Unavailable == [NotRequested EXCEPT !.state = "unavailable"]

-----------------------------------------------------------------------------
(* A class expression without a name is out of sight: it counts as         *)
(* exported and escaped.  The runtime hazards are those of its own file.   *)
CandidateOf(member, class, hazards, occurrences, open) ==
  [visibility |-> member.visibility,
   static     |-> member.static,
   referenced |-> occurrences > 1,
   overrides  |-> member.overridden,
   implements |-> class.implements,
   decorated  |-> class.decorated \/ member.decorated,
   exported   |-> class.exported \/ ~class.named,
   escaped    |-> class.escaped \/ ~class.named,
   open       |-> open,
   hazard     |-> hazards \ (IF member.visibility = "jsPrivate" THEN {"bracketed"} ELSE {}) # {},
   inherits   |-> class.extends \/ class.implements]

(* The receivers of a call are known for #names and static members only,   *)
(* and what else a name means in a hierarchy is never known without help.  *)
ReceiverIncomplete(c) == ~c.static /\ c.visibility # "jsPrivate"
OverrideIncomplete(c) == c.inherits

Referenced(c) == c.referenced \/ c.implements \/ c.overrides \/ c.decorated

Surfaces(c) == c.escaped \/ (c.open /\ c.exported)

Deepened(c, deep) ==
  CASE deep.state # "resolved" -> "deferred"
    [] ReceiverIncomplete(c) /\ deep.receiver -> "retained"
    [] OverrideIncomplete(c) /\ deep.contract -> "retained"
    [] OTHER -> "finding"

(* Variant: in deep mode the evidence is asked for in any case.            *)
AnalyzeVisibleByEvidence(mode, c, deep) ==
  CASE mode = "fast" -> "deferred"
    [] mode # "fast" /\ (Surfaces(c) \/ c.hazard) -> "retained"
    [] mode # "fast" /\ ~Surfaces(c) /\ ~c.hazard ->
         IF mode = "deep" THEN Deepened(c, deep)
         ELSE IF ~ReceiverIncomplete(c) /\ ~OverrideIncomplete(c) THEN "finding" ELSE "deferred"

AnalyzeVisible(mode, c, deep) ==
  CASE mode = "fast" -> "deferred"
    [] mode # "fast" /\ (Surfaces(c) \/ c.hazard) -> "retained"
    [] mode # "fast" /\ ~Surfaces(c) /\ ~c.hazard ->
         IF ~ReceiverIncomplete(c) /\ ~OverrideIncomplete(c) THEN "finding"
         ELSE IF mode = "deep" THEN Deepened(c, deep) ELSE "deferred"

AnalyzeTypeScriptPrivate(mode, c) ==
  CASE mode = "fast" -> "deferred"
    [] mode # "fast" /\ (Surfaces(c) \/ c.hazard) -> "retained"
    [] mode # "fast" /\ ~Surfaces(c) /\ ~c.hazard -> "finding"

AnalyzeMember(mode, c, deep) ==
  CASE Referenced(c) -> "retained"
    [] ~Referenced(c) /\ c.visibility = "jsPrivate" -> "finding"
    [] ~Referenced(c) /\ c.visibility = "tsPrivate" -> AnalyzeTypeScriptPrivate(mode, c)
    [] ~Referenced(c) /\ c.visibility \in {"protected", "public"} ->
         AnalyzeVisible(mode, c, deep)

=============================================================================
