--------------------------- MODULE PluginContract ---------------------------
(***************************************************************************)
(* What a plugin may say: plugins/contract.rs, and the checks of requests  *)
(* and responses in plugins/executable.rs.                                 *)
(*                                                                         *)
(* A contributed fact is a capability, an item to tell it from the others, *)
(* and the outcome of the checks on its text: its patterns are normalized  *)
(* relative paths, its names and its reason are well formed, and a path in *)
(* it that is not a pattern leads out of the workspace or to nothing.      *)
(***************************************************************************)
EXTENDS Integers, Sequences, FiniteSets

CONSTANTS Capability,     \* PluginCapability
          Referable,      \* what validate_reference_name accepts
          Located,        \* those whose literal paths must be inside the workspace
          MaxItems,       \* MAX_ITEMS_PER_FIELD
          MaxPluginDiags, \* MAX_DIAGNOSTICS
          MaxHostFacts    \* MAX_HOST_FACTS

ASSUME ContractAssumption ==
  /\ "Diagnostics" \in Capability /\ Located \subseteq Capability \ {"Diagnostics"}
  /\ MaxItems \in Nat \ {0} /\ MaxPluginDiags \in Nat \ {0} /\ MaxHostFacts \in Nat \ {0}

IsFact(f) ==
  /\ DOMAIN f = {"capability", "item", "normalized", "wellFormed", "outside"}
  /\ f.capability \in Capability \ {"Diagnostics"}
  /\ f.normalized \in BOOLEAN /\ f.wellFormed \in BOOLEAN /\ f.outside \in BOOLEAN

PluginDiagnostic == [error : BOOLEAN, blocks : BOOLEAN, printable : BOOLEAN]

NoContributions == [facts |-> {}, diagnostics |-> {}, sorted |-> TRUE]

Canonicalize(c) == [c EXCEPT !.sorted = TRUE]

EmptyExceptDiagnostics(c) == c.facts = {}

UsedCapabilities(c) ==
  {f.capability : f \in c.facts}
     \cup (IF c.diagnostics = {} THEN {} ELSE {"Diagnostics"})

FactValid(f) == f.normalized /\ f.wellFormed

Bounded(c) ==
  /\ \A k \in Capability : Cardinality({f \in c.facts : f.capability = k}) <= MaxItems
  /\ Cardinality(c.diagnostics) <= MaxPluginDiags

(* An error that does not block would let a finding through.               *)
DiagnosticValid(d) == d.printable /\ (d.error => d.blocks)

ContributionsValid(c) ==
  /\ c.sorted
  /\ Bounded(c)
  /\ \A f \in c.facts : FactValid(f)
  /\ \A d \in c.diagnostics : DiagnosticValid(d)

(* The facts of several answers, sorted and without duplicates.            *)
Merge(c, more) ==
  Canonicalize([c EXCEPT !.facts = @ \cup more.facts,
                         !.diagnostics = @ \cup more.diagnostics])

PluginValid(plugin) ==
  /\ plugin.wellFormed
  /\ ContributionsValid(plugin.contributions)
  /\ UsedCapabilities(plugin.contributions) \cup {"Diagnostics"} \subseteq plugin.capabilities

(* The description of a program: it is trusted, it names a regular file of *)
(* the workspace, and its arguments, timeout and response limit are within *)
(* their bounds.                                                           *)
ConfigValid(plugin) ==
  plugin.wellFormed /\ plugin.trusted /\ plugin.executable /\ plugin.bounded

-----------------------------------------------------------------------------
(* What the host tells a program about a package: the declared packages,   *)
(* the files in its directory, those of its source files whose name looks  *)
(* like a configuration, and the packages these mention.  A file mentions  *)
(* what it imports, or, in JSON, the strings under the keys that name      *)
(* tools.                                                                  *)

Configs(package) ==
  package.directory \cup {f \in package.files : f.config}

Mentions(f) ==
  CASE f.format = "script" -> f.imports
    [] f.format = "json"   -> {e.name : e \in {s \in f.strings : s.tool}}
    [] OTHER               -> {}

ManifestValid(package) ==
  /\ \A d \in package.dependencies : d.name \in Referable /\ d.version
  /\ Cardinality(package.dependencies) <= MaxHostFacts

(* A path of a source file may look like a pattern: app/[slug]/config.ts   *)
(* does.                                                                   *)
ConfigFactValid(f) ==
  /\ f.normalized /\ ~f.glob
  /\ Mentions(f) \subseteq Referable
  /\ Cardinality(Mentions(f)) <= MaxHostFacts

RequestValid(package, profile) ==
  /\ profile.identifier
  /\ ManifestValid(package)
  /\ Cardinality(Configs(package)) <= MaxHostFacts
  /\ \A f \in Configs(package) : ConfigFactValid(f)

StatusValid(answer) ==
  \/ answer.status = "Complete"
  \/ /\ EmptyExceptDiagnostics(answer.contributions)
     /\ \E d \in answer.contributions.diagnostics : d.blocks

(* A path that is no pattern exists, and leads to a place in the workspace.*)
Inside(f) == ~f.outside

PathsValid(contributions) ==
  \A f \in contributions.facts : f.capability \in Located => Inside(f)

ResponseValid(package, profile, negotiated, answer) ==
  /\ RequestValid(package, profile)
  /\ answer.identity
  /\ ContributionsValid(answer.contributions)
  /\ UsedCapabilities(answer.contributions) \subseteq negotiated
  /\ StatusValid(answer)
  /\ PathsValid(answer.contributions)
=============================================================================
