------------------------------- MODULE Scripts ------------------------------
(* What the analysis takes from package scripts (discovery/scripts.rs).    *)
(* A script is a sequence of segments, what shell operators separate.  A   *)
(* segment carries the kinds of span the tokenizer could not model in it,  *)
(* and one command: the program its words name once wrappers, options and  *)
(* environment assignments are taken off.                                  *)
(*                                                                         *)
(*   wrapper  - "cross-env", a shell given its command ("sh", or           *)
(*              "cross-env-shell"), a shell whose command is not static or *)
(*              nests deeper than four ("opaque"), or "none"               *)
(*   options  - what NODE_OPTIONS tells node to load first                 *)
(*   form     - how the command is read, one of Forms                      *)
(*   word     - the script, binary or file it names                        *)
(*   preloads - what its arguments --require, --import and the like name   *)
(*   operands - the files its arguments name besides, node's under --test  *)
(*   packages - the packages that exec --package names                     *)
(*   starts   - the binaries its arguments name in turn, as in nyc mocha   *)
(*                                                                         *)
(* Arguments are words of their own: --config=x.js names nothing here.  Of *)
(* a binary's arguments the analysis reads those of 13 tools ("tool") and  *)
(* none of any other ("other").  A "system" command names nothing to it:   *)
(* one of the system, or node with a flag whose value it takes for the     *)
(* file.                                                                   *)
(* The analysis is only ever asked about every script of a manifest, so    *)
(* that all of them are reachable and its calls decide nothing.            *)
EXTENDS FiniteSets, Sequences, SequencesExt

CONSTANT LooksLikeFile   \* the words written like a path of a source file

UnmodeledKinds ==
  {"DanglingEscape", "GlobExpansion", "InlineCode", "Redirection", "ShellExpansion",
   "UnsupportedShellSyntax", "UnsupportedShellWrapper", "UnterminatedQuote"}

Wrappers == {"none", "cross-env", "cross-env-shell", "sh", "opaque"}

Forms == {"node", "inline", "run", "implicit", "list", "exec", "file", "tool", "other",
          "concurrently", "system"}

Reference(kind, value) == [kind |-> kind, value |-> value]

(* A loader: a file, or else a package.                                    *)
LoaderReference(value) ==
  Reference(IF value \in LooksLikeFile THEN "File" ELSE "Package", value)

Files(words) == {Reference("File", w) : w \in words \cap LooksLikeFile}

CommandReferences(c) ==
  CASE c.form = "node"  -> Files({c.word} \cup c.operands)
    [] c.form = "file"  -> Files({c.word})
    [] c.form = "tool"  -> {Reference("Binary", c.word)} \cup Files(c.operands \cup c.preloads)
    [] c.form = "exec"  -> {Reference("Binary", c.word)} \cup
                           {Reference("Package", p) : p \in c.packages}
    [] c.form \in {"other", "concurrently"} -> {Reference("Binary", c.word)}
    [] OTHER            -> {}

(* Of the arguments, only node's own are read as loaders.                  *)
Loaders(c) ==
  c.options \cup
  (IF c.wrapper # "opaque" /\ c.form \in {"node", "inline"} THEN c.preloads ELSE {})

References(c) ==
  {LoaderReference(l) : l \in Loaders(c)} \cup
  (IF c.wrapper = "opaque" THEN {} ELSE CommandReferences(c))

(* `yarn x`, `pnpm x` and `bun x` are taken for `run x` unless x is one of *)
(* the manager's own commands.                                             *)
NestedScripts(c) ==
  IF c.wrapper # "opaque" /\ c.form \in {"run", "implicit", "list"} THEN {c.word} ELSE {}

Unmodeled(c) ==
  CASE c.wrapper = "opaque" \/ c.form = "concurrently" -> {"UnsupportedShellWrapper"}
    [] c.form = "inline"                               -> {"InlineCode"}
    [] OTHER                                           -> {}

(* A segment that overlaps a span the tokenizer could not model is left    *)
(* out whole.                                                              *)
Segments(scripts) == UNION {ToSet(scripts[s]) : s \in DOMAIN scripts}

Modeled(scripts) == {segment.command : segment \in {g \in Segments(scripts) : g.spans = {}}}

AnalyzeScripts(scripts) ==
  [references |-> UNION {References(c) : c \in Modeled(scripts)},
   unmodeled  |-> (UNION {g.spans : g \in Segments(scripts)})
                    \cup UNION {Unmodeled(c) : c \in Modeled(scripts)},
   missing    |-> (UNION {NestedScripts(c) : c \in Modeled(scripts)}) \ DOMAIN scripts]

(* The diagnostics of an analysis: only these four kinds say that a file   *)
(* may be reached in a way the scan does not see.  A missing script never  *)
(* does.                                                                   *)
BlocksReachability(analysis) ==
  analysis.unmodeled \cap
    {"ShellExpansion", "GlobExpansion", "UnsupportedShellSyntax", "UnsupportedShellWrapper"} # {}

-----------------------------------------------------------------------------
(* What a shell and the package manager do with a command.                 *)

(* The binaries it runs: its wrapper, the program it names and what that   *)
(* starts, and, under a package manager, a binary where no script has the  *)
(* name.                                                                   *)
Runs(scripts, c, runner) ==
  (IF c.wrapper \in {"cross-env", "cross-env-shell"} THEN {"cross-env"} ELSE {})
    \cup (IF c.form \in {"tool", "other", "exec", "concurrently"}
          THEN {c.word} \cup c.starts ELSE {})
    \cup (IF c.form = "implicit" THEN {c.word} \ DOMAIN scripts ELSE {})
    \cup (IF c.form = "list" THEN {runner} ELSE {})

(* The files it loads, as they are written; bun runs a file like a script. *)
RunsFiles(c) ==
  (IF c.form \in {"node", "file", "implicit"} THEN {c.word} ELSE {})
    \cup c.operands \cup c.options \cup c.preloads

(* Those of them that it names where the analysis looks.                   *)
NamesFiles(c) ==
  LooksLikeFile \cap
    (Loaders(c) \cup
       IF c.wrapper = "opaque" THEN {}
       ELSE (IF c.form \in {"node", "file"} THEN {c.word} ELSE {})
              \cup (IF c.form \in {"node", "tool"} THEN c.operands ELSE {})
              \cup (IF c.form = "tool" THEN c.preloads ELSE {}))
=============================================================================
