---------------------------- MODULE MCPluginHost ----------------------------
(* A built-in plugin, a declarative one and its broken twin, and programs:  *)
(* one whose request fits into a pipe, one whose request does not and that  *)
(* shares the id of the first, one with too long a request, one untrusted.  *)
EXTENDS PluginHost

MCCapability == {"Entries", "Exclusions", "References", "Diagnostics"}

Fact(capability, item) ==
  [capability |-> capability, item |-> item, normalized |-> TRUE, wellFormed |-> TRUE,
   outside |-> FALSE]

Says(facts, diags) == [facts |-> facts, diagnostics |-> diags, sorted |-> TRUE]

Warning == [error |-> FALSE, blocks |-> FALSE, printable |-> TRUE]
Gap == [error |-> FALSE, blocks |-> TRUE, printable |-> TRUE]
SoftError == [error |-> TRUE, blocks |-> FALSE, printable |-> TRUE]

Base ==
  [kind |-> "program", id |-> "gen", loads |-> TRUE, wellFormed |-> TRUE, trusted |-> TRUE,
   executable |-> TRUE, bounded |-> TRUE, request |-> 1, detects |-> {}, intrinsic |-> FALSE,
   capabilities |-> {}, contributions |-> NoContributions, unsupported |-> {}]

MCPlugin ==
  [p \in {"vite", "rules", "broken", "small", "large", "huge", "untrusted"} |->
     CASE p = "vite" -> [Base EXCEPT !.kind = "builtin", !.id = "vite",
                           !.detects = {"vite", "vite.config"}, !.intrinsic = TRUE,
                           !.capabilities = {"Entries", "Diagnostics"},
                           !.contributions = Says({Fact("Entries", "index")}, {}),
                           !.unsupported = {Warning}]
       [] p = "rules" -> [Base EXCEPT !.kind = "file", !.id = "gen",
                           !.capabilities = {"Exclusions", "Diagnostics"},
                           !.contributions = Says({Fact("Exclusions", "dist")}, {})]
       [] p = "broken" -> [Base EXCEPT !.kind = "file", !.id = "broken",
                           !.capabilities = {"Diagnostics"},
                           !.contributions = Says({Fact("Exclusions", "dist")}, {})]
       [] p = "small" -> Base
       [] p = "large" -> [Base EXCEPT !.request = 2, !.id = "large"]
       [] p = "huge" -> [Base EXCEPT !.request = 4]
       [] p = "untrusted" -> [Base EXCEPT !.trusted = FALSE]]

MCDetect == <<"*">>

MCPlans ==
  {MCDetect, <<"vite", "small">>, <<"large">>, <<"small", "rules">>, <<"rules", "broken">>,
   <<"huge">>, <<"untrusted">>}

MCReferable == {"vite", "eslint"}

Dependency(name) == [name |-> name, version |-> TRUE]

Plain(name) ==
  [name |-> name, config |-> TRUE, normalized |-> TRUE, glob |-> FALSE, format |-> "json",
   imports |-> {}, strings |-> {[name |-> "eslint", tool |-> TRUE]}]

MCPackages ==
  {[dependencies |-> {Dependency("vite")}, directory |-> {Plain("vite.config")}, files |-> {}],
   [dependencies |-> {}, directory |-> {},
    files |-> {[Plain("[slug]/config") EXCEPT !.glob = TRUE]}],
   [dependencies |-> {}, directory |-> {[Plain("a:config") EXCEPT !.normalized = FALSE]},
    files |-> {}]}

Target(name) == [name |-> name, identifier |-> name # "Server"]

MCProfileLists == {<<Target("node"), Target("browser")>>, <<Target("node"), Target("Server")>>}

Whole == [size |-> 1, json |-> TRUE, identity |-> TRUE, status |-> "Complete", quotable |-> TRUE,
          contributions |-> NoContributions]

MCAnswers ==
  { [Whole EXCEPT !.contributions = Says({Fact("Entries", "a")}, {})],
    [Whole EXCEPT !.size = 2, !.contributions = Says({Fact("Entries", "b")}, {Warning})],
    [Whole EXCEPT !.size = 3, !.contributions = Says({Fact("Entries", "c")}, {})],
    [Whole EXCEPT !.size = 4],
    [Whole EXCEPT !.contributions =
       Says({[Fact("Entries", "e") EXCEPT !.outside = TRUE]}, {})],
    [Whole EXCEPT !.json = FALSE, !.quotable = FALSE],
    [Whole EXCEPT !.identity = FALSE, !.quotable = FALSE],
    [Whole EXCEPT !.status = "Incomplete", !.contributions = Says({}, {Gap})],
    [Whole EXCEPT !.status = "Failed", !.contributions = Says({Fact("Entries", "d")}, {Gap})],
    [Whole EXCEPT !.contributions = Says({}, {SoftError})] }
=============================================================================
