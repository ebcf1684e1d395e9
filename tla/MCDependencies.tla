--------------------------- MODULE MCDependencies ---------------------------
(* A root and one workspace, a file in each.  Four slices of what a        *)
(* dependency's fate can rest on: imports, the commands of a script,       *)
(* aliases and owners in two workspaces, configurations and plugins.       *)
EXTENDS Dependencies

MCProfiles == <<"node", "browser">>

Workspaces == {"root", "app"}

Both(value) == [w \in Workspaces |-> value]

At(w, there, elsewhere) == [v \in Workspaces |-> IF v = w THEN there ELSE elsewhere]

File(w, imports) == [workspace |-> w, imports |-> imports]

Import(package, resolution, target) ==
  [package |-> package, status |-> resolution, target |-> target]

Empty == <<>>

Plain ==
  [workspaces |-> <<"root", "app">>,
   declared   |-> Both(Empty),
   target     |-> Both(Empty),
   bundled    |-> Both({}),
   installed  |-> Both(Empty),
   scripts    |-> Both(Empty),
   plugins    |-> Both({}),
   configs    |-> Empty,
   files      |-> [f \in {"index", "main"} |-> File(IF f = "main" THEN "app" ELSE "root", {})],
   reach      |-> [q \in {"node", "browser"} |-> {"index", "main"}],
   gaps       |-> {},
   manager    |-> TRUE]

Lib(categories) == [p \in {"lib"} |-> categories]

Reaches == {[q \in {"node", "browser"} |-> IF q = "node" THEN first ELSE second] :
              first \in {{"index"}, {"index", "main"}}, second \in {{}, {"index", "main"}}}

Imported ==
  {[Plain EXCEPT
      !.declared = [w \in Workspaces |-> IF w = "root" THEN above ELSE below],
      !.bundled = Both(bundled),
      !.reach = reach, !.gaps = gaps,
      !.files = [f \in {"index", "main"} |->
                   IF f = "main" THEN File("app", {import})
                   ELSE File("root", {Import("fs", "external", FALSE)})]] :
     above \in {Empty, Lib({"runtime"}), Lib({"development", "peer"})},
     below \in {Empty, Lib({"runtime"}), Lib({"optional"}), [p \in {"lib", "fs"} |-> {"runtime"}]},
     bundled \in {{}, {"lib"}},
     reach \in Reaches, gaps \in {{}, {"app"}, {"root"}},
     import \in {Import("lib", "external", FALSE), Import("lib", "external", TRUE),
                 Import("lib", "resolved", TRUE), Import("lib", "unresolved", FALSE)}}

Command(form, word) ==
  [wrapper |-> "none", options |-> {}, form |-> form, word |-> word, preloads |-> {},
   operands |-> {}, packages |-> {}, starts |-> {}]

Segment(command, spans) == [command |-> command, spans |-> spans]

Commands1 ==
  {[Command(form, word) EXCEPT !.wrapper = wrapper, !.preloads = named,
                           !.packages = IF form = "exec" THEN named ELSE {}] :
     form \in Forms, word \in {"lint", "build"}, wrapper \in Wrappers, named \in {{}, {"linter"}}}

Scripts1(segments) == [s \in {"build"} |-> segments]

Installed == [p \in {"linter"} |-> {"lint"}]

Scripted ==
  {[Plain EXCEPT
      !.declared = Both([p \in {"linter"} |-> categories]),
      !.installed["app"] = installed,
      !.manager = manager,
      !.scripts["app"] = Scripts1(<<Segment(command, spans)>>)] :
     categories \in {{"development"}, {"peer"}}, installed \in {Empty, Installed},
     manager \in BOOLEAN,
     command \in {c \in Commands1 : c.wrapper = "none" \/ c.preloads = {}},
     spans \in {{}, {"Redirection"}, {"ShellExpansion"}}}
  \cup
  {[Plain EXCEPT
      !.declared = Both([p \in {"linter", "cross-env"} |-> {"development"}]),
      !.installed = Both([p \in {"linter", "cross-env"} |->
                            IF p = "linter" THEN {"lint"} ELSE {"cross-env"}]),
      !.scripts["app"] = Scripts1(<<Segment(first, {}), Segment(second, spans)>>)] :
     first \in {[Command("tool", "lint") EXCEPT !.wrapper = wrapper, !.options = options] :
                  wrapper \in Wrappers, options \in {{}, {"linter"}, {"setup.js"}}},
     second \in {Command("run", "build"), Command("run", "test"), Command("exec", "fix"),
                 [Command("other", "cross-env") EXCEPT !.starts = {"lint"}]},
     spans \in {{}, {"Redirection"}}}

(* Who installs the binary under which name.                               *)
Owned ==
  {[Plain EXCEPT
      !.declared = [w \in Workspaces |-> [p \in (IF w = "root" THEN above ELSE below) |-> {"development"}]],
      !.target = [w \in Workspaces |->
                    [p \in {"pretty", "prettier4"} \cap (IF w = "root" THEN above ELSE below) |-> "prettier"]],
      !.installed = [w \in Workspaces |->
                       [p \in (IF w = "root" THEN above ELSE below) |-> {"prettier"}]],
      !.scripts[w1] = Scripts1(<<Segment(Command("tool", "prettier"), {})>>)] :
     above \in SUBSET {"prettier", "pretty", "prettier4"},
     below \in SUBSET {"prettier", "pretty", "prettier4"},
     w1 \in Workspaces}

Config(w, parent, packages, types) ==
  [workspace |-> w, parent |-> parent, packages |-> packages, types |-> types]

Configured ==
  {[Plain EXCEPT
      !.declared = [w \in Workspaces |-> [p \in (IF w = "root" THEN above ELSE below) |-> {"development"}]],
      !.installed["app"] = [p \in {"base"} |-> {"base"}],
      !.plugins["app"] = plugins,
      !.gaps = gaps,
      !.configs = [c \in {"base.json", "app.json"} |->
                     IF c = "base.json" THEN Config("root", "", packages, types)
                     ELSE Config("app", parent, {}, types)]] :
     above \in {{}, {"base"}}, below \in {{}, {"base"}, {"base", "@types/node"}},
     plugins \in {{}, {Reference("Binary", "base")}, {Reference("Package", "base")},
                  {Reference("Binary", "other")}},
     gaps \in {{}, {"root"}}, packages \in {{}, {"base"}}, types \in {{}, {"node"}},
     parent \in {"", "base.json"}}

MCProjects == Imported \cup Scripted \cup Owned \cup Configured

MCTypesOf == [t \in {"node"} |-> "@types/node"]
=============================================================================
