----------------------------- MODULE MCEntries -----------------------------
(* A root and one package, "app", or two.  Slices of what decides the      *)
(* entries: the layers of configuration, what a manifest offers, scripts   *)
(* and plugins and conventions, and the errors that end the scan early;    *)
(* and of what decides the links: exports, plugins, configured profiles.   *)
EXTENDS Links

App == <<"app">>
Lib == <<"app", "lib">>

(* Values of exports: a target, and what an array or an object makes of    *)
(* the values in it.                                                       *)
Target(path) == {[steps |-> <<>>, to |-> path]}
Under(step, value) == {[t EXCEPT !.steps = <<step>> \o @] : t \in value}
Array(values) == UNION {Under([position |-> i], values[i]) : i \in DOMAIN values}
Written(order, of) == UNION {Under([condition |-> c, among |-> order], of[c]) : c \in DOMAIN of}
Conditions(of) == Written(SetToSeq(DOMAIN of), of)

Whole(value) == [value |-> value]
Subpaths(of) == [subpaths |-> of]

Silent == [entries |-> {}, exclusions |-> {}, conditions |-> {}, edges |-> {}, transforms |-> {}]

NoPlugins == [p \in {Root, App, Lib} |-> [q \in {"node", "browser", "cli", "types", "test", "edge"} |-> {}]]

Sources ==
  {<<"index.ts">>, <<"cli.ts">>, <<"setup.js">>, <<"app", "src", "index.ts">>, <<"app", "index.js">>,
   <<"app", "old.ts">>, <<"app", "tests", "a.ts">>}

Plain ==
  [order      |-> <<Root, App>>,
   manifests  |-> (Root :> [name |-> "root"]) @@ (App :> [name |-> "app"]),
   members    |-> {App},
   boundaries |-> {},
   sources    |-> Sources,
   package    |-> Nothing,
   jsonc      |-> Nothing,
   plugins    |-> NoPlugins,
   outputs    |-> <<[out |-> <<"app", "out">>, root |-> <<"app", "src">>]>>,
   workspace  |-> <<>>,
   requested  |-> {},
   cli        |-> NoOverride,
   profiles   |-> <<"node">>,
   limit      |-> 7,
   expansions |-> 2,
   others     |-> {}]

(* The layers of configuration: what each may state of one field.          *)
Stated(field, values) == {NoOverride} \cup {(field :> v) @@ NoOverride : v \in values}

Static(atRoot, atApp) ==
  {[root |-> r, workspaces |-> w] : r \in atRoot, w \in {<<>>} \cup {App :> o : o \in atApp}}

Everywhere == {Sources}
Old == {{<<"old.ts">>}}
OldBelowApp == {{<<"app", "old.ts">>}}

Layered ==
  {[Plain EXCEPT !.package = package, !.jsonc = jsonc] :
     package \in Static(Stated("ignore", {OldBelowApp, Old}), Stated("ignore", {Old, {}})),
     jsonc \in Static(Stated("ignore", {OldBelowApp, {}}), Stated("ignore", {Old, OldBelowApp}))}
  \cup
  {[Plain EXCEPT !.package = package, !.jsonc = jsonc] :
     package \in Static(Stated("entry", {{<<"cli.ts">>}}), Stated("entry", {{<<"old.ts">>}})),
     jsonc \in Static(Stated("entry", {{<<"app", "old.ts">>}, {}}), Stated("entry", {{<<"index.js">>}}))}
  \cup
  {[Plain EXCEPT !.package = package, !.jsonc = jsonc, !.cli = cli,
                 !.manifests[App] = [name |-> "app", private |-> private, main |-> <<"old.ts">>]] :
     package \in Static(Stated("world", {"Open", "Closed"}), Stated("world", {"Open"})),
     jsonc \in Static(Stated("world", {"Closed"}), Stated("world", {"Open", "Closed"})),
     cli \in Stated("world", {"Closed"}), private \in BOOLEAN}
  \cup
  {[Plain EXCEPT !.jsonc.root = (("entry" :> {<<"app", "old.ts">>}) @@ ("ignore" :> Old)) @@ NoOverride,
                 !.package.workspaces = App :> (("ignore" :> rules) @@ NoOverride),
                 !.manifests[App] = [name |-> "app", main |-> <<"old.js">>]] :
     rules \in {Old, OldBelowApp, {}}}

(* What a manifest offers.                                                 *)
ExportValues ==
  {Whole(Target(<<"old.ts">>)), Whole(Target(<<"out", "index.js">>)),
   Whole(Conditions([require |-> Target(<<"old.ts">>), import |-> Target(<<"out", "index.js">>)])),
   Whole(Conditions([types |-> Target(<<"old.ts">>), default |-> Target(<<"index.js">>)])),
   Whole(Conditions([browser |-> Conditions([import |-> Target(<<"old.ts">>)]),
                     node |-> Target(<<"index.js">>)])),
   Subpaths((<<>> :> Target(<<"index.js">>)) @@ (<<"old">> :> Target(<<"old.ts">>))),
   Subpaths(<<"old">> :> Target(<<"old.ts">>)),
   Whole(Array(<<Target(<<"old.ts">>), Target(<<"index.js">>)>>)),
   Whole({})}

Offering ==
  {[Plain EXCEPT !.manifests[App] = (fields @@ [name |-> "app", private |-> private]),
                 !.manifests[Root] = [name |-> "root", bin |-> {<<"cli.ts">>}, main |-> <<"index.js">>,
                                      types |-> <<"index.ts">>],
                 !.profiles = profiles, !.workspace = workspace] :
     fields \in {[exports |-> e] : e \in ExportValues}
                  \cup {[exports |-> Subpaths(<<"old">> :> Target(<<"index.js">>)), main |-> <<"old.ts">>],
                        [main |-> <<"out", "index.js">>, module |-> <<"old.ts">>],
                        [types |-> <<"old.ts">>, bin |-> {<<"old.ts">>, <<"none.js">>}],
                        [browser |-> <<"old.ts">>, typings |-> <<"index.js">>]},
     private \in BOOLEAN,
     profiles \in {<<"node">>, <<"cli", "types">>, <<"browser", "test">>, <<"node", "cli">>},
     workspace \in {<<>>, <<App>>}}

(* Scripts, plugins, conventions.                                          *)
Command(form, word) ==
  [wrapper |-> "none", options |-> {}, form |-> form, word |-> word, preloads |-> {},
   operands |-> {}, packages |-> {}, starts |-> {}]

Script(command, spans) == [start |-> <<[command |-> command, spans |-> spans]>>]

Working ==
  {[Plain EXCEPT
      !.manifests[p] = [name |-> "p", scripts |-> Script(command, spans)],
      !.plugins[App] = [q \in DOMAIN NoPlugins[App] |-> IF q \in says THEN {contribution} ELSE {}],
      !.profiles = profiles] :
     p \in {Root, App},
     command \in {Command("node", "setup.js"), Command("run", "build"),
                  [Command("node", "x") EXCEPT !.preloads = {"setup.js"}],
                  [Command("tool", "jest") EXCEPT !.operands = {"setup.js"}],
                  [Command("other", "nodemon") EXCEPT !.operands = {"setup.js"}]},
     spans \in {{}, {"Redirection"}},
     contribution \in {Silent, [Silent EXCEPT !.entries = {<<"old.ts">>}, !.conditions = {"worker"}],
                       [Silent EXCEPT !.exclusions = {<<"old.ts">>}]},
     says \in {{"node"}, {"node", "test"}},
     profiles \in {<<"node">>, <<"node", "test">>, <<"test">>}}

(* What ends a scan early, or starts it elsewhere.                         *)
Extending(parent) == [extends |-> parent, conditions |-> {"worker"}]

Bounded ==
  {[Plain EXCEPT
      !.order = <<Root, App, Lib>>,
      !.manifests = (Lib :> [name |-> name]) @@ Plain.manifests,
      !.sources = {<<"app", "lib", "index.js">>} \cup below,
      !.members = members, !.boundaries = boundaries, !.workspace = workspace, !.limit = limit] :
     name \in {"lib", "app"}, members \in {{}, {App}, {App, Lib}}, boundaries \in {{}, {App}, {Lib}},
     below \in {{}, {<<"index.ts">>}, {<<"app", "node_modules", "x.js">>, <<"app", "examples", "a.ts">>}},
     workspace \in {<<>>, <<App>>, <<Lib>>}, limit \in {1, 2}}
  \cup
  {[Plain EXCEPT !.profiles = <<"edge", "node">>,
                 !.package.root.targets = package, !.jsonc.root.targets = jsonc,
                 !.requested = requested] :
     package \in {<<>>, "edge" :> Extending(<<"node">>), "edge" :> Extending(<<"edge">>),
                  "node" :> Extending(<<"browser">>)},
     jsonc \in {<<>>, "node" :> Extending(<<"edge">>), "browser" :> Extending(<<"node">>),
                ("node" :> Extending(<<"types">>)) @@ ("edge" :> Extending(<<"node">>))},
     requested \in {{}, {<<"index.ts">>}, {<<"none.ts">>}}}
  \cup
  {[Plain EXCEPT !.manifests[App] = [name |-> "app", main |-> <<"..", "index.ts">>]],
   [Plain EXCEPT !.jsonc.root = ("entry" :> {<<"..", "x.ts">>}) @@ NoOverride],
   [Plain EXCEPT !.jsonc.root = ("ignore" :> Everywhere) @@ NoOverride],
   [Plain EXCEPT !.sources = {<<"x.ts">>}]}

(* What packages offer each other, under other subpaths than their own.    *)
SubpathValues ==
  {Target(<<"old.ts">>), Target(<<"out", "index.js">>),
   Written(<<"import", "default">>, [import |-> Target(<<"old.ts">>), default |-> Target(<<"index.js">>)]),
   Written(<<"default", "require">>, [require |-> Target(<<"old.ts">>), default |-> Target(<<"index.js">>)]),
   Written(<<"browser", "types", "node">>,
     [browser |-> Target(<<"old.ts">>), types |-> Target(<<"index.js">>),
      node |-> Conditions([require |-> Target(<<"old.js">>), import |-> Target(<<"out", "index.js">>)])]),
   Array(<<Target(<<"old.ts">>), Target(<<"index.js">>)>>)}

PatternTargets == {Target(<<"out", "*.js">>), Target(<<"*.js">>), Target(<<"src", "*">>)}

Importing ==
  {[Plain EXCEPT !.manifests[App] = [name |-> "app", private |-> TRUE, exports |-> Subpaths(of)],
                 !.profiles = profiles, !.workspace = workspace] :
     of \in {<<"feature">> :> v : v \in SubpathValues}
              \cup {<<"*">> :> v : v \in PatternTargets}
              \cup {(<<>> :> Target(<<"old.js">>)) @@ (<<"lib", "*">> :> v) @@ (<<"lib", "x">> :> w) :
                      v \in PatternTargets, w \in {Target(<<"old.ts">>), Target(<<"out", "*.js">>)}},
     profiles \in {<<"node">>, <<"browser", "types">>}, workspace \in {<<>>, <<App>>, <<Root>>}}

(* What plugins know about files.                                          *)
Plugin(es, ts) == {[Silent EXCEPT !.edges = es, !.transforms = ts]}

Between(from, to) == [from |-> from, to |-> to, reason |-> "loads"]
Generated(outputs) == [outputs |-> outputs, reason |-> "generates"]

Knowing ==
  {[Plain EXCEPT
      !.plugins[App] = [q \in DOMAIN NoPlugins[App] |-> IF q \in says THEN Plugin(es, ts) ELSE {}],
      !.profiles = <<"node", "test">>,
      !.others = {<<"app", "page.vue">>},
      !.jsonc.root = IF ignored = {} THEN NoOverride ELSE ("ignore" :> ignored) @@ NoOverride,
      !.limit = limit] :
     says \in {{"node"}, {"node", "test"}},
     es \in {{}, {Between({<<"index.js">>}, {<<"old.ts">>, <<"none.ts">>})},
             {Between({<<"index.js">>, <<"src", "index.ts">>}, {<<"old.ts">>, <<"index.js">>})}},
     ts \in {{}, {Generated(<<"page.vue">> :> {<<"page.js">>})},
             {Generated(<<"old.ts">> :> {<<"index.js">>, <<"old.ts">>})},
             {Generated((<<"old.ts">> :> {<<"old.js">>}) @@ (<<"page.vue">> :> {<<"index.js">>}))}},
     ignored \in {{}, OldBelowApp}, limit \in {7, 8}}

(* A profile that is configured, for one package or all.                   *)
Targeted ==
  {[Plain EXCEPT !.profiles = <<profile>>, !.workspace = workspace,
                 !.jsonc.root.targets = IF atRoot THEN "edge" :> Extending(<<"node">>) ELSE <<>>,
                 !.package.workspaces = App :> [targets |-> "edge" :> Extending(<<"browser">>)],
                 !.manifests = (Lib :> [name |-> "lib", main |-> main]) @@ Plain.manifests,
                 !.order = <<Root, App, Lib>>, !.members = {App, Lib}] :
     profile \in {"edge", "node"}, workspace \in {<<>>, <<App>>, <<Lib>>}, atRoot \in BOOLEAN,
     main \in {<<"index.js">>, <<"..", "x.js">>}}

MCProjects ==
  Layered \cup Offering \cup Working \cup Bounded \cup Importing \cup Knowing \cup Targeted

MCPathOf == "setup.js" :> <<"setup.js">>

MCVariantsOf ==
  ("index.js" :> <<"index.js", "index.jsx", "index.ts", "index.tsx">>)
    @@ ("old.js" :> <<"old.js", "old.jsx", "old.ts", "old.tsx">>)

MCNameRoles == "a.bench.ts" :> {"benchmark"}

MCOutputName == ("index.ts" :> "index.js") @@ ("old.ts" :> "old.js")

MCCaptures ==
  ("*.js" :> (("index.js" :> "index") @@ ("old.js" :> "old")))
    @@ ("*" :> [name \in {"index.js", "index.ts", "old.ts"} |-> name])
=============================================================================
