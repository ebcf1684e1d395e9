-------------------------- MODULE MCProjectPolicy --------------------------
(* Three workspaces with a file each: the root (file 1) and the packages   *)
(* "a" (file 2) and "b" (file 3, a test file); two targets, one of them    *)
(* named "default".  Files 2 and 3 may import each other.                  *)
EXTENDS ProjectPolicy

MCWorkspace == {".", "a", "b"}
MCFile == 1..3
MCManifest == [w \in MCWorkspace |-> CASE w = "." -> 4 [] w = "a" -> 5 [] w = "b" -> 6]
MCWorkspaceOf ==
  [p \in 1..6 |-> CASE p \in {1, 4} -> "." [] p \in {2, 5} -> "a" [] p \in {3, 6} -> "b"]
MCProfileList == <<"browser", "default">>

Singles(S) == {{f} : f \in S}

MCAnalyses ==
  {[live |-> live, blocked |-> blocked, broken |-> broken,
    groups |-> IF cycle THEN {{2, 3}} \cup Singles((MCFile \ {2, 3}) \ (live \cup broken))
               ELSE Singles(MCFile \ (live \cup broken))] :
     <<live, blocked, broken, cycle>> \in
       {<<live, blocked, broken, cycle>> \in
          (SUBSET MCFile \ {{}}) \X ({{}, {2, 3}} \cup Singles(MCFile))
             \X ({{}} \cup Singles(MCFile)) \X BOOLEAN :
          /\ broken \subseteq blocked
          /\ cycle => {2, 3} \cap (live \cup broken) = {}}}

Plain ==
  [world     |-> [w \in MCWorkspace |-> "closed"],
   retain    |-> {},
   generated |-> [p \in Profile |-> {}],
   private   |-> MCWorkspace,
   imports   |-> {},
   scripts   |-> {},
   pending   |-> {},
   issues    |-> {"files", "workspaces"},
   tests     |-> TRUE]

MCSettings ==
  { Plain,
    [Plain EXCEPT !.tests = FALSE, !.scripts = {"b"}],
    [Plain EXCEPT !.world = [@ EXCEPT !["a"] = "open"], !.private = {".", "b"}],
    [Plain EXCEPT !.generated = [p \in Profile |-> IF p = "browser" THEN {2} ELSE {}]],
    [Plain EXCEPT !.generated = [p \in Profile |-> {2, 3}], !.issues = {"files"}],
    [Plain EXCEPT !.retain = {{2}}, !.imports = {<<2, "b">>}],
    [Plain EXCEPT !.pending = {[path |-> 5, blocks |-> TRUE]}],
    [Plain EXCEPT !.pending = {[path |-> 5, blocks |-> FALSE], [path |-> 6, blocks |-> FALSE]}],
    [Plain EXCEPT !.pending = {[path |-> 4, blocks |-> FALSE], [path |-> 5, blocks |-> FALSE],
                               [path |-> 6, blocks |-> FALSE]}],
    [Plain EXCEPT !.issues = {"workspaces"}, !.retain = {{1, 2}}] }

MCTestFiles == {3}
=============================================================================
