--------------------------- MODULE MCFixWorkflow ---------------------------
(* FixWorkflow with four files, the first the entry and the third a test   *)
(* file, and two manifests.  A rule retains the file 4, which is not enough*)
(* for a cycle of 2 and 4.                                                 *)
EXTENDS FixWorkflow

Holds(imports, uses) == [imports |-> imports, uses |-> uses]

MCFile == 1..4
MCManifest == {5, 6}

MCFileContents ==
  {Holds({}, {}), Holds({2}, {}), Holds({4}, {}), Holds({}, {5})}

MCRetainRules == {{4}}
MCIgnoreRules == {{2, 3}}

MCManifestContents == [declares : BOOLEAN, edition : {0, 1}]

MCInitialFiles ==
  {[f \in MCFile |-> contents[f]] : contents \in
     {<<{Holds({}, {})}, {Holds({}, {})}, {Holds({}, {})}, {}>>,
      <<{Holds({}, {5})}, {Holds({4}, {})}, {}, {Holds({}, {})}>>,
      <<{Holds({2}, {})}, {Holds({}, {})}, {Holds({}, {})}, {}>>,
      <<{Holds({}, {})}, {Holds({}, {})}, {Holds({}, {5})}, {}>>,
      <<{Holds({}, {})}, {Holds({4}, {})}, {}, {Holds({2}, {})}>>}}

MCInitialManifests == {[m \in MCManifest |-> [declares |-> TRUE, edition |-> 0]]}

MCRequests ==
  {[files |-> files, deps |-> deps, apply |-> apply, tests |-> tests] :
     <<files, deps, apply, tests>> \in
       {<<{2}, {}, TRUE, FALSE>>, <<{2}, {}, TRUE, TRUE>>,
        <<{2}, {5}, TRUE, FALSE>>, <<{2, 4}, {}, TRUE, FALSE>>,
        <<{}, {5, 6}, TRUE, FALSE>>, <<{2}, {6}, FALSE, FALSE>>}}

MCTestFiles == {3}
=============================================================================
