---------------------------- MODULE MCCacheStore ----------------------------
(* CacheStore with two processes: of one version and small files, so that  *)
(* only their number is limited, or of two and files of which two may be   *)
(* too many.                                                               *)
EXTENDS CacheStore, TLC

CONSTANTS p1, p2

Setup(v1, v2, sizes) ==
  [version |-> (p1 :> v1) @@ (p2 :> v2), size |-> [g \in Name |-> sizes[g]]]

MCSetups ==
  {Setup("new", "new", <<1, 1, 1>>),
   Setup("old", "new", <<1, 2, 2>>), Setup("new", "old", <<1, 2, 2>>)}

(* The default limits, with no file large enough to matter.                *)
DefaultSetups == {Setup("new", "new", <<1, 1, 1, 1, 1>>)}

Symmetry == Permutations(Process)
=============================================================================
