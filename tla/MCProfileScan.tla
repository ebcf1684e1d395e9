--------------------------- MODULE MCProfileScan ---------------------------
(* ProfileScan on three files.  The programs cover every answer of the     *)
(* resolver and every class of parse diagnostic; each file draws its own.  *)
EXTENDS ProfileScan, SequencesExt

MCNode == 1..FileCount

Load(answer) == [deferred |-> FALSE, mapped |-> {}, member |-> FALSE,
                 declared |-> FALSE, answer |-> answer, target |-> 1]

Source(f) == [Load("source") EXCEPT !.target = f]

Plain(imports) == [imports |-> imports, parse |-> <<>>]

Blocking(code) == [code |-> code, blocks |-> TRUE]

CommonPrograms ==
  { Plain(<<>>),
    Plain(<<Source(1)>>),
    Plain(<<Source(2)>>),
    Plain(<<Source(3)>>),
    \* a workspace package with two source targets
    Plain(<<[Load("missing") EXCEPT !.mapped = {2, 3}]>>),
    \* one import is an ordinary dependency, the other cannot be resolved
    Plain(<<[Load("missing") EXCEPT !.declared = TRUE], Load("missing")>>),
    \* resolved inside the root, but not to a file of the universe
    Plain(<<Load("inside"), Source(1)>>),
    \* import() inside a function
    [imports |-> <<[Source(3) EXCEPT !.deferred = TRUE]>>,
     parse   |-> <<Blocking("deferred_execution_region")>>],
    \* a warning, then a load with a computed specifier
    [imports |-> <<Source(2)>>,
     parse   |-> <<[code |-> "unsupported_common_js_export", blocks |-> FALSE],
                   Blocking("unsupported_dynamic_import")>>],
    [imports |-> <<>>, parse |-> <<Blocking("parse_failure")>>] }

(* The answers of the resolver the common programs leave out               *)
AnswerPrograms ==
  { Plain(<<Load(a)>>) : a \in {"external", "archive", "dependency", "asset",
                                "outside", "foreign", "vanished"} }
  \cup { Plain(<<[Load(a) EXCEPT !.member = TRUE]>>) :
           a \in {"external", "archive"} }

MCPrograms ==
  [f \in Node |-> IF f = 2 THEN CommonPrograms \cup AnswerPrograms
                  ELSE CommonPrograms]

MCParseCodes == FatalCodes \cup
  {"unsupported_dynamic_import", "unsupported_common_js_export",
   "deferred_execution_region"}
MCEntryLists == {<<1>>, <<2>>, <<1, 3>>}
MCPluginEdgeSets == {{}, {<<2, 3>>}}
MCListOf == [S \in SUBSET Node |-> SetToSortSeq(S, <)]
=============================================================================
