---------------------------- MODULE MCDeepSession ---------------------------
(* A configuration with three members, asked in two batches of which only  *)
(* the second fits into the pipe, and one whose request is too long.  Two  *)
(* members lie behind text that is not ASCII: at the offset of one the     *)
(* compiler finds nothing, at that of the other its neighbour.             *)
EXTENDS DeepSession

MCGroups == <<"app", "lib">>

MCKeys == [g \in {"app", "lib"} |-> IF g = "app" THEN <<"open", "close", "size">> ELSE <<"run">>]

MCFound == [k \in {"open", "close", "size", "run"} |->
              CASE k = "close" -> "none" [] k = "size" -> "close" [] OTHER -> k]

MCBytes == [k \in {"open", "close", "size", "run"} |-> IF k = "run" THEN 3 ELSE 1]
=============================================================================
