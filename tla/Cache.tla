------------------------------- MODULE Cache -------------------------------
(***************************************************************************)
(* What the persistent cache promises its users: a bag of generations that *)
(* may forget any of them at any time, and whose loads answer with nothing *)
(* or with a generation it holds that was committed, whole, by a process   *)
(* of the same schema and tool version.  Nothing is promised about which.  *)
(***************************************************************************)
CONSTANTS Process, Version, Name

VARIABLES version,   \* what each process runs
          held,      \* the generations held: pairs of a name and a version
          answer     \* the result of each process's last load, at most one

vars == <<version, held, answer>>

Init ==
  /\ version \in [Process -> Version]
  /\ held = {}
  /\ answer = [p \in Process |-> {}]

(* The process ends, or asks anew.                                         *)
Drop(p) ==
  /\ answer' = [answer EXCEPT ![p] = {}]
  /\ UNCHANGED <<version, held>>

Answer(p) ==
  /\ \E found \in SUBSET held :
       /\ \A g, h \in found : g = h
       /\ \A g \in found : g[2] = version[p]
       /\ answer' = [answer EXCEPT ![p] = found]
  /\ UNCHANGED <<version, held>>

Commit(p) ==
  /\ \E n \in Name :
       /\ \A g \in held : g[1] # n
       /\ held' = held \cup {<<n, version[p]>>}
  /\ UNCHANGED <<version, answer>>

Forget ==
  /\ held' \in SUBSET held
  /\ UNCHANGED <<version, answer>>

Next == Forget \/ \E p \in Process : Drop(p) \/ Answer(p) \/ Commit(p)

Spec == Init /\ [][Next]_vars
=============================================================================
