------------------------------ MODULE Worklist ------------------------------
(***************************************************************************)
(* The breadth-first marking loop of the reachability analyses: the file   *)
(* graph (domain/graph.rs, reachable_from_many) and the symbol graph       *)
(* (analysis/symbols.rs, analyze_symbols with mark_node_reachable) run the *)
(* same loop over different nodes.                                         *)
(*                                                                         *)
(* todo holds the targets the loop body has still to look at: at first the *)
(* roots, and after each pop_front the adjacency list of the popped node.  *)
(* This module has no Spec of its own; the modules that walk a graph       *)
(* extend it and take its actions as steps of theirs.                      *)
(*                                                                         *)
(* Here and in the other modules a definition introduced as a "Variant" is *)
(* a wrong version of the one after it and no part of the specification:   *)
(* the mutation runs put it in the other's place to see a property fail.   *)
(***************************************************************************)
EXTENDS Integers, Sequences, Functions

CONSTANT Node            \* FileId, or a symbol in one of its two lanes

VARIABLES outgoing,      \* FileGraph::outgoing, an adjacency list per node
          roots,         \* the roots handed to the walk, in order
          todo,          \* targets of the running loop not looked at yet
          queue,         \* VecDeque of marked nodes still to be expanded
          reachable      \* the nodes marked so far

walkVars == <<outgoing, roots, todo, queue, reachable>>

WalkTypeOK ==
  /\ outgoing \in [Node -> Seq(Node)]
  /\ roots \in Seq(Node)
  /\ todo \in Seq(Node)
  /\ queue \in Seq(Node)
  /\ reachable \subseteq Node

(* What a graph's roots can reach, without reference to any algorithm: the *)
(* nodes of every set that holds the roots and is closed under the edges.  *)
ClosedUnder(succ, S) == \A n \in S : succ[n] \subseteq S

ReachableFrom(succ, from) ==
  {n \in Node : \A S \in SUBSET Node :
                   from \subseteq S /\ ClosedUnder(succ, S) => n \in S}

Successors == [n \in Node |-> Range(outgoing[n])]

-----------------------------------------------------------------------------

WalkIdle == todo = <<>> /\ queue = <<>>

StartWalk(graph, rs) ==
  /\ outgoing' = graph
  /\ roots' = rs
  /\ todo' = rs
  /\ queue' = <<>>
  /\ reachable' = {}

(* if !reachable[target] { reachable[target] = true; push_back(target) }   *)
MarkTarget ==
  /\ todo # <<>>
  /\ LET target == Head(todo)
     IN  IF target \in reachable
         THEN UNCHANGED <<reachable, queue>>
         ELSE /\ reachable' = reachable \cup {target}
              /\ queue' = Append(queue, target)
  /\ todo' = Tail(todo)
  /\ UNCHANGED <<outgoing, roots>>

(* Variant: front() in place of pop_front().                               *)
PopFrontKeeping ==
  /\ todo = <<>>
  /\ queue # <<>>
  /\ todo' = outgoing[Head(queue)]
  /\ UNCHANGED <<outgoing, roots, queue, reachable>>

(* while let Some(file) = queue.pop_front() { for target in &outgoing[file] *)
PopFront ==
  /\ todo = <<>>
  /\ queue # <<>>
  /\ todo' = outgoing[Head(queue)]
  /\ queue' = Tail(queue)
  /\ UNCHANGED <<outgoing, roots, reachable>>

WalkStep == MarkTarget \/ PopFront

=============================================================================
