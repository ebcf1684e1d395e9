------------------------------ MODULE MCMembers -----------------------------
(* Projects of two files: a class A in "a" with one member, and a class B  *)
(* in "b" that may extend it and override the member.  Three slices of     *)
(* what can be said of them: what surfaces, who uses, who overrides.       *)
EXTENDS Members

MCProfiles == <<"node", "browser">>

Plain(file) ==
  [file |-> file, named |-> TRUE, extends |-> FALSE, implements |-> FALSE,
   decorated |-> FALSE, exported |-> FALSE, modifier |-> FALSE, escaped |-> FALSE]

(* class A, the same named in an export list, export class A, and the      *)
(* export default of a class without a name.                               *)
Exports ==
  [no |-> Plain("a"), list |-> [Plain("a") EXCEPT !.exported = TRUE],
   modifier |-> [Plain("a") EXCEPT !.exported = TRUE, !.modifier = TRUE],
   anonymous |-> [Plain("a") EXCEPT !.exported = TRUE, !.modifier = TRUE, !.named = FALSE]]

Run(class) ==
  [class |-> class, name |-> "run", visibility |-> "public", static |-> FALSE,
   overridden |-> FALSE, decorated |-> FALSE, bases |-> {}, over |-> {}]

Use(member, file, form) == [member |-> member, file |-> file, form |-> form]

Project ==
  [files      |-> {"a", "b"},
   entries    |-> {"a"},
   open       |-> {},
   reach      |-> [q \in {"node", "browser"} |-> {"a", "b"}],
   typescript |-> {"a", "b"},
   program    |-> {"a", "b"},
   mode       |-> [f \in {"a", "b"} |-> "deep"],
   hazards    |-> [f \in {"a", "b"} |-> {}],
   classes    |-> [c \in {"A"} |-> [Plain("a") EXCEPT !.exported = TRUE]],
   members    |-> [m \in {"A.run"} |-> Run("A")],
   uses       |-> {}]

Worlds == {[open |-> {}, entries |-> {"a"}], [open |-> {"a", "b"}, entries |-> {"a"}],
           [open |-> {"a", "b"}, entries |-> {"b"}]}

Classes ==
  {Plain("a"), [Plain("a") EXCEPT !.exported = TRUE], [Plain("a") EXCEPT !.escaped = TRUE],
   [Plain("a") EXCEPT !.named = FALSE],
   [Plain("a") EXCEPT !.implements = TRUE, !.exported = TRUE]}

Surface ==
  {[Project EXCEPT
      !.open = world.open, !.entries = world.entries,
      !.mode = [f \in {"a", "b"} |-> mode],
      !.hazards["a"] = hazards,
      !.classes["A"] = class,
      !.members["A.run"] = [@ EXCEPT !.visibility = visibility, !.static = static],
      !.uses = uses] :
     world \in Worlds, mode \in Modes, hazards \in {{}, {"bracketed"}}, class \in Classes,
     visibility \in Visibilities, static \in BOOLEAN,
     uses \in {{}, {Use("A.run", "a", "other")}, {Use("A.run", "b", "access")},
               {Use("A.run", Library, "access")}}}

ReachOf(first, second) == [q \in {"node", "browser"} |-> IF q = "node" THEN first ELSE second]

Used ==
  {[Project EXCEPT
      !.reach = ReachOf(first, second),
      !.program = compiler[1], !.typescript = compiler[2],
      !.members["A.run"] = [@ EXCEPT !.visibility = visibility, !.static = static,
                                     !.bases = bases],
      !.classes["A"].extends = (bases # {}),
      !.uses = uses \cup (IF bases = {} THEN {} ELSE {Use("A.run", Library, "contract")})] :
     first \in {{"a"}, {"a", "b"}}, second \in {{"a"}, {"a", "b"}, {"b"}},
     compiler \in {<<{"a", "b"}, {"a", "b"}>>, <<{"a"}, {"a", "b"}>>, <<{"a", "b"}, {"b"}>>},
     visibility \in Visibilities \ {"jsPrivate"}, static \in BOOLEAN,
     bases \in {{}, {"installed"}, {"builtin"}},
     uses \in SUBSET {Use("A.run", "b", "access"), Use("A.run", "b", "other")}}

Overriding ==
  {[Project EXCEPT
      !.open = open, !.entries = {"b"},
      !.reach = ReachOf({"b"}, second),
      !.program = program,
      !.classes = [c \in {"A", "B"} |->
                     IF c = "A" THEN [Exports[export] EXCEPT !.extends = (bases # {})]
                     ELSE [Plain("b") EXCEPT !.extends = TRUE, !.decorated = decorated]],
      !.members = [m \in {"A.run", "B.run"} |->
                     IF m = "A.run" THEN [Run("A") EXCEPT !.static = static, !.bases = bases]
                     ELSE [Run("B") EXCEPT !.over = {"A.run"}, !.bases = bases,
                                           !.static = static, !.overridden = overridden]],
      !.uses = uses \cup {Use("A.run", Library, "contract") : base \in bases} \cup
        (IF export # "no" /\ open # {} THEN {Use("A.run", Library, "access")} ELSE {})] :
     open \in {{}, {"a"}, {"a", "b"}}, second \in {{"b"}, {"a", "b"}},
     bases \in {{}, {"installed"}, {"builtin"}},
     program \in {{"b"}, {"a", "b"}}, export \in DOMAIN Exports, decorated \in BOOLEAN,
     static \in BOOLEAN, overridden \in BOOLEAN,
     uses \in SUBSET {Use("A.run", "a", "access"), Use("B.run", "a", "access")}}

(* The consumers of a package see what it exports and leaves open.         *)
MCProjects ==
  {p \in Surface \cup Used \cup Overriding :
     \A u \in p.uses :
       u.file = Library /\ u.form = "access" =>
         LET class == p.classes[p.members[u.member].class]
         IN class.file \in p.open /\ class.exported
            /\ p.members[u.member].visibility \in {"protected", "public"}}
=============================================================================
