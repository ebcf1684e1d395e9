-------------------------- MODULE MCSymbolLiveness --------------------------
(* SymbolLiveness on an entry a that imports i from a barrel b or a module *)
(* c.  f is a function or class of a, x and y are functions of c that may  *)
(* call each other, j is a declaration of b or an import of its own.       *)
EXTENDS SymbolLiveness

MCFile == {"a", "b", "c"}
MCSymbol == {"f", "i", "j", "x", "y"}
MCRegion == {"ma", "mb", "mc", "rf", "rx", "ry", "block"}
MCExportName == {"default", "x", "y"}
MCNode == MCSymbol \X {"Runtime", "Type"}

InLanes(symbol) == << <<symbol, "Runtime">>, <<symbol, "Type">> >>
Order ==
  InLanes("f") \o InLanes("i") \o InLanes("j") \o InLanes("x") \o InLanes("y")
MCListOf == [S \in SUBSET MCNode |-> SelectSeq(Order, LAMBDA n : n \in S)]

Home == [f |-> "a", i |-> "a", j |-> "b", x |-> "c", y |-> "c"]

Body(file, parent, owner) ==
  [file |-> file, parent |-> parent, eager |-> FALSE, owner |-> owner, inline |-> FALSE]
Module(file) == [Body(file, NoRegion, NoSymbol) EXCEPT !.eager = TRUE]

(* A method or an instance initializer of f, a static block of f, a        *)
(* callback in f, a function expression nobody calls, and one that is      *)
(* passed on at the top of the file; rf is the body of f or, when f is a   *)
(* class, a static block.                                                  *)
Function == Body("a", "ma", "f")
StaticBlock == [Function EXCEPT !.eager = TRUE]
InnerCallback == [Body("a", "rf", "f") EXCEPT !.inline = TRUE]
Blocks ==
  {<<Function, block>> : block \in {Function, StaticBlock, InnerCallback,
                                    Body("a", "ma", NoSymbol)}}
    \cup {<<StaticBlock, InnerCallback>>}
Callback == [Body("a", "ma", NoSymbol) EXCEPT !.inline = TRUE]

Regions(blocks) ==
  [ma |-> Module("a"), mb |-> Module("b"), mc |-> Module("c"),
   rf |-> blocks[1], rx |-> Body("c", "mc", "x"),
   ry |-> Body("c", "mc", "y"), block |-> blocks[2]]

Ref(region, within, target, usage) ==
  [region |-> region, within |-> within, target |-> target, usage |-> usage]
Import(local, source, name) ==
  [local |-> local, source |-> source, name |-> name, required |-> FALSE]
Required(local, source) == [Import(local, source, AllNames) EXCEPT !.required = TRUE]
Loads(region, source) == {[region |-> region, source |-> source]}

Local(file, name, symbol, lane) ==
  [file |-> file, name |-> name, star |-> FALSE, local |-> symbol,
   source |-> NoFile, imported |-> AllNames, lane |-> lane]
Reexport(file, name, source, imported) ==
  [Local(file, name, NoSymbol, "Runtime") EXCEPT !.source = source, !.imported = imported]
Star(file, source) ==
  [Reexport(file, AllNames, source, AllNames) EXCEPT !.star = TRUE]

Sources(file, bindings, exports) ==
  ({b.source : b \in {b \in bindings : Home[b.local] = file}}
     \cup {e.source : e \in {e \in exports : e.file = file}}) \ {NoFile}

Loaded(file, blocks, loads) ==
  {l.source : l \in {l \in loads : Regions(blocks)[l.region].file = file}}

Analysed(blocks, references, bindings, loads, exports, open, hidden, computed, kept) ==
  [home |-> Home, kept |-> kept, typed |-> {"x"}, regions |-> Regions(blocks),
   references |-> references, bindings |-> bindings, loads |-> loads, exports |-> exports,
   hidden |-> hidden, computed |-> computed, open |-> open,
   reached |-> Closure([f \in MCFile |->
                          Sources(f, bindings, exports) \cup Loaded(f, blocks, loads)],
                       {"a"} \cup open)]

References ==
  {Ref("ma", NoSymbol, "f", "Runtime"), Ref("ma", NoSymbol, "i", "Type"),
   Ref("block", NoSymbol, "i", "Runtime"), Ref("rx", "x", "y", "Type"),
   Ref("rx", "x", "x", "Runtime"), Ref("ry", "y", "x", "Runtime")}

(* What is used from where.                                                *)
UsePrograms ==
  {Analysed(blocks, references, {Import("i", "b", "x")}, loads,
            {Reexport("b", "x", "c", name), Local("c", "x", "x", "Runtime"),
             Local("c", "y", "y", "Type")},
            open, guards[1], {}, guards[2]) :
     blocks \in Blocks, references \in SUBSET References, name \in {"x", "y"},
     loads \in {{}, Loads("block", "c")},
     open \in {{}, {"c"}},
     guards \in {<<{}, {}>>, <<{"c"}, {}>>, <<{}, {"y"}>>}}

(* At most one explicit export of a name in a file.                        *)
NoDuplicates(exports) ==
  \A d, e \in exports : d.file = e.file /\ d.name = e.name => d = e

BarrelExports ==
  {E \in SUBSET {Star("b", "c"), Reexport("b", "x", "c", "y"), Local("b", "x", "j", "Runtime"),
                 Reexport("b", "default", "c", "x")} : NoDuplicates(E)}

ModuleExports ==
  SUBSET {Local("c", "x", "x", "Runtime"), Local("c", "default", "y", "Runtime"),
          Star("c", "b")}

(* How it is imported and exported.                                        *)
LinkPrograms ==
  {Analysed(<<Function, Function>>, references, {Import("i", "b", name)} \cup own, {},
            barrel \cup module, open, {}, computed, {}) :
     references \in {{Ref("ma", NoSymbol, "i", "Runtime")},
                     {Ref("block", "f", "i", "Runtime"), Ref("rx", "x", "y", "Runtime")}},
     name \in MCExportName \cup {AllNames},
     own \in {{}, {Import("j", "c", "x")}, {Import("j", "c", AllNames)}, {Required("j", "c")}},
     barrel \in BarrelExports, module \in ModuleExports,
     open \in {{}, {"b"}}, computed \in {{}, {"c"}}}

MCPrograms == UsePrograms \cup LinkPrograms

(* What the analysis does not see: uses in a callback that runs on the     *)
(* spot, and by a load that binds nothing.                                 *)
UnseenPrograms ==
  {Analysed(<<Function, Callback>>, {Ref("block", NoSymbol, "f", "Runtime")}, {}, {},
            {}, {}, {}, {}, {}),
   Analysed(<<Function, Function>>, {}, {}, Loads("ma", "c"),
            {Local("c", "x", "x", "Runtime")}, {}, {}, {}, {})}
=============================================================================
