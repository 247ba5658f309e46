-------------------------------- MODULE Driver --------------------------------
(***************************************************************************)
(* main() (src/driver.cc): the phases of the compiler, and the two that    *)
(* visit the syntax tree, AST::TypeAnalysis (src/ast/type_analysis.cc) and *)
(* AST::Grapher (src/ast/grapher.cc), node by node.                        *)
(*                                                                         *)
(* The parser and code generation have modules of their own; here the      *)
(* first yields any tree it may build, and of the second only the loop in  *)
(* Program::codegen() and the function main are kept.  todo is the         *)
(* recursion of the visitors: what the active visit() methods still have   *)
(* to do.                                                                  *)
(*                                                                         *)
(* Two calls need not return: parse(), which waits for its input and may   *)
(* hang in a comment (see the module Scanner), and the program's own main. *)
(***************************************************************************)
EXTENDS Integers, Sequences, FiniteSets

CONSTANTS
  ParamLists,  \* the command lines; the parameter "file" names a file to read
  Trees        \* the trees that the parser may build

Exprs == {"FunctionCall", "BinaryOperator", "UnaryOperator", "VarName", "IConstant",
          "FConstant"}
Stmts == {"VarDecl", "ExprStatement", "IfStatement", "ForStatement", "RetStatement"}
Kinds == Exprs \cup Stmts \cup {"Program", "Block", "FunctionDecl", "FunctionDef"}

(* What the parser makes the c-th child of a node from, and how many there *)
(* are where the grammar has no list.                                      *)
Member(kind, c) ==
  CASE kind = "Program"      -> Exprs \cup {"VarDecl", "FunctionDef"}
    [] kind = "Block"        -> Stmts
    [] kind = "FunctionDef"  -> IF c = 1 THEN {"FunctionDecl"} ELSE {"Block"}
    [] kind = "IfStatement"  -> IF c = 1 THEN Exprs ELSE {"Block"}
    [] kind = "ForStatement" -> IF c < 4 THEN Exprs ELSE {"Block"}
    [] OTHER                 -> Exprs

Lists == {"Program", "Block", "FunctionCall"}

Arity(kind) ==
  CASE kind = "ForStatement" -> 4
    [] kind = "IfStatement"  -> 3
    [] kind \in {"FunctionDef", "BinaryOperator"} -> 2
    [] kind \in {"VarDecl", "ExprStatement", "RetStatement", "UnaryOperator"} -> 1
    [] OTHER -> 0

(* What may be left out: the body of an extern function, the else part of  *)
(* an if statement, the value of a return.                                 *)
Optional == {"FunctionDef", "IfStatement", "RetStatement"}

(* A tree is the sequence of its nodes in the order of the program text.   *)
(* A node has the numbers of its children, and whether the pointer behind  *)
(* them is null; last is the number of the last node below it.  Of a name  *)
(* only matters whether it is main, or that of a variable to which nothing *)
(* is bound where it is used (the module Codegen says when); args is the   *)
(* number of parameters of a function.                                     *)
Nodes == [kind : Kinds, name : {"main", "other", "unbound"}, args : Nat,
          kids : Seq(Nat), lacks : BOOLEAN, last : Nat]

(* The children of a node follow it, each behind the last node below the   *)
(* one before.                                                             *)
Follows(t, i) ==
  LET n == t[i]
      k == Len(n.kids)
  IN /\ \A c \in 1..k : n.kids[c] = IF c = 1 THEN i + 1 ELSE t[n.kids[c - 1]].last + 1
     /\ n.last = IF k = 0 THEN i ELSE t[n.kids[k]].last
     /\ n.last \in i..Len(t)

Parsed(t, i) ==
  LET n == t[i] IN
  /\ \A c \in DOMAIN n.kids : n.kids[c] \in DOMAIN t /\ t[n.kids[c]].kind \in Member(n.kind, c)
  /\ n.kind \in Lists \/ Len(n.kids) = Arity(n.kind) - (IF n.lacks THEN 1 ELSE 0)
  /\ n.lacks => n.kind \in Optional

IsTree(t) ==
  /\ t \in Seq(Nodes) /\ t # <<>>
  /\ \A i \in DOMAIN t : Parsed(t, i) /\ Follows(t, i)
  /\ t[1].kind = "Program" /\ t[1].last = Len(t)

ASSUME DriverAssumption ==
  /\ \A t \in Trees : IsTree(t)
  /\ \A p \in ParamLists : p \in Seq(STRING)

VARIABLES
  params,   \* the command line
  phase,    \* "open", "parse", "analyse", "graph", "generate", "exec", "main",
            \* "close"
  status,   \* "running", what main() returns ("0", "-1"), or how it ended
  tree,     \* what the parser returned
  todo,     \* what the active visitor, or Program::codegen(), has to do
  func,     \* TypeAnalysis: the current function; 0 is the null pointer
  stack,    \* Grapher: the names of the nodes that enclose the current one
  id,       \* Grapher: the number of nodes declared
  last,     \* Grapher: name, the local variable of visit(Program*)
  printed,  \* the nodes printed, with the name of the node linked to each
  main      \* which node of the program the module's main was made from last,
            \* or 0 when the module has none

visitor == <<todo, func>>
grapher == <<stack, id, last, printed>>
vars    == <<params, phase, status, tree, visitor, grapher, main>>

(* What there is to do: to accept() the visitor of a node, or of a null    *)
(* pointer; what a visit() does after it visited the children; to go on    *)
(* with the c-th node of the program.                                      *)
Visit(i) == [what |-> "visit", node |-> i]
Null     == [what |-> "null", node |-> 0]
Reset    == [what |-> "reset", node |-> 0]
Pop      == [what |-> "pop", node |-> 0]
Each(c)  == [what |-> "each", node |-> c]

Doing(what) == todo # <<>> /\ Head(todo).what = what

Current == tree[Head(todo).node]
-----------------------------------------------------------------------------
(* The option; params has two elements when there is one.                  *)
Option == IF Len(params) = 2 THEN params[1] ELSE ""
File   == IF params = <<>> THEN "file" ELSE params[Len(params)]

Empty == <<[kind |-> "Program", name |-> "other", args |-> 0, kids |-> <<>>,
            lacks |-> FALSE, last |-> 1]>>

Init ==
  /\ params \in ParamLists
  /\ phase = "open" /\ status = "running"
  /\ tree = Empty
  /\ todo = <<>> /\ func = 0
  /\ stack = <<>> /\ id = 0 /\ last = <<>> /\ printed = <<>>
  /\ main = 0

Stop(how) == status' = how /\ UNCHANGED phase

In(p) == phase = p /\ status = "running"

Usage == Len(params) > 2 \/ Option \notin {"", "-graph", "-dump", "-exec"}

(* A parameter on its own is taken for the name of a file.                 *)
Open ==
  /\ In("open")
  /\ \/ Usage /\ Stop("-1")
     \/ ~Usage /\ File # "file" /\ Stop("abort")
     \/ ~Usage /\ File = "file" /\ phase' = "parse" /\ UNCHANGED status
  /\ UNCHANGED <<params, tree, visitor, grapher, main>>

(* When the parser comes to an end, whether errors were reported makes no  *)
(* difference to what follows.                                             *)
Parse ==
  /\ In("parse")
  /\ \/ \E how \in {"exit", "abort"} : Stop(how) /\ UNCHANGED <<tree, todo>>
     \/ \E t \in Trees :
          /\ tree' = t /\ todo' = <<Visit(1)>>
          /\ phase' = "analyse" /\ UNCHANGED status
  /\ UNCHANGED <<params, func, grapher, main>>

(* A visitor calls accept() of a null pointer.                             *)
VisitNull ==
  /\ phase \in {"analyse", "graph"} /\ status = "running"
  /\ Doing("null")
  /\ Stop("null")
  /\ UNCHANGED <<params, tree, visitor, grapher, main>>
-----------------------------------------------------------------------------
(* Type analysis.                                                          *)

(* Wrong: what an if statement or a return lacks is passed over.           *)
AcceptedGuarded(n) == [c \in DOMAIN n.kids |-> Visit(n.kids[c])]

(* What a visit() calls accept() of.  The body of a definition is null     *)
(* when it is an extern one, and tested; no other child that the parser    *)
(* may leave out is.  (An expression statement has its expression.)        *)
Accepted(n) ==
  [c \in DOMAIN n.kids |-> Visit(n.kids[c])]
  \o IF n.lacks /\ n.kind # "FunctionDef" THEN <<Null>> ELSE <<>>


AnalyseNode ==
  /\ In("analyse")
  /\ Doing("visit") /\ Current.kind # "FunctionDef"
  /\ todo' = Accepted(Current) \o Tail(todo)
  /\ UNCHANGED <<params, phase, status, tree, func, grapher, main>>

AnalyseFunctionDef ==
  /\ In("analyse")
  /\ Doing("visit") /\ Current.kind = "FunctionDef"
  /\ func' = Head(todo).node
  /\ todo' = Accepted(Current) \o <<Reset>> \o Tail(todo)
  /\ UNCHANGED <<params, phase, status, tree, grapher, main>>

LeaveFunctionDef ==
  /\ In("analyse")
  /\ Doing("reset")
  /\ func' = 0 /\ todo' = Tail(todo)
  /\ UNCHANGED <<params, phase, status, tree, grapher, main>>

(* The nodes of the program, from the c-th on.                             *)
From(c) == IF c \in DOMAIN tree[1].kids THEN <<Each(c)>> ELSE <<>>

Analysed ==
  /\ In("analyse") /\ todo = <<>>
  /\ \/ /\ Option = "-graph"
        /\ phase' = "graph" /\ todo' = <<Visit(1)>>
        /\ stack' = <<<<"Program">>>> /\ last' = <<"Statement">>
     \/ /\ Option # "-graph"
        /\ phase' = "generate" /\ todo' = From(1)
        /\ UNCHANGED <<stack, last>>
  /\ UNCHANGED <<params, status, tree, func, id, printed, main>>
-----------------------------------------------------------------------------
(* The grapher.  A name is a word and the digits behind it.                *)

Decimal[n \in Nat] == IF n < 10 THEN <<n>> ELSE Decimal[n \div 10] \o <<n % 10>>

Top == stack[Len(stack)]

(* Wrong: the number is not counted up.                                    *)
DeclareSame(name) ==
  /\ printed' = Append(printed, [name |-> name \o Decimal[id], parent |-> Top])
  /\ UNCHANGED id

(* declare() and link(): the node gets the next number and is linked to    *)
(* the node on top of the stack.                                           *)
Declare(name) ==
  /\ printed' = Append(printed, [name |-> name \o Decimal[id], parent |-> Top])
  /\ id' = id + 1

(* The visit() methods that print nothing for their node, print a node and *)
(* its children below it, and print a node only.                           *)
PlainKinds == Stmts
InnerKinds == {"Block", "FunctionDef", "FunctionCall", "BinaryOperator", "UnaryOperator"}
LeafKinds  == {"FunctionDecl", "VarName", "IConstant", "FConstant"}

Word(n) == IF n.kind = "Block" THEN "FunctionBody" ELSE n.kind

Graphing(kinds) == In("graph") /\ Doing("visit") /\ Current.kind \in kinds

(* visit() of a program is a loop over its nodes.                          *)
GraphProgram ==
  /\ Graphing({"Program"})
  /\ todo' = From(1) \o Tail(todo)
  /\ UNCHANGED <<params, phase, status, tree, func, grapher, main>>

(* Each is visited below a node of its own, whose name is made from that   *)
(* of the statement before.                                                *)
GraphStatement ==
  /\ In("graph") /\ Doing("each")
  /\ Declare(last)
  /\ last' = last \o Decimal[id]
  /\ stack' = Append(stack, last \o Decimal[id])
  /\ LET c == Head(todo).node IN
     todo' = <<Visit(tree[1].kids[c]), Pop>> \o From(c + 1) \o Tail(todo)
  /\ UNCHANGED <<params, phase, status, tree, func, main>>

GraphPlain ==
  /\ Graphing(PlainKinds)
  /\ todo' = Accepted(Current) \o Tail(todo)
  /\ UNCHANGED <<params, phase, status, tree, func, grapher, main>>

(* Wrong: the children of a node are printed before its name is pushed.    *)
GraphInnerFlat ==
  /\ Graphing(InnerKinds)
  /\ Declare(<<Word(Current)>>)
  /\ todo' = Accepted(Current) \o Tail(todo)
  /\ UNCHANGED <<params, phase, status, tree, func, stack, last, main>>

GraphInner ==
  /\ Graphing(InnerKinds)
  /\ Declare(<<Word(Current)>>)
  /\ stack' = Append(stack, <<Word(Current)>> \o Decimal[id])
  /\ todo' = Accepted(Current) \o <<Pop>> \o Tail(todo)
  /\ UNCHANGED <<params, phase, status, tree, func, last, main>>

(* Wrong: the stack is popped, though nothing was pushed.                  *)
GraphLeafPops ==
  /\ Graphing(LeafKinds)
  /\ Declare(<<Word(Current)>>)
  /\ todo' = Tail(todo)
  /\ stack' = SubSeq(stack, 1, Len(stack) - 1)
  /\ UNCHANGED <<params, phase, status, tree, func, last, main>>

GraphLeaf ==
  /\ Graphing(LeafKinds)
  /\ Declare(<<Word(Current)>>)
  /\ todo' = Tail(todo)
  /\ UNCHANGED <<params, phase, status, tree, func, stack, last, main>>

GraphPop ==
  /\ In("graph") /\ Doing("pop")
  /\ stack' = SubSeq(stack, 1, Len(stack) - 1)
  /\ todo' = Tail(todo)
  /\ UNCHANGED <<params, phase, status, tree, func, id, last, printed, main>>

Graphed ==
  /\ In("graph") /\ todo = <<>>
  /\ phase' = "close"
  /\ UNCHANGED <<params, status, tree, visitor, grapher, main>>
-----------------------------------------------------------------------------
(* The other phases.                                                       *)

(* Nothing is missing below a node where codegen() does not test for it:   *)
(* the else part of an if statement, the value of a return.                *)
Whole(i) == \A j \in i..tree[i].last : tree[j].lacks => tree[j].kind = "FunctionDef"

IsMain(n) == n.kind = "FunctionDef" /\ n.name = "main"

(* An expression statement, a return and an if have no value when their    *)
(* expression is a bare name that nothing is bound to; the if generates    *)
(* nothing then.                                                           *)
Valueless(n) ==
  /\ n.kind \in {"ExprStatement", "RetStatement", "IfStatement"} /\ n.kids # <<>>
  /\ tree[n.kids[1]].kind = "VarName" /\ tree[n.kids[1]].name = "unbound"

(* A body has the value of its last statement.                             *)
HasBody(n)  == ~n.lacks
HasValue(n) == LET body == tree[n.kids[2]].kids
               IN body # <<>> /\ ~Valueless(tree[body[Len(body)]])

(* The c-th node of the program.                                           *)
Nth(c) == tree[tree[1].kids[c]]

(* Wrong: a definition behind another takes its place.                     *)
RefusedByArgs(before, n) == before # 0 /\ Nth(before).args # n.args

(* A main that has a body, or another number of parameters, stays.         *)
Refused(before, n) ==
  before # 0 /\ (HasBody(Nth(before)) \/ Nth(before).args # n.args)

(* The module's main once the c-th node was generated: a body without a    *)
(* value takes the function with it.                                       *)
Generated(before, c) ==
  IF ~IsMain(Nth(c)) \/ Refused(before, Nth(c)) THEN before
  ELSE IF HasBody(Nth(c)) /\ ~HasValue(Nth(c)) THEN 0 ELSE c

(* Program::codegen() generates one node after the other; this may stop in *)
(* LLVM ("llvm"): see the module Codegen.                                  *)
GenerateNode ==
  /\ In("generate") /\ Doing("each")
  /\ LET c == Head(todo).node
         i == tree[1].kids[c]
     IN \/ ~Whole(i) /\ Stop("null") /\ UNCHANGED <<todo, main>>
        \/ Whole(i) /\ Stop("llvm") /\ UNCHANGED <<todo, main>>
        \/ /\ Whole(i)
           /\ main' = Generated(main, c)
           /\ todo' = From(c + 1) \o Tail(todo)
           /\ UNCHANGED <<phase, status>>
  /\ UNCHANGED <<params, tree, func, grapher>>

ModuleDone ==
  /\ In("generate") /\ todo = <<>>
  /\ phase' = IF Option = "-exec" THEN "exec" ELSE "close"
  /\ UNCHANGED <<params, status, tree, visitor, grapher, main>>

(* The module is compiled, which may stop in LLVM, and its main called.    *)
(* There is no code when there is no such function; one that is only       *)
(* declared is looked up in the process, whose main is the compiler's own  *)
(* ("self").                                                               *)
Exec ==
  /\ In("exec")
  /\ \/ Stop("llvm")
     \/ main = 0 /\ Stop("null")
     \/ main # 0 /\ ~HasBody(Nth(main)) /\ Stop("self")
     \/ main # 0 /\ HasBody(Nth(main)) /\ phase' = "main" /\ UNCHANGED status
  /\ UNCHANGED <<params, tree, visitor, grapher, main>>

(* The program's main returns, or ends the process.                        *)
Return ==
  /\ In("main")
  /\ \/ phase' = "close" /\ UNCHANGED status
     \/ Stop("program")
  /\ UNCHANGED <<params, tree, visitor, grapher, main>>

Close ==
  /\ In("close")
  /\ Stop("0")
  /\ UNCHANGED <<params, tree, visitor, grapher, main>>

Analyse == AnalyseNode \/ AnalyseFunctionDef \/ LeaveFunctionDef \/ Analysed
Graph == GraphProgram \/ GraphStatement \/ GraphPlain \/ GraphInner \/ GraphLeaf
         \/ GraphPop \/ Graphed
Generate == GenerateNode \/ ModuleDone

Step == Open \/ VisitNull \/ Analyse \/ Graph \/ Generate \/ Exec \/ Close

Stopped == status # "running" /\ UNCHANGED vars

Next == Step \/ Parse \/ Return \/ Stopped

(* main() is sequential code; nothing makes the parser come to an end, or  *)
(* the program it runs.                                                    *)
Spec == Init /\ [][Next]_vars /\ WF_vars(Step)
-----------------------------------------------------------------------------
(* The grapher always has a node to link to, and the name on top of its    *)
(* stack is that of a node it printed.  TypeAnalysis has a current         *)
(* function exactly while it is in a definition, which it will leave.      *)
TypeOK ==
  /\ params \in ParamLists
  /\ phase \in {"open", "parse", "analyse", "graph", "generate", "exec", "main", "close"}
  /\ status \in {"running", "0", "-1", "exit", "abort", "null", "llvm", "self", "program"}
  /\ IsTree(tree)
  /\ main \in 0..Len(tree[1].kids)
  /\ func \in 0..Len(tree)
  /\ id = Len(printed)
  /\ phase = "graph" => stack # <<>> /\ stack[1] = <<"Program">>
  /\ phase = "close" /\ Option = "-graph" => Len(stack) = 1
  /\ \A i \in 2..Len(stack) : \E j \in DOMAIN printed : printed[j].name = stack[i]
  /\ phase = "analyse" =>
       Cardinality({i \in DOMAIN todo : todo[i] = Reset}) = (IF func = 0 THEN 0 ELSE 1)

(* An if without else and a return without value are programs of the       *)
(* language (README.md:18-20, 31), which the parser takes (parser.cc:209,  *)
(* 248) and on which the compiler stops at a null pointer.  It does so in  *)
(* type analysis (type_analysis.cc:48, 62), the first phase that would     *)
(* follow the pointer, and there only: the grapher and code generation,    *)
(* which test as little, get whole trees, whatever was reported.  The      *)
(* other null pointer is a main that was not generated.                    *)
NullsStopEarly ==
  /\ phase \in {"graph", "generate", "exec", "main", "close"} => Whole(1)
  /\ status = "null" => phase = "exec" \/ (phase = "analyse" /\ ~Whole(1))

(* The definitions of main whose body has a value; and those that differ   *)
(* in the number of parameters from an extern declaration before them.     *)
Valued ==
  {c \in DOMAIN tree[1].kids : IsMain(Nth(c)) /\ HasBody(Nth(c)) /\ HasValue(Nth(c))}

Contradicted(c) ==
  \E b \in 1..(c - 1) :
    IsMain(Nth(b)) /\ ~HasBody(Nth(b)) /\ Nth(b).args # Nth(c).args

MainCalled == phase = "main" \/ (phase = "close" /\ Option = "-exec")

(* What -exec calls is a definition of main with a value, and the first    *)
(* that no extern declaration contradicts is not passed over for a later   *)
(* one, whatever declarations and bodies without a value stand before and  *)
(* behind it (funcdecl.cc:42, funcdef.cc:58).  It calls nothing, or the    *)
(* compiler's own main, only when every such definition is contradicted.   *)
ExecRunsMain ==
  /\ MainCalled => main \in Valued /\ \A c \in Valued : c < main => Contradicted(c)
  /\ phase = "exec" /\ status \in {"null", "self"} =>
       \A c \in Valued : Contradicted(c)

(* No two nodes of a graph have the same name, though a name is a word and *)
(* digits run together, and a statement's has those of all before it.      *)
NamesDiffer ==
  \A j \in DOMAIN printed : \A i \in 1..(j - 1) : printed[i].name # printed[j].name

(* The vertices a graph should have, numbered in the order of the program  *)
(* text: 2 * i for a node i that has one, 2 * i - 1 for the statement that *)
(* a node i of the program is put below.                                   *)
NodeVertex(i)      == 2 * i
StatementVertex(i) == 2 * i - 1

Drawn    == {i \in DOMAIN tree : tree[i].kind \in InnerKinds \cup LeafKinds}
Tops     == {tree[1].kids[c] : c \in DOMAIN tree[1].kids}
Vertices == {NodeVertex(i) : i \in Drawn} \cup {StatementVertex(i) : i \in Tops}

(* The vertices of the nodes around node i.                                *)
Around(i) ==
  {NodeVertex(j) : j \in {k \in Drawn : k < i /\ i <= tree[k].last}}
  \cup {StatementVertex(j) : j \in {k \in Tops : k <= i /\ i <= tree[k].last}}

Place(v)   == 1 + Cardinality({u \in Vertices : u < v})
NameAt(v)  == printed[Place(v)].name
Nearest(i) == CHOOSE v \in Around(i) : \A u \in Around(i) : u <= v

(* A graph that was printed is the tree: a vertex for each node that has   *)
(* one, in the order of the program text, below the vertex of the nearest  *)
(* node around it; and no others.                                          *)
GraphMirrorsTree ==
  status = "0" /\ Option = "-graph" =>
    /\ Len(printed) = Cardinality(Vertices)
    /\ \A i \in Drawn : /\ NameAt(NodeVertex(i))[1] = Word(tree[i])
                        /\ printed[Place(NodeVertex(i))].parent = NameAt(Nearest(i))
    /\ \A i \in Tops : /\ NameAt(StatementVertex(i))[1] = "Statement"
                       /\ printed[Place(StatementVertex(i))].parent = <<"Program">>

=============================================================================
