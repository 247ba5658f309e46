------------------------------- MODULE MCDriver -------------------------------
(* Driver on the trees of small programs.                                  *)
EXTENDS Driver, SequencesExt

(* A node above trees, the numbers in each of which begin with 1; there is *)
(* nothing below a null pointer.                                           *)
Absent == <<>>

Shifted(t, by) ==
  [i \in DOMAIN t |-> [t[i] EXCEPT !.kids = [c \in DOMAIN @ |-> @[c] + by], !.last = @ + by]]

Above(kind, name, args, trees) ==
  LET there == SelectSeq(trees, LAMBDA t : t # Absent)
      end[c \in 0..Len(there)] == IF c = 0 THEN 1 ELSE end[c - 1] + Len(there[c])
  IN <<[kind |-> kind, name |-> name, args |-> args, lacks |-> there # trees,
        kids |-> [c \in DOMAIN there |-> end[c - 1] + 1], last |-> end[Len(there)]]>>
     \o FlattenSeq([c \in DOMAIN there |-> Shifted(there[c], end[c - 1])])

Node(kind, kids) == Above(kind, "other", 0, kids)

Decl == Node("FunctionDecl", <<>>)
Def(name, args, body) == Above("FunctionDef", name, args, <<Decl, body>>)

Var     == Node("VarName", <<>>)
Unbound == Above("VarName", "unbound", 0, <<>>)
Const == Node("IConstant", <<>>)
Float == Node("FConstant", <<>>)
Call  == Node("FunctionCall", <<Const, Node("UnaryOperator", <<Var>>)>>)
Sum   == Node("BinaryOperator", <<Var, Call>>)
Expr(e)  == Node("ExprStatement", <<e>>)
Block(s) == Node("Block", s)

Simple == {Expr(Const), Expr(Sum), Node("RetStatement", <<Float>>),
           Node("RetStatement", <<Absent>>), Node("VarDecl", <<Sum>>)}
Blocks == {Block(<<>>), Block(<<Expr(Const), Expr(Var)>>)} \cup {Block(<<s>>) : s \in Simple}
Nested == {Node("IfStatement", <<Var, b, c>>) : b \in Blocks, c \in Blocks \cup {Absent}}
          \cup {Node("ForStatement", <<Const, Var, Const, b>>) : b \in Blocks}
Bodies == {Block(<<s, t>>) : s \in Simple \cup Nested, t \in Simple}

(* Short sequences of functions, with and without body, the body with and  *)
(* without value, and of top-level code.                                   *)
Short == {Def("main", args, body) : args \in 0..1, body \in {Absent, Block(<<Expr(Call)>>)}}
         \cup {Def("main", 0, body) : body \in {Block(<<>>), Block(<<Expr(Const), Expr(Unbound)>>)}}
         \cup {Def("other", 0, body) : body \in {Absent, Block(<<>>)}}
         \cup {Sum, Node("VarDecl", <<Const>>)}

(* A main that ends in each kind of statement.                             *)
Endings == Simple \cup Nested
           \cup {Node("RetStatement", <<Unbound>>)}
           \cup {Node("IfStatement", <<Unbound, Block(<<>>), Block(<<>>)>>)}

Programs ==
  {Node("Program", nodes) :
     nodes \in {<<Def("other", 1, body)>> : body \in Bodies}
               \cup {<<Def("main", 0, Block(<<Expr(Const), s>>))>> : s \in Endings}
               \cup UNION {[1..n -> Short] : n \in 0..3}}

Lines ==
  {<<>>, <<"-exec">>, <<"-graph", "file">>, <<"-dump", "file">>,
   <<"-exec", "file">>, <<"-exec", "none">>, <<"-help", "file">>,
   <<"-dump", "-exec", "file">>}
=============================================================================
