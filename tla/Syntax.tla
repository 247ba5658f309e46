------------------------------- MODULE Syntax --------------------------------
(***************************************************************************)
(* The grammar of the language that the parser reads, context-free, and    *)
(* what can begin its strings.                                             *)
(*                                                                         *)
(* The grammar of expressions has a nonterminal for each precedence, so a  *)
(* derivation says what the operands of an operator are.  The symbols      *)
(* "Mul", "Add" and "Cmp" derive nothing; each stands where the operands   *)
(* of an operator of its precedence are complete.                          *)
(***************************************************************************)
EXTENDS Naturals, Sequences

Terminals == {"NAME", "CONST", "MULT", "PLUS", "MINUS", "LT", "ASSIGN", "OBRACE",
              "CBRACE", "OCBRACE", "CCBRACE", "COMMA", "COLON", "SEMICOLON",
              "RETTYPE", "FUNCTION", "EXTERN", "VAR", "IF", "ELSE", "FOR",
              "RETURN", "END"}

Header   == <<"FUNCTION", "NAME", "OBRACE", "Params", "RETTYPE", "NAME">>
Variable == <<"VAR", "NAME", "COLON", "NAME", "ASSIGN", "Expr", "SEMICOLON">>

Productions ==
  [Program  |-> {<<>>, Header \o <<"Block", "Program">>,
                 <<"EXTERN">> \o Header \o <<"SEMICOLON", "Program">>,
                 Variable \o <<"Program">>, <<"Expr", "SEMICOLON", "Program">>},
   Params   |-> {<<"CBRACE">>, <<"Param", "CBRACE">>},
   Param    |-> {<<"NAME", "MoreParams">>},
   MoreParams |-> {<<>>, <<"COMMA", "Param">>},
   Block    |-> {<<"OCBRACE", "Stmts", "CCBRACE">>},
   Stmts    |-> {<<>>, Variable \o <<"Stmts">>, <<"Expr", "SEMICOLON", "Stmts">>,
                 <<"IF", "OBRACE", "Expr", "CBRACE", "Block", "Else", "Stmts">>,
                 <<"FOR", "OBRACE", "NAME", "ASSIGN", "Expr", "SEMICOLON", "Expr",
                   "SEMICOLON", "Expr", "CBRACE", "Block", "Stmts">>,
                 <<"RETURN", "Value", "Stmts">>},
   Else     |-> {<<>>, <<"ELSE", "Block">>},
   Value    |-> {<<"SEMICOLON">>, <<"Expr", "SEMICOLON">>},
   Expr     |-> {<<"Prim", "MulRest", "AddRest", "CmpRest">>},
   MulRest  |-> {<<>>, <<"MULT", "Prim", "Mul", "MulRest">>},
   AddRest  |-> {<<>>} \cup {<<op, "Prim", "MulRest", "Add", "AddRest">> :
                               op \in {"PLUS", "MINUS"}},
   CmpRest  |-> {<<>>, <<"LT", "Prim", "MulRest", "AddRest", "Cmp", "CmpRest">>},
   Mul |-> {<<>>}, Add |-> {<<>>}, Cmp |-> {<<>>},
   Prim     |-> {<<"CONST">>, <<"NAME", "NameRest">>, <<"MINUS", "Prim">>,
                 <<"OBRACE", "Expr", "CBRACE">>},
   NameRest |-> {<<>>, <<"ASSIGN", "Expr">>, <<"OBRACE", "Expr", "Args">>},
   Args     |-> {<<"CBRACE">>, <<"COMMA", "Expr", "Args">>}]

Nonterminals == DOMAIN Productions
Symbols      == Terminals \cup Nonterminals
Nullable     == {X \in Nonterminals : <<>> \in Productions[X]}

(* What can come first in a string, given what can come first in a symbol. *)
StartsOf(first, s) ==
  UNION {first[s[i]] : i \in {j \in DOMAIN s : \A k \in 1..(j - 1) : s[k] \in Nullable}}

(* What can come first in a symbol, one production further than is known.  *)
Further(first) ==
  [X \in Symbols |->
     IF X \in Terminals THEN {X}
     ELSE UNION {StartsOf(first, p) : p \in Productions[X]}]

(* First[X]: the tokens that a string derived from X can begin with.  No   *)
(* chain of productions leads through more than three nonterminals.        *)
First == Further(Further(Further(Further([X \in Symbols |-> {}]))))

(* The productions of a nonterminal that go on with a token.               *)
Predicted ==
  [X \in Nonterminals |->
     [t \in Terminals |-> {p \in Productions[X] : t \in StartsOf(First, p)}]]

(* Symbols that derive nothing are dropped when the next token cannot      *)
(* begin them.  A token that nothing can consume leaves the input stuck.   *)
Stuck == <<"stuck">>

Settle(s, token) ==
  LET Stays(X) == X \notin Nullable \/ token \in First[X]
      i == CHOOSE j \in DOMAIN s : Stays(s[j]) /\ \A k \in 1..(j - 1) : ~Stays(s[k])
  IN IF \A j \in DOMAIN s : ~Stays(s[j]) THEN <<>>
     ELSE IF token \in First[s[i]] THEN SubSeq(s, i, Len(s))
     ELSE Stuck
=============================================================================
