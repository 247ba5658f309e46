------------------------------- MODULE Parser -------------------------------
(***************************************************************************)
(* src/parser.cc: the recursive-descent parser with one token of look-     *)
(* ahead, reading an arbitrary sequence of tokens.                         *)
(*                                                                         *)
(* The C++ call stack is the sequence "todo": what the active calls still  *)
(* have to do, the next thing first.  A routine is the sequence of things  *)
(* it does; a step does the first of them.  The syntax tree is left out,   *)
(* but for the flags of its blocks.                                        *)
(*                                                                         *)
(* Tokens are classes: "CONST" is any number, "MULT" stands for * and /,   *)
(* "LT" for < and >.  Programs have two identifiers: "TYPE" is one that    *)
(* names a type (double or int), "NAME" one that does not.                 *)
(***************************************************************************)
EXTENDS Integers, Sequences

CONSTANTS
  Tokens,    \* the token classes the input is made of
  MaxTokens  \* bound on the length of the input

AllTokens == {"NAME", "TYPE", "CONST", "MULT", "PLUS", "MINUS", "LT", "ASSIGN",
              "OBRACE", "CBRACE", "OCBRACE", "CCBRACE", "COMMA", "COLON",
              "SEMICOLON", "RETTYPE", "FUNCTION", "EXTERN", "VAR", "IF",
              "ELSE", "FOR", "RETURN"}

ASSUME TokensAssumption == Tokens \subseteq AllTokens /\ MaxTokens \in Nat \ {0}

VARIABLES
  look,    \* the look-ahead token
  left,    \* how many tokens the input may still have
  past,    \* how often the scanner was called after it had returned END
  todo,    \* what is left to do, innermost call first
  flags,   \* the parser's FLAG_UNREACHABLE: "clear" or "set"
  fun,     \* name and number of parameters of the declaration being parsed
  type,    \* the lexeme taken for a type name
  defs,    \* the functions in the symbol table: their number of parameters
  opened,  \* parentheses and braces consumed and not closed yet
  errors,  \* whether an "unexpected symbol" was reported
  status   \* "running", "parsed", "exit" (exit(-1)) or "abort" (assert)

vars == <<look, left, past, todo, flags, fun, type, defs, opened, errors, status>>

Identifiers == {"NAME", "TYPE"}
Undefined == -1

Item(op)    == [op |-> op, tok |-> "", n |-> 0, want |-> 0]
Expect(tok) == [Item("expect") EXCEPT !.tok = tok]
-----------------------------------------------------------------------------
(* The routines that do the same things whatever the look-ahead is.        *)

ExprStmt == <<Item("expr"), Expect("SEMICOLON")>>

(* Wrong: the parenthesis of the condition is not closed.                  *)
IfStmtUnclosed ==
  <<Expect("IF"), Expect("OBRACE"), Item("expr"), Item("block"), Item("else")>>

IfStmt ==
  <<Expect("IF"), Expect("OBRACE"), Item("expr"), Expect("CBRACE"),
    Item("block"), Item("else")>>

ForStmt ==
  <<Expect("FOR"), Expect("OBRACE"), Expect("NAME"), Expect("ASSIGN"),
    Item("expr"), Expect("SEMICOLON"), Item("expr"), Expect("SEMICOLON"),
    Item("expr"), Expect("CBRACE"), Item("block")>>

VarDecl ==
  <<Expect("VAR"), Expect("NAME"), Expect("COLON"), Item("typename"),
    Expect("NAME"), Expect("ASSIGN"), Item("expr"), Expect("SEMICOLON"),
    Item("typecheck")>>

FunctionDecl ==
  <<Expect("FUNCTION"), Item("funname"), Expect("NAME"), Expect("OBRACE"),
    Item("params"), Expect("RETTYPE"), Item("typename"), Expect("NAME"),
    Item("typecheck")>>

FunctionDef == FunctionDecl \o <<Item("define"), Item("block")>>

ExternDef ==
  <<Expect("EXTERN")>> \o FunctionDecl \o <<Item("define"), Expect("SEMICOLON")>>

(* The n of "stmts" is 0, 1 after a return statement of the block itself,  *)
(* 2 once another statement has followed.                                  *)
BlockBody ==
  <<Expect("OCBRACE"), Item("stmts"), Expect("CCBRACE"), Item("endblock")>>

(* Wrong: minus has the precedence of the operators that bind tighter.     *)
PrecedenceOfMinus(tok) ==
  CASE tok \in {"MULT", "MINUS"} -> 13
    [] tok = "PLUS" -> 12
    [] tok = "LT" -> 10
    [] OTHER -> -1

(* binOpRHS's precedences; -1 for anything that is not an operator.        *)
Precedence(tok) ==
  CASE tok = "MULT" -> 13
    [] tok \in {"PLUS", "MINUS"} -> 12
    [] tok = "LT" -> 10
    [] OTHER -> -1
-----------------------------------------------------------------------------
Init ==
  /\ look \in Tokens \cup {"END"}
  /\ left = IF look = "END" THEN MaxTokens ELSE MaxTokens - 1
  /\ past = 0
  /\ todo = <<Item("program"), Expect("END")>>
  /\ flags = "clear"
  /\ fun = [name |-> "", arity |-> 0]
  /\ type = ""
  /\ defs = [id \in Identifiers |-> Undefined]
  /\ opened = [paren |-> 0, brace |-> 0]
  /\ errors = "none"
  /\ status = "running"

Doing(op) == status = "running" /\ todo # <<>> /\ Head(todo).op = op

(* What the innermost call does next is replaced by these items.           *)
Then(items) == todo' = items \o Tail(todo)

(* Wrong: tokens are taken from an input that has none left.               *)
AdvanceBeyond ==
  /\ look' \in Tokens \cup {"END"}
  /\ left' = left - 1
  /\ UNCHANGED <<past, opened>>

(* next(): the scanner goes on returning END at the end of the input.      *)
Advance ==
  /\ look' \in IF look = "END" \/ left = 0 THEN {"END"} ELSE Tokens \cup {"END"}
  /\ left' = IF look' = "END" THEN left ELSE left - 1
  /\ past' = IF look = "END" THEN past + 1 ELSE past
  /\ opened' = [paren |-> opened.paren + (CASE look = "OBRACE" -> 1
                                            [] look = "CBRACE" -> -1
                                            [] OTHER -> 0),
                brace |-> opened.brace + (CASE look = "OCBRACE" -> 1
                                            [] look = "CCBRACE" -> -1
                                            [] OTHER -> 0)]

input == <<look, left, past, opened>>
names == <<fun, type, defs>>

Halt(how) ==
  /\ status' = how
  /\ UNCHANGED <<input, todo, flags, names, errors>>

(* Is the look-ahead this token?  "TYPE" is an identifier like any other.  *)
Sees(tok) == look = tok \/ (tok = "NAME" /\ look \in Identifiers)

(* Wrong: the unexpected token is dropped.                                 *)
ExpectDrops ==
  /\ Doing("expect")
  /\ Then(<<>>)
  /\ Advance
  /\ errors' = IF Sees(Head(todo).tok) THEN errors ELSE "some"
  /\ UNCHANGED <<flags, names, status>>

(* expect(): a mismatch is reported and the parser goes on as if the token *)
(* had been there; it is not consumed.                                     *)
ExpectStep ==
  /\ Doing("expect")
  /\ Then(<<>>)
  /\ \/ /\ Sees(Head(todo).tok)
        /\ Advance
        /\ UNCHANGED errors
     \/ /\ ~Sees(Head(todo).tok)
        /\ errors' = "some"
        /\ UNCHANGED input
  /\ UNCHANGED <<flags, names, status>>

(* Each of these goes on according to the look-ahead and consumes nothing. *)
ProgramStep ==
  /\ Doing("program")
  /\ Then(CASE look = "END"      -> <<>>
            [] look = "FUNCTION" -> FunctionDef \o <<Item("program")>>
            [] look = "EXTERN"   -> ExternDef \o <<Item("program")>>
            [] look = "VAR"      -> VarDecl \o <<Item("program")>>
            [] OTHER             -> ExprStmt \o <<Item("program")>>)
  /\ UNCHANGED <<input, flags, names, errors, status>>

(* Wrong: unreachability is not cleared on entering a block.               *)
BlockKeepsFlags ==
  /\ Doing("block")
  /\ Then(BlockBody)
  /\ UNCHANGED <<input, flags, names, errors, status>>

Block ==
  /\ Doing("block")
  /\ flags' = "clear"
  /\ Then(BlockBody)
  /\ UNCHANGED <<input, names, errors, status>>

Stmts ==
  /\ Doing("stmts")
  /\ LET n    == Head(todo).n
         rest == <<[Head(todo) EXCEPT !.n = IF n = 0 THEN 0 ELSE 2]>>
     IN Then(CASE look \in {"CCBRACE", "END"} -> <<>>
               [] look = "VAR"    -> VarDecl \o rest
               [] look = "IF"     -> IfStmt \o rest
               [] look = "FOR"    -> ForStmt \o rest
               [] look = "RETURN" ->
                    <<Expect("RETURN"), Item("retval"), Item("returned"),
                      [Head(todo) EXCEPT !.n = IF n = 0 THEN 1 ELSE 2]>>
               [] OTHER           -> ExprStmt \o rest)
  /\ UNCHANGED <<input, flags, names, errors, status>>

(* Wrong: a return statement always has an expression.                     *)
RetValAlways ==
  /\ Doing("retval")
  /\ Then(ExprStmt)
  /\ UNCHANGED <<input, flags, names, errors, status>>

(* A return statement has an expression unless a semicolon follows.        *)
RetVal ==
  /\ Doing("retval")
  /\ Then(IF look = "SEMICOLON" THEN <<Expect("SEMICOLON")>> ELSE ExprStmt)
  /\ UNCHANGED <<input, flags, names, errors, status>>

Returned ==
  /\ Doing("returned")
  /\ flags' = "set"
  /\ Then(<<>>)
  /\ UNCHANGED <<input, names, errors, status>>

(* The block takes over the parser's flags, which are cleared.             *)
EndBlock ==
  /\ Doing("endblock")
  /\ flags' = "clear"
  /\ Then(<<>>)
  /\ UNCHANGED <<input, names, errors, status>>

Else ==
  /\ Doing("else")
  /\ Then(IF look = "ELSE" THEN <<Expect("ELSE"), Item("block")>> ELSE <<>>)
  /\ UNCHANGED <<input, flags, names, errors, status>>
-----------------------------------------------------------------------------
(* Declarations.  Lexemes are taken from the look-ahead before it is known *)
(* to be an identifier.                                                    *)
FunName ==
  /\ Doing("funname")
  /\ fun' = [name |-> look, arity |-> 0]
  /\ Then(<<>>)
  /\ UNCHANGED <<input, flags, type, defs, errors, status>>

Params ==
  /\ Doing("params")
  /\ \/ /\ look = "CBRACE"
        /\ Advance
        /\ Then(<<>>)
     \/ /\ look # "CBRACE"
        /\ Then(<<Item("param"), Expect("CBRACE")>>)
        /\ UNCHANGED input
  /\ UNCHANGED <<flags, names, errors, status>>

Param ==
  /\ Doing("param")
  /\ fun' = [fun EXCEPT !.arity = @ + 1]
  /\ Then(<<Expect("NAME"), Item("moreparams")>>)
  /\ UNCHANGED <<input, flags, type, defs, errors, status>>

MoreParams ==
  /\ Doing("moreparams")
  /\ \/ /\ look = "COMMA"
        /\ Advance
        /\ Then(<<Item("param")>>)
     \/ /\ look # "COMMA"
        /\ Then(<<>>)
        /\ UNCHANGED input
  /\ UNCHANGED <<flags, names, errors, status>>

TypeName ==
  /\ Doing("typename")
  /\ type' = look
  /\ Then(<<>>)
  /\ UNCHANGED <<input, flags, fun, defs, errors, status>>

(* Core::getTypeByName.                                                    *)
TypeCheck ==
  /\ Doing("typecheck")
  /\ \/ type # "TYPE" /\ Halt("exit")
     \/ /\ type = "TYPE"
        /\ Then(<<>>)
        /\ UNCHANGED <<input, flags, names, errors, status>>

(* FunctionDef's constructor: the first definition of a name stands.       *)
Define ==
  /\ Doing("define")
  /\ defs' = IF fun.name \in Identifiers /\ defs[fun.name] = Undefined
             THEN [defs EXCEPT ![fun.name] = fun.arity] ELSE defs
  /\ Then(<<>>)
  /\ UNCHANGED <<input, flags, fun, type, errors, status>>
-----------------------------------------------------------------------------
(* Expressions.                                                            *)
Expr ==
  /\ Doing("expr")
  /\ Then(<<Item("prim"), Item("rhs")>>)
  /\ UNCHANGED <<input, flags, names, errors, status>>

(* The outer loop of binOpRHS; n is minPrec.                               *)
Rhs ==
  /\ Doing("rhs")
  /\ \/ /\ Precedence(look) >= Head(todo).n
        /\ Advance
        /\ Then(<<Item("prim"), [Item("inner") EXCEPT !.n = Precedence(look)],
                  Head(todo)>>)
     \/ /\ Precedence(look) < Head(todo).n
        /\ Then(<<>>)
        /\ UNCHANGED input
  /\ UNCHANGED <<flags, names, errors, status>>

(* Wrong: an operator of the same precedence is taken for a tighter one.   *)
InnerNotStrict ==
  /\ Doing("inner")
  /\ Then(IF Precedence(look) >= Head(todo).n
          THEN <<[Item("rhs") EXCEPT !.n = Precedence(look)], Head(todo)>>
          ELSE <<>>)
  /\ UNCHANGED <<input, flags, names, errors, status>>

(* Its inner loop; n is the precedence of the operator just consumed.      *)
Inner ==
  /\ Doing("inner")
  /\ Then(IF Precedence(look) > Head(todo).n
          THEN <<[Item("rhs") EXCEPT !.n = Precedence(look)], Head(todo)>>
          ELSE <<>>)
  /\ UNCHANGED <<input, flags, names, errors, status>>

(* Wrong: a syntax error is reported but does not end the program.         *)
PrimGoesOn ==
  /\ Doing("prim")
  /\ Then(<<>>)
  /\ \/ look \in {"CONST", "MINUS", "OBRACE"} \cup Identifiers /\ Advance
     \/ look \notin {"CONST", "MINUS", "OBRACE"} \cup Identifiers /\ UNCHANGED input
  /\ UNCHANGED <<flags, names, errors, status>>

Prim ==
  /\ Doing("prim")
  /\ \/ /\ look \in {"CONST", "MINUS", "OBRACE"} \cup Identifiers
        /\ Advance
        /\ Then(CASE look = "CONST"  -> <<>>
                  [] look = "MINUS"  -> <<Item("prim")>>
                  [] look = "OBRACE" -> <<Item("expr"), Expect("CBRACE")>>
                  [] OTHER -> <<[Item("name") EXCEPT !.tok = look]>>)
        /\ UNCHANGED <<flags, names, errors, status>>
     \/ /\ look \notin {"CONST", "MINUS", "OBRACE"} \cup Identifiers
        /\ Halt("exit")

(* After an identifier: a call, an assignment or a variable.  The callee   *)
(* has to be defined.                                                      *)
Name ==
  /\ Doing("name")
  /\ LET def == defs[Head(todo).tok] IN
     \/ /\ look = "OBRACE" /\ def = Undefined
        /\ Halt("abort")
     \/ /\ look = "OBRACE" /\ def # Undefined
        /\ Then(<<Expect("OBRACE"), Item("expr"),
                  [Item("args") EXCEPT !.n = 1, !.want = def]>>)
        /\ UNCHANGED <<input, flags, names, errors, status>>
     \/ /\ look = "ASSIGN"
        /\ Advance
        /\ Then(<<Item("expr")>>)
        /\ UNCHANGED <<flags, names, errors, status>>
     \/ /\ look \notin {"OBRACE", "ASSIGN"}
        /\ Then(<<>>)
        /\ UNCHANGED <<input, flags, names, errors, status>>

(* After n arguments of a call that wants "want".                          *)
Args ==
  /\ Doing("args")
  /\ \/ /\ look = "COMMA"
        /\ Advance
        /\ Then(<<Item("expr"), [Head(todo) EXCEPT !.n = @ + 1]>>)
     \/ /\ look # "COMMA"
        /\ Then(<<Expect("CBRACE"), [Head(todo) EXCEPT !.op = "checkargs"]>>)
        /\ UNCHANGED input
  /\ UNCHANGED <<flags, names, errors, status>>

CheckArgs ==
  /\ Doing("checkargs")
  /\ \/ Head(todo).n # Head(todo).want /\ Halt("abort")
     \/ /\ Head(todo).n = Head(todo).want
        /\ Then(<<>>)
        /\ UNCHANGED <<input, flags, names, errors, status>>
-----------------------------------------------------------------------------
(* parse() returns the program, whether or not errors were reported.       *)
Parsed ==
  /\ status = "running" /\ todo = <<>>
  /\ status' = "parsed"
  /\ UNCHANGED <<input, todo, flags, names, errors>>

Step ==
  \/ ExpectStep \/ ProgramStep
  \/ Block \/ Stmts \/ RetVal \/ Returned \/ EndBlock \/ Else
  \/ FunName \/ Params \/ Param \/ MoreParams
  \/ TypeName \/ TypeCheck \/ Define
  \/ Expr \/ Rhs \/ Inner \/ Prim \/ Name \/ Args \/ CheckArgs
  \/ Parsed

Stopped == status # "running" /\ UNCHANGED vars

Next == Step \/ Stopped

(* The parser is a sequential program: it keeps taking steps.              *)
Spec == Init /\ [][Next]_vars /\ WF_vars(Step)
-----------------------------------------------------------------------------
Ops == {"expect", "program", "block", "stmts", "retval", "returned", "endblock",
        "else", "funname", "params", "param", "moreparams", "typename",
        "typecheck", "define", "expr", "rhs", "inner", "prim", "name", "args",
        "checkargs"}

Items == [op : Ops, tok : AllTokens \cup {"END", ""}, n : Nat, want : Nat]

TypeOK ==
  /\ look \in Tokens \cup {"END"}
  /\ left \in 0..MaxTokens
  /\ past \in Nat
  /\ todo \in Seq(Items)
  /\ flags \in {"clear", "set"}
  /\ fun \in [name : Tokens \cup {"END", ""}, arity : Nat]
  /\ type \in Tokens \cup {"END", ""}
  /\ defs \in [Identifiers -> Nat \cup {Undefined}]
  /\ opened \in [paren : Int, brace : Int]
  /\ errors \in {"none", "some"}
  /\ status \in {"running", "parsed", "exit", "abort"}

(* However the input is cut off or garbled, and though a missing symbol is *)
(* only reported and nothing is skipped to recover, the parser stops: no   *)
(* loop of program(), block() or an argument list goes round without       *)
(* consuming a token.                                                      *)
Termination == <>(status # "running")

(* Every token has been consumed when parse() returns, and the end of the  *)
(* input was consumed as the very last thing: the scanner, which replaces  *)
(* its END token each time it returns one (scanner.cc), is asked for a     *)
(* token behind the end only once.                                         *)
EndReadOnce ==
  /\ past <= 1
  /\ past = 1 => todo = <<>> /\ look = "END"
  /\ status = "parsed" => past = 1

(* The loops of binOpRHS under way inside each other wait for operators    *)
(* that bind looser and looser from the innermost outwards, so that no     *)
(* operand is taken from a tighter operator, and an operator of the same   *)
(* precedence is left to the loop outside: operators of one precedence     *)
(* associate to the left.  Only the value of an assignment, an expr() of   *)
(* its own whose loop waits for any operator, stands inside a tighter one. *)
PrecedenceNests ==
  \A i \in 1..(Len(todo) - 1) :
    /\ todo[i].op = "rhs" /\ todo[i + 1].op = "inner" =>
         todo[i].n > todo[i + 1].n \/ todo[i].n = 0
    /\ todo[i].op = "inner" => todo[i + 1].op = "rhs" /\ todo[i].n >= todo[i + 1].n

(* An input that is parsed without a report is balanced: no construct      *)
(* leaves a parenthesis or brace to its neighbours.                        *)
BalancedWhenParsed ==
  status = "parsed" /\ errors = "none" => opened.paren = 0 /\ opened.brace = 0

(* FLAG_UNREACHABLE never leaks out of the block whose return set it: not  *)
(* into a nested block, the enclosing block or the next function.  While   *)
(* it is set the innermost block has had a return statement of its own.    *)
FlagsAreLocal ==
  flags = "set" =>
    \E i \in DOMAIN todo :
      /\ \/ todo[i].op = "endblock"
         \/ todo[i].op = "stmts" /\ todo[i].n > 0
      /\ \A j \in 1..(i - 1) : todo[j].op \notin {"stmts", "endblock"}
-----------------------------------------------------------------------------
(* Statements the repository makes that the code does not keep.            *)

(* parser.cc:343: "remember if this block contains unreachable statements  *)
(* (due to return)": at the end of a block in which a statement follows a  *)
(* return the flag is set.                                                 *)
UnreachableRemembered ==
  Doing("stmts") /\ look = "CCBRACE" /\ Head(todo).n = 2 => flags = "set"
=============================================================================
