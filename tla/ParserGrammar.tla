---------------------------- MODULE ParserGrammar ----------------------------
(***************************************************************************)
(* That the parser implements the grammar: what its calls still have to do *)
(* read as symbols of the grammar.  Its error handling, its tests of the   *)
(* look-ahead and the loops of binOpRHS must not show.                     *)
(***************************************************************************)
EXTENDS Parser, Syntax

(* The operators of precedence lo to hi, as what is left of terms.         *)
Rests(lo, hi) ==
  (IF 13 \in lo..hi THEN <<"MulRest">> ELSE <<>>) \o
  (IF 12 \in lo..hi THEN <<"AddRest">> ELSE <<>>) \o
  (IF 10 \in lo..hi THEN <<"CmpRest">> ELSE <<>>)

Complete(n) == CASE n = 13 -> <<"Mul">> [] n = 12 -> <<"Add">> [] OTHER -> <<"Cmp">>

(* The operators that are left to the loop an item is followed by: those   *)
(* not taken by the item, if it is a loop that the other waits for.        *)
Highest(item) ==
  CASE item.op = "inner" -> item.n
    [] item.op = "rhs" /\ item.n > 0 -> item.n - 1
    [] OTHER -> 15

(* The calls with a nonterminal of their own; some others derive nothing.  *)
Derived ==
  [program |-> <<"Program">>, block |-> <<"Block">>, stmts |-> <<"Stmts">>,
   retval |-> <<"Value">>, else |-> <<"Else">>, params |-> <<"Params">>,
   param |-> <<"Param">>, moreparams |-> <<"MoreParams">>, expr |-> <<"Expr">>,
   prim |-> <<"Prim">>, name |-> <<"NameRest">>, args |-> <<"Args">>]

Deriving == DOMAIN Derived

SymbolsOf(item, highest) ==
  CASE item.op = "expect" -> <<item.tok>>
    [] item.op = "rhs"    -> Rests(item.n, highest)
    [] item.op = "inner"  -> Rests(item.n + 1, highest) \o Complete(item.n)
    [] item.op \in Deriving -> Derived[item.op]
    [] OTHER -> <<>>

(* What the items of a list derive: those behind the first one, and all.   *)
Behind[s \in Seq(Items)] ==
  IF Len(s) < 2 THEN <<>> ELSE SymbolsOf(s[2], Highest(s[1])) \o Behind[Tail(s)]

Words(s) == IF s = <<>> THEN <<>> ELSE SymbolsOf(s[1], 15) \o Behind[s]

Outcome ==
  IF errors = "some" \/ (status = "exit" /\ Head(todo).op = "prim") THEN "error"
  ELSE CASE status \in {"exit", "abort"} -> "refused"
         [] status = "parsed" -> "sentence"
         [] OTHER -> "reading"

Reading == Outcome \in {"reading", "sentence"}

(* The tokens that were read, but for the look-ahead if it is one.         *)
Consumed == IF ~Reading THEN 0
            ELSE MaxTokens - left + past - (IF look = "END" THEN 0 ELSE 1)

Token == CASE ~Reading -> "END"
           [] Reading /\ look \in Identifiers -> "NAME"
           [] OTHER -> look

Pending == IF Reading THEN Settle(Words(todo), Token) ELSE <<>>

Language == INSTANCE Grammar
  WITH stack <- Pending, look <- Token, read <- Consumed, verdict <- Outcome

(* The parser accepts the sentences of the grammar and nothing else, with  *)
(* the operands the grammar gives every operator: * and / before + and -   *)
(* before < and >, each associating to the left.  It reports an error no   *)
(* later than at the first token with which no sentence goes on, before it *)
(* consumes another, and never while the input may still become one.       *)
ImplementsGrammar == Language!Spec
=============================================================================
