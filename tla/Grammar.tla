------------------------------- MODULE Grammar -------------------------------
(***************************************************************************)
(* The language as a machine that reads its sentences from left to right:  *)
(* the symbols still to be derived and one token of look-ahead.  How a     *)
(* parser finds its way is left out.                                       *)
(***************************************************************************)
EXTENDS Syntax

VARIABLES
  stack,   \* the symbols that the rest of the input has to be derived from
  look,    \* the next token
  read,    \* how many tokens have been consumed
  verdict  \* "reading", "sentence", "error" (syntax) or "refused" (meaning)

vars == <<stack, look, read, verdict>>
-----------------------------------------------------------------------------
Init ==
  /\ look \in Terminals
  /\ stack = Settle(<<"Program", "END">>, look)
  /\ read = 0
  /\ verdict = "reading"

(* The strings that replacing the first symbol gives and that go on with   *)
(* the next token.                                                         *)
Expansions(s) ==
  IF Head(s) \in Nonterminals
  THEN {p \o Tail(s) : p \in Predicted[Head(s)][look]}
  ELSE {}

(* Symbols are replaced, or a token is consumed, if need be after that.    *)
Expand(s) == UNCHANGED <<look, read>> /\ stack' \in Expansions(s)

Match(s) ==
  /\ read' = read + 1
  /\ look' \in Terminals
  /\ \E t \in {s} \cup Expansions(s) : Head(t) = look /\ stack' = Settle(Tail(t), look')

Read ==
  /\ verdict = "reading" /\ verdict' = "reading"
  /\ LET s == stack IN s \notin {<<>>, Stuck} /\ (Expand(s) \/ Match(s))

Accept ==
  /\ verdict = "reading" /\ verdict' = "sentence"
  /\ stack = <<>>
  /\ UNCHANGED <<stack, look, read>>

(* Nothing is said of what is left of an input that is no sentence.        *)
End(how) == verdict' = how /\ stack' = <<>> /\ look' = "END" /\ read' = 0

(* A syntax error: at the first token that no sentence continues with.     *)
Error == verdict = "reading" /\ End("error") /\ stack = Stuck

(* A check of meaning (types, calls) fails.                                *)
Refuse == verdict = "reading" /\ End("refused")

Next == Read \/ Accept \/ Error \/ Refuse

Spec == Init /\ [][Next]_vars
=============================================================================
