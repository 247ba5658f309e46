----------------------------- MODULE LexicalEnv -----------------------------
(***************************************************************************)
(* What a symbol table promises its clients, without tables or parent      *)
(* pointers: at every moment each name has at most one visible binding of  *)
(* each kind; a declaration is seen at once and shadows what was visible;  *)
(* the first declaration of a name in a scope stands; leaving a scope      *)
(* restores exactly the bindings that were visible when it was entered.    *)
(* SymTab implements this specification.                                   *)
(***************************************************************************)
EXTENDS Naturals, Sequences, SequencesExt

CONSTANTS Kinds, Idents, Values, Null

VARIABLES
  visible,   \* the binding each name has, for each kind
  declared,  \* what each name was declared as in the innermost scope, if it was
  saved      \* what was visible and declared when each open scope was entered

envVars == <<visible, declared, saved>>

Nothing == [k \in Kinds |-> [n \in Idents |-> Null]]

Init ==
  /\ visible = Nothing
  /\ declared = Nothing
  /\ saved = <<>>

Declare(k, n, v) ==
  /\ declared[k][n] = Null
  /\ visible' = [visible EXCEPT ![k][n] = v]
  /\ declared' = [declared EXCEPT ![k][n] = v]
  /\ UNCHANGED saved

Enter ==
  /\ saved' = Append(saved, [visible |-> visible, declared |-> declared])
  /\ declared' = Nothing
  /\ UNCHANGED visible

Leave ==
  /\ saved # <<>>
  /\ visible' = Last(saved).visible
  /\ declared' = Last(saved).declared
  /\ saved' = Front(saved)

Next ==
  \/ \E k \in Kinds, n \in Idents, v \in Values : Declare(k, n, v)
  \/ Enter
  \/ Leave

Spec == Init /\ [][Next]_envVars
=============================================================================
