------------------------------ MODULE MCSymTab ------------------------------
(* SymTab with two kinds of names, one identifier and two values: enough   *)
(* for a redefinition to differ from the first definition, for a name to   *)
(* be bound as one kind and free as the other, and, with four levels, for  *)
(* a name to be shadowed, shadowed again and uncovered.                    *)
EXTENDS SymTab

CONSTANTS x, p, q

MCIdents == {x}
MCValues == {p, q}
MCKinds == {"variable", "function"}
=============================================================================
