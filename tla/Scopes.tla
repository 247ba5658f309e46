------------------------------- MODULE Scopes -------------------------------
(***************************************************************************)
(* The data structure of src/symtab.cc: a stack of SymbolTable objects.    *)
(* Each object holds one std::map per kind of name. Its parent pointer is  *)
(* not kept: enterScope sets it to the table on top (symtab.cc:132), which *)
(* is the table just below it for as long as it lives. A map is a total    *)
(* function to values or Null; Null stands for "count(name) == 0" as well  *)
(* as for the nullptr that the find functions return. The operators are    *)
(* used by SymTab, which is the component on its own, and by Codegen, its  *)
(* client.                                                                 *)
(***************************************************************************)
EXTENDS Naturals, Sequences, SequencesExt

CONSTANTS
  Kinds,   \* the maps of a SymbolTable: variables, constants, functions, types
  Idents,  \* the identifiers of the source program
  Null     \* nullptr

(* A SymbolTable object whose maps hold values of V.                       *)
Tables(V) == [Kinds -> [Idents -> V \cup {Null}]]

(* A freshly constructed SymbolTable.                                      *)
EmptyTable == [k \in Kinds |-> [n \in Idents |-> Null]]

(* The levels, up to lvl, whose map of kind k has an entry for n.          *)
Holders(stk, lvl, k, n) == {i \in 1..lvl : stk[i][k][n] # Null}

(* A wrong lookup that starts at the bottom of the stack.                  *)
FindFromBottom(stk, lvl, k, n) ==
  IF Holders(stk, lvl, k, n) = {}
  THEN Null
  ELSE stk[Min(Holders(stk, lvl, k, n))][k][n]

(* findVariable, findFunction, ...: climb from the table at level lvl to   *)
(* the one below and on; the first table that has the name answers.        *)
FindFrom(stk, lvl, k, n) ==
  IF Holders(stk, lvl, k, n) = {}
  THEN Null
  ELSE stk[Max(Holders(stk, lvl, k, n))][k][n]

(* The find functions as every caller uses them, on getSymbolTable().      *)
Find(stk, k, n) == FindFrom(stk, Len(stk), k, n)

(* Wrong additions: the last definition wins; the bottom table gets it.    *)
AddedLastWins(stk, k, n, v) == [stk EXCEPT ![Len(stk)][k][n] = v]
AddedAtBottom(stk, k, n, v) ==
  IF stk[1][k][n] # Null THEN stk ELSE [stk EXCEPT ![1][k][n] = v]

(* addVariable, addConstant, addFunction, addType on getSymbolTable(): a   *)
(* name the top table already has is reported and left as it is.           *)
Added(stk, k, n, v) ==
  IF stk[Len(stk)][k][n] # Null
  THEN stk
  ELSE [stk EXCEPT ![Len(stk)][k][n] = v]

(* A scope that is not opened, or not closed.                              *)
ScopeUnchanged(stk) == stk

(* The pushes and pops of enterScope and exitScope.                        *)
Entered(stk) == Append(stk, EmptyTable)
Exited(stk)  == Front(stk)
=============================================================================
