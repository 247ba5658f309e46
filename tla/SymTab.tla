------------------------------- MODULE SymTab -------------------------------
(***************************************************************************)
(* src/symtab.cc and src/symtab.h: the process-wide stack of symbol tables *)
(* and its operations, driven by an arbitrary client.                      *)
(***************************************************************************)
EXTENDS Scopes

CONSTANTS
  Values,   \* what the maps point to: allocas, constants, functions, types
  MaxDepth  \* bound on the number of open scopes

ASSUME NullAssumption == Null \notin Values

VARIABLES
  symtab_stack,  \* the stack; its last element is the current scope
  status         \* "aborted" once exitScope ran into its assert(false)

vars == <<symtab_stack, status>>

(* initSymbolTable, called once by Core::initCompiler.                     *)
Init ==
  /\ symtab_stack = <<EmptyTable>>
  /\ status = "running"

EnterScope ==
  /\ status = "running"
  /\ Len(symtab_stack) < MaxDepth
  /\ symtab_stack' = Entered(symtab_stack)
  /\ UNCHANGED status

(* Wrong: the top level is popped like any other.                          *)
ExitTopLevelPops ==
  /\ status = "running"
  /\ Len(symtab_stack) = 1
  /\ symtab_stack' = Exited(symtab_stack)
  /\ UNCHANGED status

(* The top level is not popped: the process reports it and aborts.         *)
ExitTopLevel ==
  /\ status = "running"
  /\ Len(symtab_stack) = 1
  /\ status' = "aborted"
  /\ UNCHANGED symtab_stack

ExitScope ==
  /\ status = "running"
  /\ Len(symtab_stack) # 1
  /\ symtab_stack' = Exited(symtab_stack)
  /\ UNCHANGED status

Add(k, n, v) ==
  /\ status = "running"
  /\ symtab_stack' = Added(symtab_stack, k, n, v)
  /\ UNCHANGED status

Next ==
  \/ EnterScope
  \/ ExitTopLevel
  \/ ExitScope
  \/ \E k \in Kinds, n \in Idents, v \in Values : Add(k, n, v)

Spec == Init /\ [][Next]_vars
-----------------------------------------------------------------------------
(* The stack is a non-empty stack of tables: symtab_stack.top(), which     *)
(* every operation dereferences, is defined (symtab.cc:128).               *)
TypeOK ==
  /\ symtab_stack \in Seq(Tables(Values))
  /\ Len(symtab_stack) >= 1
  /\ status \in {"running", "aborted"}

(* A name bound at the top level keeps that first binding for the rest of  *)
(* the run, whatever scopes are opened and closed above it: functions are  *)
(* registered there (funcdef.cc:17) and looked up by raw pointer for as    *)
(* long as the program is compiled.                                        *)
GlobalBindingsStand ==
  [][\A k \in Kinds, n \in Idents :
       symtab_stack[1][k][n] # Null
         => symtab_stack'[1][k][n] = symtab_stack[1][k][n]]_vars

(* Lookup from the top of the stack downwards is a lexical environment:    *)
(* what a scope declared disappears with it and what it shadowed comes     *)
(* back.                                                                   *)
At(stk, lvl) ==
  [visible  |-> [k \in Kinds |-> [n \in Idents |-> FindFrom(stk, lvl, k, n)]],
   declared |-> stk[lvl]]

Env == INSTANCE LexicalEnv WITH
  visible  <- At(symtab_stack, Len(symtab_stack)).visible,
  declared <- At(symtab_stack, Len(symtab_stack)).declared,
  saved    <- [i \in 1..(Len(symtab_stack) - 1) |-> At(symtab_stack, i)]

ImplementsLexicalEnv == Env!Spec
=============================================================================
