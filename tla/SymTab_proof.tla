---------------------------- MODULE SymTab_proof ----------------------------
(***************************************************************************)
(* Theorems about SymTab for every set of kinds, identifiers and values    *)
(* and every depth.                                                        *)
(***************************************************************************)
EXTENDS SymTab, Scopes_proof

(* exitScope pops only what enterScope has pushed.                         *)
LEMMA AboveBottom ==
  ASSUME TypeOK, ExitScope
  PROVE  Len(symtab_stack) >= 2
<1>1. PICK depth \in Nat : depth = Len(symtab_stack)
  BY DEF TypeOK
<1> QED
  BY <1>1 DEF TypeOK, ExitScope
-----------------------------------------------------------------------------
(* The stack of symbol tables is never empty and holds only tables, so     *)
(* that symtab_stack.top() in getSymbolTable (symtab.cc:128) is defined.   *)
THEOREM TypeCorrect == Spec => []TypeOK
<1>1. Init => TypeOK
  <2>1. EmptyTable \in Tables(Values)
    BY DEF EmptyTable, Tables
  <2>2. <<EmptyTable>> \in Seq(Tables(Values)) /\ Len(<<EmptyTable>>) = 1
    BY <2>1
  <2> QED
    BY <2>2 DEF Init, TypeOK
<1>2. TypeOK /\ [Next]_vars => TypeOK'
  <2> SUFFICES ASSUME TypeOK, [Next]_vars PROVE TypeOK'
    OBVIOUS
  <2> USE DEF TypeOK
  <2>1. CASE EnterScope
    BY <2>1, EnteredStack DEF EnterScope
  <2>2. CASE ExitTopLevel
    BY <2>2 DEF ExitTopLevel
  <2>3. CASE ExitScope
    BY <2>3, AboveBottom, ExitedStack DEF ExitScope
  <2>4. ASSUME NEW k \in Kinds, NEW n \in Idents, NEW v \in Values,
               Add(k, n, v)
        PROVE  TypeOK'
    BY <2>4, AddedStack DEF Add
  <2>5. CASE UNCHANGED vars
    BY <2>5 DEF vars
  <2> QED
    BY <2>1, <2>2, <2>3, <2>4, <2>5 DEF Next
<1> QED
  BY <1>1, <1>2, PTL DEF Spec

(* The first binding of a name at the top level, where FunctionDef's       *)
(* constructor registers every function (funcdef.cc:17), is never replaced *)
(* or removed.                                                             *)
THEOREM GlobalsStand == Spec => GlobalBindingsStand
<1> DEFINE Stand == \A k \in Kinds, n \in Idents :
                      symtab_stack[1][k][n] # Null
                        => symtab_stack'[1][k][n] = symtab_stack[1][k][n]
<1>1. TypeOK /\ [Next]_vars => [Stand]_vars
  <2> SUFFICES ASSUME TypeOK, Next PROVE Stand
    OBVIOUS
  <2> USE DEF TypeOK
  <2>1. CASE EnterScope
    BY <2>1, EnteredStack DEF EnterScope
  <2>2. CASE ExitTopLevel
    BY <2>2 DEF ExitTopLevel
  <2>3. CASE ExitScope
    BY <2>3, AboveBottom, ExitedStack DEF ExitScope
  <2>4. ASSUME NEW k \in Kinds, NEW n \in Idents, NEW v \in Values,
               Add(k, n, v)
        PROVE  Stand
    BY <2>4, AddedStack DEF Add
  <2> QED
    BY <2>1, <2>2, <2>3, <2>4 DEF Next
<1> QED
  BY <1>1, TypeCorrect, PTL DEF Spec, GlobalBindingsStand
-----------------------------------------------------------------------------
(* What a client can see of the lower levels depends on them only.         *)
LEMMA ViewIsLocal ==
  ASSUME NEW s, NEW t, NEW lvl \in Nat, lvl >= 1,
         \A i \in 1..lvl : s[i] = t[i]
  PROVE  At(s, lvl) = At(t, lvl)
<1>1. s[lvl] = t[lvl]
  OBVIOUS
<1>2. \A k \in Kinds, n \in Idents :
        FindFrom(s, lvl, k, n) = FindFrom(t, lvl, k, n)
  BY LookupIsLocal
<1> QED
  BY <1>1, <1>2 DEF At
-----------------------------------------------------------------------------
(* The stack of tables, searched from its top, implements a lexical        *)
(* environment: what a scope declares shadows what is outside it, the      *)
(* first declaration in a scope stands, and leaving a scope restores       *)
(* exactly what was visible before it was entered.                         *)
THEOREM IsLexicalEnv == Spec => ImplementsLexicalEnv
<1> DEFINE depth == Len(symtab_stack)
<1>1. Init => Env!Init
  <2> SUFFICES ASSUME Init PROVE Env!Init
    OBVIOUS
  <2>1. /\ depth = 1
        /\ symtab_stack[1] = EmptyTable
    BY DEF Init
  <2>2. \A k \in Kinds, n \in Idents : FindFrom(symtab_stack, 1, k, n) = Null
    BY <2>1 DEF FindFrom, Holders, EmptyTable
  <2>4. At(symtab_stack, 1).visible = Env!Nothing
    BY <2>2 DEF At, Env!Nothing
  <2>5. At(symtab_stack, 1).declared = Env!Nothing
    BY <2>1 DEF At, Env!Nothing, EmptyTable
  <2>6. [i \in 1..(depth - 1) |-> At(symtab_stack, i)] = <<>>
    BY <2>1
  <2> QED
    BY <2>1, <2>4, <2>5, <2>6 DEF Env!Init
<1>2. TypeOK /\ [Next]_vars => [Env!Next]_Env!envVars
  <2> SUFFICES ASSUME TypeOK, [Next]_vars PROVE [Env!Next]_Env!envVars
    OBVIOUS
  <2> USE DEF TypeOK
  <2>0. depth \in Nat /\ depth >= 1
    OBVIOUS
  <2>1. CASE EnterScope
    <3>1. /\ Len(symtab_stack') = depth + 1
          /\ \A i \in 1..depth : symtab_stack'[i] = symtab_stack[i]
          /\ symtab_stack'[depth + 1] = EmptyTable
      BY <2>1, EnteredStack DEF EnterScope
    <3>2. \A i \in 1..depth : At(symtab_stack', i) = At(symtab_stack, i)
      BY <2>0, <3>1, ViewIsLocal
    <3>3. \A k \in Kinds, n \in Idents :
            FindFrom(symtab_stack', depth + 1, k, n) = FindFrom(symtab_stack, depth, k, n)
      <4> SUFFICES ASSUME NEW k \in Kinds, NEW n \in Idents
                   PROVE  FindFrom(symtab_stack', depth + 1, k, n)
                            = FindFrom(symtab_stack, depth, k, n)
        OBVIOUS
      <4>1. symtab_stack'[depth + 1][k][n] = Null
        BY <3>1 DEF EmptyTable
      <4>2. FindFrom(symtab_stack', depth + 1, k, n) = FindFrom(symtab_stack', depth, k, n)
        BY <2>0, <4>1, LookupBelowTop
      <4> QED
        BY <2>0, <3>1, <4>2, LookupIsLocal
    <3>4. /\ At(symtab_stack', depth + 1).visible = At(symtab_stack, depth).visible
          /\ At(symtab_stack', depth + 1).declared = Env!Nothing
      BY <3>1, <3>3 DEF At, EmptyTable, Env!Nothing
    <3>5. At(symtab_stack, depth) = [visible  |-> At(symtab_stack, depth).visible,
                                     declared |-> At(symtab_stack, depth).declared]
      BY DEF At
    <3>6. [i \in 1..depth |-> At(symtab_stack', i)] =
            Append([i \in 1..(depth - 1) |-> At(symtab_stack, i)], At(symtab_stack, depth))
      BY <2>0, <3>2
    <3>7. Len(symtab_stack') - 1 = depth
      BY <2>0, <3>1
    <3> QED
      BY <3>1, <3>4, <3>5, <3>6, <3>7 DEF Env!Enter, Env!Next
  <2>2. CASE ExitTopLevel
    BY <2>2 DEF ExitTopLevel, Env!envVars
  <2>3. CASE ExitScope
    <3> DEFINE saved == [i \in 1..(depth - 1) |-> At(symtab_stack, i)]
    <3>1. depth >= 2
      BY <2>3, AboveBottom
    <3>2. /\ Len(symtab_stack') = depth - 1
          /\ \A i \in 1..(depth - 1) : symtab_stack'[i] = symtab_stack[i]
      BY <2>3, <3>1, ExitedStack DEF ExitScope
    <3>3. \A i \in 1..(depth - 1) : At(symtab_stack', i) = At(symtab_stack, i)
      BY <2>0, <3>1, <3>2, ViewIsLocal
    <3>4. /\ saved # <<>>
          /\ Env!Last(saved) = At(symtab_stack, depth - 1)
      <4>1. Len(saved) = depth - 1 /\ saved # <<>>
        <5>1. Len(saved) = depth - 1
          BY <2>0, <3>1
        <5>2. PICK len \in Nat : len = depth - 1 /\ len >= 1
          BY <2>0, <3>1
        <5>3. Len(<<>>) = 0 /\ len # 0
          BY <5>2
        <5> QED
          BY <5>1, <5>2, <5>3
      <4>2. saved[depth - 1] = At(symtab_stack, depth - 1)
        BY <2>0, <3>1
      <4> QED
        BY <4>1, <4>2 DEF Env!Last
    <3>5. Env!Front(saved) = [i \in 1..(depth - 2) |-> At(symtab_stack, i)]
      BY <2>0, <3>1 DEF Env!Front
    <3>6. [i \in 1..(depth - 2) |-> At(symtab_stack', i)] = Env!Front(saved)
      BY <2>0, <3>1, <3>3, <3>5
    <3>7. Len(symtab_stack') - 1 = depth - 2
      BY <2>0, <3>2
    <3>8. At(symtab_stack', Len(symtab_stack')) = Env!Last(saved)
      BY <2>0, <3>1, <3>2, <3>3, <3>4
    <3> QED
      BY <3>4, <3>6, <3>7, <3>8 DEF Env!Leave, Env!Next
  <2>4. ASSUME NEW k \in Kinds, NEW n \in Idents, NEW v \in Values,
               Add(k, n, v)
        PROVE  [Env!Next]_Env!envVars
    <3> DEFINE top == symtab_stack[depth]
               top2 == symtab_stack'[depth]
    <3>1. CASE top[k][n] # Null
      BY <2>4, <3>1 DEF Add, Added, Env!envVars
    <3>2. CASE top[k][n] = Null
      <4>1. /\ Len(symtab_stack') = depth
            /\ \A i \in 1..(depth - 1) : symtab_stack'[i] = symtab_stack[i]
            /\ \A j \in Kinds, m \in Idents :
                 j # k \/ m # n => top2[j][m] = top[j][m]
            /\ top2[k][n] = v
        BY <2>4, <3>2, AddedStack DEF Add
      <4>2. \A i \in 1..(depth - 1) : At(symtab_stack', i) = At(symtab_stack, i)
        BY <2>0, <4>1, ViewIsLocal
      <4>3. FindFrom(symtab_stack', depth, k, n) = v
        BY <2>0, <4>1, LookupInTop, NullAssumption
      <4>4. ASSUME NEW j \in Kinds, NEW m \in Idents, j # k \/ m # n
            PROVE  FindFrom(symtab_stack', depth, j, m) = FindFrom(symtab_stack, depth, j, m)
        <5>1. top2[j][m] = top[j][m]
          BY <4>1, <4>4
        <5>2. CASE top[j][m] # Null
          BY <2>0, <5>1, <5>2, LookupInTop
        <5>3. CASE top[j][m] = Null
          <6>1. PICK lvl \in Nat : depth = lvl + 1
            BY <2>0
          <6>2. FindFrom(symtab_stack', lvl + 1, j, m) = FindFrom(symtab_stack', lvl, j, m)
            BY <5>1, <5>3, <6>1, LookupBelowTop
          <6>3. FindFrom(symtab_stack, lvl + 1, j, m) = FindFrom(symtab_stack, lvl, j, m)
            BY <5>3, <6>1, LookupBelowTop
          <6>4. FindFrom(symtab_stack', lvl, j, m) = FindFrom(symtab_stack, lvl, j, m)
            BY <4>1, <6>1, LookupIsLocal
          <6> QED
            BY <6>1, <6>2, <6>3, <6>4
        <5> QED
          BY <5>2, <5>3
      <4>5. At(symtab_stack', depth).visible
              = [At(symtab_stack, depth).visible EXCEPT ![k][n] = v]
        BY <4>3, <4>4 DEF At
      <4>6. At(symtab_stack', depth).declared
              = [At(symtab_stack, depth).declared EXCEPT ![k][n] = v]
        <5>1. symtab_stack' = [symtab_stack EXCEPT ![depth][k][n] = v]
          BY <2>4, <3>2 DEF Add, Added
        <5>2. top2 = [top EXCEPT ![k][n] = v]
          BY <2>0, <5>1
        <5> QED
          BY <5>2 DEF At
      <4>7. At(symtab_stack, depth).declared[k][n] = Null
        BY <3>2 DEF At
      <4>8. [i \in 1..(depth - 1) |-> At(symtab_stack', i)]
              = [i \in 1..(depth - 1) |-> At(symtab_stack, i)]
        BY <4>2
      <4>9. Env!Declare(k, n, v)
        BY <4>1, <4>5, <4>6, <4>7, <4>8 DEF Env!Declare
      <4> QED
        BY <4>9 DEF Env!Next
    <3> QED
      BY <3>1, <3>2
  <2>5. CASE UNCHANGED vars
    BY <2>5 DEF vars, Env!envVars
  <2> QED
    BY <2>1, <2>2, <2>3, <2>4, <2>5 DEF Next
<1> QED
  BY <1>1, <1>2, TypeCorrect, PTL DEF Spec, ImplementsLexicalEnv, Env!Spec
=============================================================================
