----------------------------- MODULE MCCodegen -----------------------------
(* Small programs for Codegen.                                             *)
EXTENDS Codegen

CONSTANTS x, f, g

MCKinds == {"variable"}

Const   == [form |-> "other", reads |-> {}, writes |-> {}, calls |-> {}]
Name(n) == [Const EXCEPT !.form = "name", !.reads = {n}]
Set(n)  == [Const EXCEPT !.writes = {n}]
Call(h) == [Const EXCEPT !.calls = {h}]

(* Bodies: one function without parameters, statements nested two deep.    *)
OneName == {x}
OneFunc == {f}
NoParams == {<<>>}
BodyExprs == {Const, Name(x)}

(* Modules: two functions declared, defined, erased, redefined and called. *)
TwoFuncs == {f, g}
SomeParams == {<<>>, <<x>>}
ModuleExprs == {Const, Name(x), Call(f)}

(* Scopes: loops, top-level variables, refused definitions, shadowing.     *)
ScopeExprs == {Const, Set(x)}
Renaming == Permutations(TwoFuncs)
=============================================================================
