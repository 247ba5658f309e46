------------------------------ MODULE Codegen ------------------------------
(***************************************************************************)
(* Code generation: the codegen() methods of src/ast/*.cc working on the   *)
(* symbol-table stack, the LLVM module and the one IRBuilder of Core.      *)
(*                                                                         *)
(* The program is chosen while it is generated: every step generates the   *)
(* next statement, the end of a block or the next top-level node, and the  *)
(* recursion of the codegen() calls is the stack "frames".  An expression  *)
(* is abstracted to the names it reads and writes and the functions it     *)
(* calls; of an instruction only the block it goes to, the function that   *)
(* owns the stack slots it uses, and control flow are kept.                *)
(*                                                                         *)
(* The code checks almost no pointer.  Where it hands LLVM something LLVM  *)
(* gives no meaning to (a null operand, a call with the wrong number of    *)
(* arguments, a freed block) the run stops with the status that names it.  *)
(***************************************************************************)
EXTENDS Scopes, FiniteSets

CONSTANTS
  Funcs,      \* function names
  ParamLists, \* parameter lists: sequences of identifiers
  Exprs,      \* expressions: [form, reads, writes, calls]
  MaxFns,     \* bound on the llvm::Function objects created
  MaxBlocks,  \* bound on the basic blocks created
  MaxNest,    \* bound on the nesting of blocks in a function
  MaxScopes   \* bound on the symbol tables on the stack

ASSUME KindsAssumption == "variable" \in Kinds

(* An arity is not taken for a missing definition.                         *)
ASSUME NullAssumption == Null \notin Nat

ASSUME ParamListsAssumption == ParamLists \subseteq Seq(Idents)

(* A "name" is an expression that is nothing but one variable name.        *)
ASSUME ExprsAssumption ==
  /\ Exprs \subseteq [form : {"name", "other"}, reads : SUBSET Idents,
                      writes : SUBSET Idents, calls : SUBSET Funcs]
  /\ \A e \in Exprs : e.form = "name" => /\ e.writes = {} /\ e.calls = {}
                                         /\ \E n \in Idents : e.reads = {n}

ASSUME BoundsAssumption ==
  /\ MaxFns \in Nat /\ MaxBlocks \in Nat
  /\ MaxNest \in Nat /\ MaxScopes \in Nat

VARIABLES
  symtab_stack, \* the symbol tables; variables are bound to stack slots
  defs,         \* what the parser's findFunction finds: the arity of a name
  module,       \* Core::getModule()->getFunction: an index of fns, or 0
  fns,          \* the llvm::Function objects created so far
  blocks,       \* the llvm::BasicBlock objects created so far
  stray,        \* blocks with an instruction behind their terminator
  ip,           \* the IRBuilder's insertion block, 0 before the first
  frames,       \* the codegen() calls of blocks that are under way
  status        \* "running", "done", or the fault that stopped the run

vars == <<symtab_stack, defs, module, fns, blocks, stray, ip, frames, status>>

Faults == {"null", "callee", "arity", "use", "storetype", "noblock",
           "dangling"}

NewBlock(fn, label) ==
  [fn |-> fn, label |-> label, terms |-> <<>>, phi |-> {}, uses |-> {}]

(* A stack slot: the function it is allocated in and where it was declared *)
Slot(fn) == [fn |-> fn, level |-> IF frames = <<>> THEN "top" ELSE "local"]

(* Wrong: initSymbolTable is never called.                                 *)
InitWithoutTable ==
  /\ symtab_stack = <<>>
  /\ defs = [f \in Funcs |-> Null]
  /\ module = [f \in Funcs |-> 0]
  /\ fns = <<>> /\ blocks = <<>> /\ stray = {}
  /\ ip = 0
  /\ frames = <<>>
  /\ status = "running"

Init ==
  /\ symtab_stack = <<EmptyTable>>
  /\ defs = [f \in Funcs |-> Null]
  /\ module = [f \in Funcs |-> 0]
  /\ fns = <<>>
  /\ blocks = <<>>
  /\ stray = {}
  /\ ip = 0
  /\ frames = <<>>
  /\ status = "running"
-----------------------------------------------------------------------------
(* Expressions.                                                            *)

(* The parser rejects a call of a name that has no definition yet, and     *)
(* cannot parse a call without arguments.                                  *)
Parsed == {e \in Exprs : \A f \in e.calls : defs[f] # Null /\ defs[f] # 0}

Bound(stk, n)   == Find(stk, "variable", n) # Null
Names(e)        == e.reads \cup e.writes
HasValue(stk, e) == e.form = "name" => \A n \in e.reads : Bound(stk, n)

(* An unbound name has no value.  On its own that is harmless where the    *)
(* value is not used; an operator, a call or a store dereferences it.      *)
Unbound(stk, e, use) ==
  /\ \E n \in Names(e) : ~Bound(stk, n)
  /\ e.form = "other" \/ use = "operand"

NoCallee(e) == \E f \in e.calls : module[f] = 0
BadArity(e) == \E f \in e.calls : /\ module[f] # 0
                                  /\ fns[module[f]].arity # defs[f]

(* Constants are folded; everything else adds instructions.                *)
Emits(stk, e) ==
  \/ e.calls # {}
  \/ \E n \in Names(e) : Bound(stk, n)

(* The function that owns the insertion block; eraseFromParent frees it.   *)
CurrentFn == IF ip = 0 THEN 0 ELSE blocks[ip].fn
Freed     == CurrentFn # 0 /\ fns[CurrentFn].state = "erased"

FaultsOf(stk, e, use) ==
  {s \in Faults :
     \/ s = "null"     /\ Unbound(stk, e, use)
     \/ s = "callee"   /\ NoCallee(e)
     \/ s = "arity"    /\ BadArity(e)
     \/ s = "dangling" /\ Freed /\ Emits(stk, e)}

(* The functions whose stack slots e loads from or stores to.              *)
Owners(stk, e) ==
  {Find(stk, "variable", n).fn : n \in {m \in Names(e) : Bound(stk, m)}}

(* The calls in e are uses of the called functions by function u.          *)
Called(F, e, u) ==
  [i \in DOMAIN F |->
     IF F[i].name \in e.calls /\ module[F[i].name] = i
     THEN [F[i] EXCEPT !.users = @ \cup {u}]
     ELSE F[i]]

(* Instructions that use the slots of the functions U go to block b.       *)
Using(B, b, U) == IF b = 0 THEN B ELSE [B EXCEPT ![b].uses = @ \cup U]

(* A terminator with these successors goes to block b; {} is a return.     *)
Terminated(B, b, successors) ==
  [B EXCEPT ![b].terms = Append(@, successors)]

(* Wrong: the block is not appended to the function.                       *)
LeftDetached(B, b, fn) == B

(* Block b is appended to the block list of function fn.                   *)
Attached(B, b, fn) == [B EXCEPT ![b].fn = fn]

StrayIn(b, emits) ==
  IF emits /\ b # 0 /\ blocks[b].terms # <<>> THEN stray \cup {b} ELSE stray
-----------------------------------------------------------------------------
(* Statement lists: the value of a block is that of its last statement.    *)

Running == status = "running"

Stop(faults) ==
  /\ faults # {}
  /\ status' \in faults
  /\ UNCHANGED <<symtab_stack, defs, module, fns, blocks, stray, ip, frames>>

Frame(kind, fn, next, join, from, fromval) ==
  [kind |-> kind, fn |-> fn, value |-> "none", next |-> next, join |-> join,
   from |-> from, fromval |-> fromval]

Valued(v) ==
  IF frames = <<>> THEN frames ELSE [frames EXCEPT ![Len(frames)].value = v]

ValueOf(e) == IF HasValue(symtab_stack, e) THEN "some" ELSE "none"

(* An enclosing block goes on after the innermost one with a value.        *)
Popped == [Front(frames) EXCEPT ![Len(frames) - 1].value = "some"]

(* An expression statement, in a block or at the top level.                *)
ExprStmt(e) ==
  /\ Running
  /\ LET faults == FaultsOf(symtab_stack, e, "value") IN
     \/ Stop(faults)
     \/ /\ faults = {}
        /\ blocks' = Using(blocks, ip, Owners(symtab_stack, e))
        /\ stray' = StrayIn(ip, Emits(symtab_stack, e))
        /\ fns' = Called(fns, e, CurrentFn)
        /\ frames' = Valued(ValueOf(e))
        /\ UNCHANGED <<symtab_stack, defs, module, ip, status>>

(* var n : type = e; in a block or at the top level.  The slot goes to the *)
(* entry block of the function that owns the insertion block.              *)
VarDecl(n, type, e) ==
  /\ Running
  /\ LET init == FaultsOf(symtab_stack, e, "operand")
         faults == IF ip = 0 THEN {"noblock"}
                   ELSE IF Freed THEN {"dangling"}
                   ELSE IF init = {} /\ type = "int" THEN {"storetype"}
                   ELSE init
     IN
     \/ Stop(faults)
     \/ /\ faults = {}
        /\ blocks' = Using(blocks, ip, Owners(symtab_stack, e) \cup {CurrentFn})
        /\ stray' = StrayIn(ip, TRUE)
        /\ fns' = Called(fns, e, CurrentFn)
        /\ symtab_stack' = Added(symtab_stack, "variable", n, Slot(CurrentFn))
        /\ frames' = Valued("some")
        /\ UNCHANGED <<defs, module, ip, status>>

(* return e; continues in a block of its own, to which only the branch     *)
(* leads that the code puts behind the return instruction.                 *)
RetStmt(e) ==
  /\ Running /\ frames # <<>>
  /\ Len(blocks) + 2 <= MaxBlocks
  /\ LET faults == FaultsOf(symtab_stack, e, "value")
         enter == Len(blocks) + 1
         exit == Len(blocks) + 2
         B0 == blocks \o <<NewBlock(CurrentFn, "ret_enter"),
                           NewBlock(CurrentFn, "ret_exit")>>
         B1 == Terminated(Using(B0, ip, Owners(symtab_stack, e)), ip, {enter})
         B2 == Terminated(Terminated(B1, enter, {}), enter, {exit})
     IN
     \/ Stop(faults)
     \/ /\ faults = {}
        /\ blocks' = B2
        /\ stray' = StrayIn(ip, Emits(symtab_stack, e)) \cup {enter}
        /\ ip' = exit
        /\ fns' = Called(fns, e, CurrentFn)
        /\ frames' = Valued(ValueOf(e))
        /\ UNCHANGED <<symtab_stack, defs, module, status>>
-----------------------------------------------------------------------------
(* if (e) { ... } else { ... }                                             *)

(* A condition without a value: the statement generates nothing.           *)
IfSkipped(e) ==
  /\ Running /\ frames # <<>>
  /\ ~HasValue(symtab_stack, e)
  /\ frames' = Valued("none")
  /\ UNCHANGED <<symtab_stack, defs, module, fns, blocks, stray, ip, status>>

IfCond(e) ==
  /\ Running /\ frames # <<>>
  /\ HasValue(symtab_stack, e)
  /\ Len(frames) <= MaxNest /\ Len(blocks) + 3 <= MaxBlocks
  /\ LET faults == FaultsOf(symtab_stack, e, "value")
         then == Len(blocks) + 1
         else == Len(blocks) + 2
         cont == Len(blocks) + 3
         B0 == blocks \o <<NewBlock(CurrentFn, "then"), NewBlock(0, "else"),
                           NewBlock(0, "ifcont")>>
         B1 == Using(B0, ip, Owners(symtab_stack, e))
     IN
     \/ Stop(faults)
     \/ /\ faults = {}
        /\ blocks' = Terminated(B1, ip, {then, else})
        /\ stray' = StrayIn(ip, Emits(symtab_stack, e))
        /\ ip' = then
        /\ fns' = Called(fns, e, CurrentFn)
        /\ frames' = Append(frames, Frame("then", CurrentFn, else, cont, 0, "none"))
        /\ UNCHANGED <<symtab_stack, defs, module, status>>

(* Wrong: the builder is not moved to the else block.                      *)
IfElseStays ==
  /\ Running /\ frames # <<>>
  /\ LET top == Last(frames) IN
     /\ top.kind = "then"
     /\ blocks' = Attached(Terminated(blocks, ip, {top.join}), top.next, top.fn)
     /\ frames' = Append(Front(frames),
                         Frame("else", top.fn, 0, top.join, ip, top.value))
  /\ UNCHANGED <<symtab_stack, defs, module, fns, stray, ip, status>>

(* Wrong: the phi is given the block the then branch started in.           *)
IfElseStaleThen ==
  /\ Running /\ frames # <<>>
  /\ LET top == Last(frames) IN
     /\ top.kind = "then"
     /\ blocks' = Attached(Terminated(blocks, ip, {top.join}), top.next, top.fn)
     /\ ip' = top.next
     /\ frames' = Append(Front(frames), Frame("else", top.fn, 0, top.join,
                                              top.next - 1, top.value))
  /\ UNCHANGED <<symtab_stack, defs, module, fns, stray, status>>

(* The end of the then block: the else block is attached and filled.       *)
IfElse ==
  /\ Running /\ frames # <<>>
  /\ LET top == Last(frames) IN
     /\ top.kind = "then"
     /\ blocks' = Attached(Terminated(blocks, ip, {top.join}), top.next, top.fn)
     /\ ip' = top.next
     /\ frames' = Append(Front(frames),
                         Frame("else", top.fn, 0, top.join, ip, top.value))
  /\ UNCHANGED <<symtab_stack, defs, module, fns, stray, status>>

(* The end of the else block: both meet in the phi of the merge block.     *)
IfMerge ==
  /\ Running /\ frames # <<>>
  /\ LET top == Last(frames)
         B1 == Attached(Terminated(blocks, ip, {top.join}), top.join, top.fn)
     IN
     /\ top.kind = "else"
     /\ \/ /\ "none" \in {top.value, top.fromval}
           /\ Stop({"null"})
        \/ /\ "none" \notin {top.value, top.fromval}
           /\ blocks' = [B1 EXCEPT ![top.join].phi = {top.from, ip}]
           /\ ip' = top.join
           /\ frames' = Popped
           /\ UNCHANGED <<symtab_stack, defs, module, fns, stray, status>>
-----------------------------------------------------------------------------
(* for (n = start; end; step) { ... }                                      *)

(* The loop variable is in scope, and uninitialised, in start already.     *)
ForHead(n, start, end) ==
  /\ Running /\ frames # <<>>
  /\ Len(frames) <= MaxNest /\ Len(blocks) + 4 <= MaxBlocks
  /\ Len(symtab_stack) < MaxScopes
  /\ LET stk == Added(Entered(symtab_stack), "variable", n, Slot(CurrentFn))
         faults == FaultsOf(stk, start, "operand") \cup FaultsOf(stk, end, "operand")
         cond == Len(blocks) + 1
         body == Len(blocks) + 2
         inc  == Len(blocks) + 3
         exit == Len(blocks) + 4
         B0 == blocks \o [i \in 1..4 |->
                 NewBlock(CurrentFn, <<"for.cond", "for.body", "for.inc", "for.exit">>[i])]
         B1 == Terminated(Using(B0, ip, Owners(stk, start) \cup {CurrentFn}), ip, {cond})
         B2 == Terminated(Using(B1, cond, Owners(stk, end)), cond, {body, exit})
     IN
     \/ Stop(faults)
     \/ /\ faults = {}
        /\ symtab_stack' = stk
        /\ blocks' = B2
        /\ stray' = StrayIn(ip, TRUE)
        /\ ip' = body
        /\ fns' = Called(Called(fns, start, CurrentFn), end, CurrentFn)
        /\ frames' = Append(frames, Frame("for", CurrentFn, inc, exit, cond, "none"))
        /\ UNCHANGED <<defs, module, status>>

(* Wrong: the increment goes back to the body, and no one looks at the end. *)
BackToBody(loop) == {loop.from + 1}

(* The increment goes back to the condition.                               *)
BackEdge(loop) == {loop.from}

(* The end of the body: increment, branch back, leave the scope.           *)
ForTail(step) ==
  /\ Running /\ frames # <<>>
  /\ LET top == Last(frames)
         faults == FaultsOf(symtab_stack, step, "operand")
         B1 == Terminated(blocks, ip, {top.next})
         B2 == Using(B1, top.next, Owners(symtab_stack, step) \cup {top.fn})
     IN
     /\ top.kind = "for"
     /\ \/ Stop(faults)
        \/ /\ faults = {}
           /\ blocks' = Terminated(B2, top.next, BackEdge(top))
           /\ ip' = top.join
           /\ fns' = Called(fns, step, CurrentFn)
           /\ symtab_stack' = Exited(symtab_stack)
           /\ frames' = Popped
           /\ UNCHANGED <<defs, module, stray, status>>
-----------------------------------------------------------------------------
(* Functions.  FunctionDef's constructor registers the definition while    *)
(* parsing, before any code is generated; a second one of the same name is *)
(* reported and ignored there, but generated all the same.                 *)
RegisteredLastWins(f, params) == [defs EXCEPT ![f] = Len(params)]

Registered(f, params) ==
  [defs EXCEPT ![f] = IF @ = Null THEN Len(params) ELSE @]

(* Wrong: a function is created whether or not the name is taken.          *)
ResolvedAlwaysNew(f, params) == Len(fns) + 1

(* FunctionDecl::codegen: the function to fill, or 0 when the name has a   *)
(* body already or was declared with another number of parameters.         *)
Resolved(f, params) ==
  IF module[f] = 0 THEN Len(fns) + 1
  ELSE IF fns[module[f]].state = "declared" /\ fns[module[f]].arity = Len(params)
  THEN module[f]
  ELSE 0

NewFn(f, params, state) ==
  [name |-> f, arity |-> Len(params), state |-> state, origin |-> state,
   users |-> {}]

(* createArgumentAllocas, in the scope the function has just entered.      *)
ParamTable(params, fn) ==
  [EmptyTable EXCEPT !["variable"] =
     [n \in Idents |-> IF n \in Range(params)
                       THEN [fn |-> fn, level |-> "local"] ELSE Null]]

(* The builder moves to the function's entry block, which is made next.    *)
EntryNotEntered == IF ip = 0 THEN 1 ELSE ip
EntryPoint == Len(blocks) + 1

(* Wrong: the early return leaves a scope that was not entered.            *)
RefusedDefExits(f, params) ==
  /\ Running /\ frames = <<>>
  /\ Resolved(f, params) = 0
  /\ Len(symtab_stack) < MaxScopes
  /\ defs' = Registered(f, params)
  /\ symtab_stack' = Exited(symtab_stack)
  /\ UNCHANGED <<module, fns, blocks, stray, ip, frames, status>>

(* The early return in FunctionDef::codegen leaves the scope it entered.   *)
RefusedDef(f, params) ==
  /\ Running /\ frames = <<>>
  /\ Resolved(f, params) = 0
  /\ Len(symtab_stack) < MaxScopes
  /\ defs' = Registered(f, params)
  /\ symtab_stack' = Entered(symtab_stack)
  /\ UNCHANGED <<module, fns, blocks, stray, ip, frames, status>>

ExternDef(f, params) ==
  /\ Running /\ frames = <<>>
  /\ LET fn == Resolved(f, params) IN
     /\ fn \in 1..MaxFns
     /\ defs' = Registered(f, params)
     /\ fns' = IF fn \in DOMAIN fns THEN fns
               ELSE Append(fns, NewFn(f, params, "declared"))
     /\ module' = [module EXCEPT ![f] = fn]
     /\ symtab_stack' = Exited(Entered(symtab_stack))
  /\ UNCHANGED <<blocks, stray, ip, frames, status>>

BeginDef(f, params) ==
  /\ Running /\ frames = <<>>
  /\ Len(blocks) < MaxBlocks /\ Len(symtab_stack) < MaxScopes
  /\ LET fn == Resolved(f, params) IN
     /\ fn \in 1..MaxFns
     /\ defs' = Registered(f, params)
     /\ fns' = IF fn \in DOMAIN fns THEN [fns EXCEPT ![fn].state = "defined"]
               ELSE Append(fns, NewFn(f, params, "defined"))
     /\ module' = [module EXCEPT ![f] = fn]
     /\ blocks' = Append(blocks, [NewBlock(fn, "entry") EXCEPT !.uses = {fn}])
     /\ ip' = EntryPoint
     /\ symtab_stack' = Append(symtab_stack, ParamTable(params, fn))
     /\ frames' = <<Frame("func", fn, 0, 0, 0, "none")>>
  /\ UNCHANGED <<stray, status>>

(* Wrong: no return instruction.                                           *)
EndDefNoReturn ==
  /\ Running /\ Len(frames) = 1
  /\ frames[1].value = "some"
  /\ symtab_stack' = Exited(symtab_stack)
  /\ frames' = <<>>
  /\ UNCHANGED <<defs, module, fns, blocks, stray, ip, status>>

(* The body has a value: it is returned.                                   *)
EndDef ==
  /\ Running /\ Len(frames) = 1
  /\ frames[1].value = "some"
  /\ blocks' = Terminated(blocks, ip, {})
  /\ symtab_stack' = Exited(symtab_stack)
  /\ frames' = <<>>
  /\ UNCHANGED <<defs, module, fns, stray, ip, status>>

(* The body has none: the function is erased, although the parser keeps    *)
(* its definition and other functions may be using it already.             *)
EraseDef ==
  /\ Running /\ Len(frames) = 1
  /\ frames[1].value = "none"
  /\ LET fn == frames[1].fn IN
     /\ fns' = [i \in DOMAIN fns |->
                  [fns[i] EXCEPT !.users = @ \ {fn},
                                 !.state = IF i = fn THEN "erased" ELSE @]]
     /\ module' = [module EXCEPT ![fns[fn].name] = 0]
     /\ status' = IF fns[fn].users \subseteq {fn} THEN status ELSE "use"
  /\ symtab_stack' = Exited(symtab_stack)
  /\ frames' = <<>>
  /\ UNCHANGED <<defs, blocks, stray, ip>>

Finish ==
  /\ Running /\ frames = <<>>
  /\ status' = "done"
  /\ UNCHANGED <<symtab_stack, defs, module, fns, blocks, stray, ip, frames>>

Stopped == ~Running /\ UNCHANGED vars

Next ==
  \/ \E e \in Parsed :
       \/ ExprStmt(e) \/ RetStmt(e) \/ IfSkipped(e) \/ IfCond(e) \/ ForTail(e)
       \/ \E n \in Idents, type \in {"double", "int"} : VarDecl(n, type, e)
       \/ \E n \in Idents, end \in Parsed : ForHead(n, e, end)
  \/ IfElse \/ IfMerge
  \/ \E f \in Funcs, params \in ParamLists :
       RefusedDef(f, params) \/ ExternDef(f, params) \/ BeginDef(f, params)
  \/ EndDef \/ EraseDef
  \/ Finish \/ Stopped

Spec == Init /\ [][Next]_vars
-----------------------------------------------------------------------------
(* The stack slots that variables are bound to, and the objects of LLVM.   *)
Slots  == [fn : 1..MaxFns, level : {"top", "local"}]
Fns    == [name : Funcs, arity : Nat, users : SUBSET (0..MaxFns),
           state : {"declared", "defined", "erased"},
           origin : {"declared", "defined"}]
Blocks == [fn : 0..MaxFns, terms : Seq(SUBSET (1..MaxBlocks)),
           phi : SUBSET (1..MaxBlocks), uses : SUBSET (1..MaxFns),
           label : {"entry", "then", "else", "ifcont", "for.cond", "for.body",
                    "for.inc", "for.exit", "ret_enter", "ret_exit"}]
Frames == [kind : {"func", "then", "else", "for"}, fn : 1..MaxFns,
           value : {"none", "some"}, fromval : {"none", "some"},
           next : 0..MaxBlocks, join : 0..MaxBlocks, from : 0..MaxBlocks]

TypeOK ==
  /\ symtab_stack \in Seq(Tables(Slots)) /\ Len(symtab_stack) >= 1
  /\ defs \in [Funcs -> Nat \cup {Null}]
  /\ module \in [Funcs -> 0..Len(fns)]
  /\ fns \in Seq(Fns) /\ Len(fns) <= MaxFns
  /\ blocks \in Seq(Blocks) /\ Len(blocks) <= MaxBlocks
  /\ stray \subseteq 1..Len(blocks)
  /\ ip \in 0..Len(blocks)
  /\ frames \in Seq(Frames)
  /\ status \in {"running", "done"} \cup Faults

Pending(frame) == {frame.next, frame.join} \ {0}

(* Inside a function the builder always stands in a block of that function *)
(* that has no terminator yet, and so do the blocks that the statements    *)
(* under way will fill later: each is filled once, by the statement that   *)
(* made it, whatever is nested in between.                                 *)
InsertionOpen ==
  Running /\ frames # <<>> =>
    /\ blocks[ip].fn = frames[1].fn
    /\ blocks[ip].terms = <<>>
    /\ \A i \in DOMAIN frames :
         /\ frames[i].fn = frames[1].fn
         /\ \A b \in Pending(frames[i]) : b # ip /\ blocks[b].terms = <<>>
         /\ \A j \in 1..(i - 1) : Pending(frames[i]) \cap Pending(frames[j]) = {}

(* The blocks of the functions that are complete: neither under way nor    *)
(* erased.  Blocks that no function has got yet belong to the one under    *)
(* way.                                                                    *)
Finished ==
  {b \in DOMAIN blocks :
     /\ frames = <<>> \/ blocks[b].fn \notin {0, frames[1].fn}
     /\ blocks[b].fn # 0 => fns[blocks[b].fn].state = "defined"}

Successors(b) == UNION Range(blocks[b].terms)

(* A finished function is a closed control-flow graph: every block made    *)
(* for it was attached to it, ends in a terminator and branches only to    *)
(* its blocks; no block gets a second terminator but the one of "return".  *)
FinishedCFG ==
  \A b \in Finished :
    /\ blocks[b].fn # 0
    /\ blocks[b].terms # <<>>
    /\ Len(blocks[b].terms) > 1 => blocks[b].label = "ret_enter"
    /\ \A c \in Successors(b) : blocks[c].fn = blocks[b].fn

(* From every block of a finished function a return can be reached: no     *)
(* block, and no set of blocks, holds control for ever by its branches     *)
(* alone, the loops and what stands behind a return included.  Of two      *)
(* terminators the first one acts (forstmt.cc:90, 121; retstmt.cc:34).     *)
EveryBlockReturns ==
  \A S \in (SUBSET Finished) \ {{}} : \E b \in S :
    /\ blocks[b].terms # <<>>
    /\ blocks[b].terms[1] = {} \/ ~(blocks[b].terms[1] \subseteq S)

(* The phi of an if names exactly the two blocks that branch to it, though *)
(* nested statements and returns move the end of either branch away from   *)
(* the block the branch started in (ifstmt.cc:54, 65).                     *)
PhiMatchesPreds ==
  \A b \in Finished :
    LET preds == {c \in DOMAIN blocks : b \in Successors(c)} IN
    IF blocks[b].label = "ifcont"
    THEN blocks[b].phi = preds /\ Cardinality(preds) = 2
    ELSE blocks[b].phi = {}

(* Nothing that happens later, a second definition of the name included,   *)
(* touches the control flow of a finished function.                        *)
FinishedStand ==
  [][\A b \in Finished :
       /\ blocks'[b].fn = blocks[b].fn
       /\ blocks'[b].terms = blocks[b].terms
       /\ blocks'[b].phi = blocks[b].phi]_vars

(* exitScope is never called at the top level, where it would abort        *)
(* (symtab.cc:138-141): everything under way still has its own scope, even *)
(* after refused definitions have left scopes behind (funcdef.cc:38-40).   *)
ScopesNest ==
  Len(symtab_stack) > Cardinality({i \in DOMAIN frames :
                                     frames[i].kind \in {"func", "for"}})

(* The functions in whose blocks the variables declared at the top level   *)
(* have their stack slots.                                                 *)
TopLevelOwners ==
  {u \in 1..MaxFns : \E i \in DOMAIN symtab_stack, n \in Idents :
     LET slot == symtab_stack[i]["variable"][n] IN
     slot # Null /\ slot.level = "top" /\ slot.fn = u}

(* No parameter, local or loop variable outlives its function, not even in *)
(* a scope that a refused definition left open.                            *)
LocalsDie ==
  \A i \in DOMAIN symtab_stack, n \in Idents :
    LET slot == symtab_stack[i]["variable"][n] IN
    slot # Null /\ slot.level = "local"
      => frames # <<>> /\ slot.fn = frames[1].fn

(* Only what was declared in a function or loop ever goes out of scope, and *)
(* only when that ends: nothing nested in it, and no function refused,     *)
(* erased or redefined behind a top-level variable, makes a name unbound   *)
(* whose use would then yield a null pointer (varname.cc:25).              *)
NamesStayVisible ==
  [][\A n \in Idents :
       Bound(symtab_stack, n) /\ ~Bound(symtab_stack', n) =>
         /\ Find(symtab_stack, "variable", n).level = "local"
         /\ Len(frames') < Len(frames) /\ Last(frames).kind \in {"func", "for"}]_vars

(* The slots that the code of a function uses are its own, or those of     *)
(* functions in whose code a variable of the top level has its slot.       *)
ForeignOnlyTopLevel ==
  \A b \in DOMAIN blocks : blocks[b].uses \subseteq {blocks[b].fn} \cup TopLevelOwners

(* A name denotes at most one live function, the one getFunction finds.    *)
OneFunctionPerName ==
  \A i \in DOMAIN fns :
    /\ (fns[i].state = "erased") = (module[fns[i].name] # i)
    /\ fns[i].state # "declared" => fns[i].state = "erased" \/
         \E b \in DOMAIN blocks : blocks[b].fn = i /\ blocks[b].label = "entry"

(* The call checks of the parser (parser.cc:79, 90) can be defeated only   *)
(* by the erasure of a function whose body has no value: then a call finds *)
(* no function, or a later one with another number of parameters.  And     *)
(* only a function that was declared before it was defined can be erased   *)
(* while others call it.                                                   *)
CallFaultsNeedErasure ==
  /\ status \in {"callee", "arity"} => \E i \in DOMAIN fns : fns[i].state = "erased"
  /\ status = "use" => \E i \in DOMAIN fns : /\ fns[i].state = "erased"
                                             /\ fns[i].origin = "declared"

(* While a body is generated no instruction lacks a block to go to or goes *)
(* to a freed one, and none goes behind the terminator of a block but the  *)
(* branch that return puts behind its own return instruction, into a block *)
(* made for it (retstmt.cc:34-35).  Top-level code has no such guarantee.  *)
MisplacedOnlyTopLevel ==
  [][frames # <<>> =>
       /\ status' \notin {"noblock", "dangling"}
       /\ \A b \in stray' \ stray : b \notin DOMAIN blocks /\ blocks'[b].label = "ret_enter"]_vars
-----------------------------------------------------------------------------
(* Statements the repository makes that the code does not keep.            *)

(* README.md:5: a program may contain variable declarations.  Instructions *)
(* for one would have to go somewhere other than behind a terminator, where *)
(* otherwise only the branch of a return is.                               *)
TopLevelCodeIsPlaced == \A b \in stray : blocks[b].label = "ret_enter"

(* parser.cc:90-94: a call with the wrong number of arguments is an error  *)
(* that stops the compiler.                                                *)
CallsMatchArity == status # "arity"
=============================================================================
