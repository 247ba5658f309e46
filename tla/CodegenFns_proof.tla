-------------------------- MODULE CodegenFns_proof --------------------------
(***************************************************************************)
(* Theorems about Codegen's functions: what the module finds under a name, *)
(* what the parser knows of it, and who calls it.                          *)
(*                                                                         *)
(* First what each action does to the functions (FnStep), then the         *)
(* invariant Naming, which every kind of step keeps.                       *)
(***************************************************************************)
EXTENDS Codegen_proof

(* Functions that differ in nothing but their users.                       *)
Same(x, y) ==
  x.name = y.name /\ x.arity = y.arity /\ x.state = y.state /\ x.origin = y.origin

LEMMA CalledSame ==
  ASSUME NEW F \in Seq(Fns), NEW e, NEW u
  PROVE  /\ Len(Called(F, e, u)) = Len(F)
         /\ \A i \in 1..Len(F) : /\ Same(Called(F, e, u)[i], F[i])
                                /\ Called(F, e, u)[i].users \subseteq F[i].users \cup {u}
<1>1. \A i \in 1..Len(F) :
        LET new == [F[i] EXCEPT !.users = @ \cup {u}] IN
        Same(new, F[i]) /\ new.users = F[i].users \cup {u}
  <2> SUFFICES ASSUME NEW i \in 1..Len(F)
               PROVE  LET new == [F[i] EXCEPT !.users = @ \cup {u}] IN
                      Same(new, F[i]) /\ new.users = F[i].users \cup {u}
    OBVIOUS
  <2>1. F[i] \in Fns
    OBVIOUS
  <2> QED
    BY <2>1 DEF Fns, Same
<1>2. DOMAIN F = 1..Len(F) /\ Len(F) \in Nat
  OBVIOUS
<1>3. \A i \in 1..Len(F) : Same(F[i], F[i])
  BY DEF Same
<1> QED
  BY <1>1, <1>2, <1>3 DEF Called

(* What a step does to the functions.  A statement adds users, of the      *)
(* function it is generated for; a definition or an external declaration   *)
(* adds a function or takes the declared one; an erased one loses its name.*)
FnsUsed ==
  /\ module' = module /\ defs' = defs /\ Len(fns') = Len(fns)
  /\ frames = <<>> => frames' = <<>>
  /\ \A i \in 1..Len(fns) : /\ Same(fns'[i], fns[i])
                            /\ fns'[i].users \subseteq fns[i].users \cup {CurrentFn}

FnRefused ==
  /\ \E f \in Funcs, params \in ParamLists :
       module[f] # 0 /\ defs' = Registered(f, params)
  /\ UNCHANGED <<module, fns, frames>>

Gains(f, params, k) ==
  /\ frames = <<>> /\ defs' = Registered(f, params)
  /\ module' = [module EXCEPT ![f] = k]
  /\ Len(fns) <= Len(fns') /\ k \in 1..Len(fns')
  /\ \A i \in 1..Len(fns') : i # k => i \in 1..Len(fns) /\ fns'[i] = fns[i]
  /\ fns'[k].arity = Len(params) /\ fns'[k].state \in {"declared", "defined"}
  /\ fns'[k].state = "defined" <=> frames' # <<>>
  /\ frames' # <<>> => frames'[1].fn = k
  /\ \/ /\ module[f] = 0 /\ k = Len(fns) + 1
        /\ fns'[k].name = f /\ fns'[k].origin = fns'[k].state /\ fns'[k].users = {}
     \/ /\ module[f] = k /\ k \in 1..Len(fns) /\ fns[k].state = "declared"
        /\ fns'[k].name = fns[k].name /\ fns'[k].origin = fns[k].origin
        /\ fns'[k].arity = fns[k].arity

FnGained ==
  \E f \in Funcs, params \in ParamLists, k \in 1..MaxFns : Gains(f, params, k)

FnLost ==
  /\ Len(frames) = 1 /\ frames' = <<>> /\ defs' = defs /\ Len(fns') = Len(fns)
  /\ module' = [module EXCEPT ![fns[frames[1].fn].name] = 0]
  /\ \A i \in 1..Len(fns) :
       /\ fns'[i].name = fns[i].name /\ fns'[i].arity = fns[i].arity
       /\ fns'[i].origin = fns[i].origin
       /\ fns'[i].state = IF i = frames[1].fn THEN "erased" ELSE fns[i].state

FnStep == FnsUsed \/ FnRefused \/ FnGained \/ FnLost

LEMMA FnsSame ==
  ASSUME TypeOK, UNCHANGED <<module, defs, fns>>, frames = <<>> => frames' = <<>>
  PROVE  FnsUsed
  BY DEF FnsUsed, Same

LEMMA CallsMade ==
  ASSUME TypeOK, NEW e, module' = module, defs' = defs, fns' = Called(fns, e, CurrentFn),
         frames = <<>> => frames' = <<>>
  PROVE  FnsUsed
<1>1. fns \in Seq(Fns)
  BY DEF TypeOK
<1> QED
  BY <1>1, CalledSame DEF FnsUsed

LEMMA StatementFns ==
  ASSUME TypeOK, NEW e, ExprStmt(e) \/ RetStmt(e) \/ IfCond(e) \/ ForTail(e)
  PROVE  FnsUsed
<1>1. CASE \E F : Stop(F)
  BY <1>1, FnsSame DEF Stop
<1>2. CASE ~\E F : Stop(F)
  BY <1>2, CallsMade DEF ExprStmt, RetStmt, IfCond, ForTail, Valued
<1> QED
  BY <1>1, <1>2

LEMMA VarDeclFns ==
  ASSUME TypeOK, NEW e, NEW n, NEW type, VarDecl(n, type, e)
  PROVE  FnsUsed
<1>1. CASE \E F : Stop(F)
  BY <1>1, FnsSame DEF Stop
<1>2. CASE ~\E F : Stop(F)
  BY <1>2, CallsMade DEF VarDecl, Valued
<1> QED
  BY <1>1, <1>2

LEMMA ForHeadFns ==
  ASSUME TypeOK, Placed, NEW v \in Idents, NEW start \in Exprs, NEW end \in Exprs,
         ForHead(v, start, end)
  PROVE  FnsUsed
<1>1. fns \in Seq(Fns)
  BY DEF TypeOK
<1>2. CASE UNCHANGED <<module, defs, fns, frames>>
  BY <1>2, FnsSame
<1>3. CASE ~UNCHANGED <<module, defs, fns, frames>>
  <2> DEFINE F == Called(fns, start, CurrentFn)
  <2>1. /\ module' = module /\ defs' = defs /\ fns' = Called(F, end, CurrentFn)
        /\ frames # <<>>
    BY <1>3 DEF ForHead, Stop
  <2>2. F \in Seq(Fns) /\ Len(F) = Len(fns)
    BY <1>1, <2>1, CalledFns, CurrentIsFn
  <2>3. \A i \in 1..Len(fns) : /\ Same(F[i], fns[i])
                               /\ F[i].users \subseteq fns[i].users \cup {CurrentFn}
    BY <1>1, CalledSame
  <2> HIDE DEF F
  <2>4. /\ Len(fns') = Len(F)
        /\ \A i \in 1..Len(F) : /\ Same(fns'[i], F[i])
                                /\ fns'[i].users \subseteq F[i].users \cup {CurrentFn}
    BY <2>1, <2>2, CalledSame
  <2> QED
    BY <2>1, <2>2, <2>3, <2>4 DEF FnsUsed, Same
<1> QED
  BY <1>2, <1>3

LEMMA RefusedDefFns ==
  ASSUME TypeOK, NEW f \in Funcs, NEW params \in ParamLists, RefusedDef(f, params)
  PROVE  FnRefused
<1>1. module[f] # 0
  BY DEF RefusedDef, Resolved, TypeOK
<1> QED
  BY <1>1 DEF RefusedDef, FnRefused

(* The function a definition or declaration resolves to.                   *)
LEMMA ResolvedKnown ==
  ASSUME TypeOK, NEW f \in Funcs, NEW params \in ParamLists,
         NEW k \in 1..MaxFns, k = Resolved(f, params)
  PROVE  \/ module[f] = 0 /\ k = Len(fns) + 1
         \/ /\ module[f] = k /\ k \in 1..Len(fns) /\ fns[k].state = "declared"
            /\ fns[k].arity = Len(params)
<1>1. module[f] \in 0..Len(fns) /\ Len(fns) \in Nat /\ MaxFns \in Nat
  BY BoundsAssumption DEF TypeOK
<1> QED
  BY <1>1 DEF Resolved

LEMMA Appended ==
  ASSUME NEW V, NEW s \in Seq(V), NEW x \in V
  PROVE  /\ Append(s, x) \in Seq(V) /\ Len(Append(s, x)) = Len(s) + 1
         /\ \A i \in 1..Len(s) : Append(s, x)[i] = s[i]
         /\ Append(s, x)[Len(s) + 1] = x
  OBVIOUS

LEMMA FnChanged ==
  ASSUME NEW F \in Seq(Fns), NEW k \in 1..Len(F),
         NEW state \in {"declared", "defined", "erased"}
  PROVE  LET G == [F EXCEPT ![k].state = state] IN
         /\ Len(G) = Len(F) /\ G[k] = [F[k] EXCEPT !.state = state]
         /\ \A i \in 1..Len(F) : i # k => G[i] = F[i]
<1>1. F[k] \in Fns /\ DOMAIN F = 1..Len(F) /\ Len(F) \in Nat
  OBVIOUS
<1>2. [F[k] EXCEPT !.state = state] \in Fns
  BY <1>1 DEF Fns
<1> QED
  BY <1>1, <1>2

(* Definition and external declaration alike: the function f resolves to   *)
(* is taken, or a new one is added.                                        *)
Takes(f, params, state, k) ==
  /\ k = Resolved(f, params) /\ frames = <<>> /\ defs' = Registered(f, params)
  /\ module' = [module EXCEPT ![f] = k]
  /\ fns' = IF k \in DOMAIN fns THEN [fns EXCEPT ![k].state = state]
            ELSE Append(fns, NewFn(f, params, state))
  /\ state = "defined" <=> frames' # <<>>
  /\ frames' # <<>> => frames'[1].fn = k

LEMMA DefGains ==
  ASSUME TypeOK, NEW f \in Funcs, NEW params \in ParamLists,
         NEW state \in {"declared", "defined"}, NEW k \in 1..MaxFns,
         Takes(f, params, state, k)
  PROVE  Gains(f, params, k)
<1>1. /\ fns \in Seq(Fns) /\ Len(fns) \in Nat /\ DOMAIN fns = 1..Len(fns)
      /\ k \in Nat
  BY BoundsAssumption DEF TypeOK
<1>4. /\ frames = <<>> /\ defs' = Registered(f, params)
      /\ module' = [module EXCEPT ![f] = k]
      /\ state = "defined" <=> frames' # <<>>
      /\ frames' # <<>> => frames'[1].fn = k
  BY DEF Takes
<1>2. CASE module[f] = 0 /\ k = Len(fns) + 1
  <2> DEFINE new == NewFn(f, params, state)
  <2>1. fns' = Append(fns, new)
    <3>1. k \notin DOMAIN fns
      BY <1>1, <1>2
    <3> QED
      BY <3>1 DEF Takes
  <2>2. /\ new.state = state /\ new.origin = state /\ new.name = f
        /\ new.users = {} /\ new.arity = Len(params)
    BY DEF NewFn
  <2>3. new \in Fns
    BY NewFns
  <2> HIDE DEF new
  <2>4. /\ Len(fns') = Len(fns) + 1 /\ fns'[Len(fns) + 1] = new
        /\ \A i \in 1..Len(fns) : fns'[i] = fns[i]
    BY <1>1, <2>1, <2>3, Appended
  <2>5. /\ Len(fns) <= Len(fns') /\ k \in 1..Len(fns')
        /\ \A i \in 1..Len(fns') : i # k => i \in 1..Len(fns) /\ fns'[i] = fns[i]
    BY <1>1, <1>2, <2>4
  <2>6. /\ fns'[k].state = state /\ fns'[k].origin = state /\ fns'[k].name = f
        /\ fns'[k].users = {} /\ fns'[k].arity = Len(params)
    BY <1>2, <2>2, <2>4
  <2> QED
    BY <1>2, <1>4, <2>5, <2>6 DEF Gains
<1>3. CASE /\ module[f] = k /\ k \in 1..Len(fns) /\ fns[k].state = "declared"
           /\ fns[k].arity = Len(params)
  <2> DEFINE new == [fns[k] EXCEPT !.state = state]
  <2>1. fns' = [fns EXCEPT ![k].state = state] /\ fns[k] \in Fns
    BY <1>1, <1>3 DEF Takes
  <2>2. /\ new.state = state /\ new.origin = fns[k].origin /\ new.name = fns[k].name
        /\ new.arity = fns[k].arity
    BY <2>1 DEF Fns
  <2>3. /\ Len(fns') = Len(fns) /\ fns'[k] = new
        /\ \A i \in 1..Len(fns) : i # k => fns'[i] = fns[i]
    BY <1>1, <1>3, <2>1, FnChanged
  <2> HIDE DEF new
  <2>4. /\ Len(fns) <= Len(fns') /\ k \in 1..Len(fns')
        /\ \A i \in 1..Len(fns') : i # k => i \in 1..Len(fns) /\ fns'[i] = fns[i]
    BY <1>1, <1>3, <2>3
  <2>5. /\ fns'[k].state = state /\ fns'[k].origin = fns[k].origin
        /\ fns'[k].name = fns[k].name /\ fns'[k].arity = fns[k].arity
    BY <2>2, <2>3
  <2> QED
    BY <1>3, <1>4, <2>4, <2>5 DEF Gains
<1> QED
  BY <1>2, <1>3, ResolvedKnown DEF Takes

LEMMA ExternDefFns ==
  ASSUME TypeOK, NEW f \in Funcs, NEW params \in ParamLists, ExternDef(f, params)
  PROVE  FnGained
<1> DEFINE k == Resolved(f, params)
<1>1. /\ k \in 1..MaxFns /\ frames = <<>> /\ defs' = Registered(f, params)
      /\ module' = [module EXCEPT ![f] = k] /\ frames' = <<>>
      /\ fns' = IF k \in DOMAIN fns THEN fns
                ELSE Append(fns, NewFn(f, params, "declared"))
  BY DEF ExternDef
<1>2. k = Resolved(f, params)
  OBVIOUS
<1> HIDE DEF k
<1>3. ASSUME k \in DOMAIN fns PROVE fns = [fns EXCEPT ![k].state = "declared"]
  <2>1. fns \in Seq(Fns) /\ DOMAIN fns = 1..Len(fns) /\ Len(fns) \in Nat
    BY DEF TypeOK
  <2>2. k # Len(fns) + 1
    BY <1>3, <2>1
  <2>3. fns[k].state = "declared" /\ fns[k] \in Fns
    BY <1>1, <1>2, <1>3, <2>1, <2>2, ResolvedKnown
  <2>4. [fns[k] EXCEPT !.state = "declared"] = fns[k]
    BY <2>3 DEF Fns
  <2> QED
    BY <2>1, <2>4
<1>4. Takes(f, params, "declared", k)
  BY <1>1, <1>2, <1>3 DEF Takes
<1> QED
  BY <1>1, <1>4, DefGains DEF FnGained

LEMMA BeginDefFns ==
  ASSUME TypeOK, NEW f \in Funcs, NEW params \in ParamLists, BeginDef(f, params)
  PROVE  FnGained
<1> DEFINE k == Resolved(f, params)
<1>1. /\ k \in 1..MaxFns /\ frames = <<>> /\ defs' = Registered(f, params)
      /\ module' = [module EXCEPT ![f] = k]
      /\ frames' = <<Frame("func", k, 0, 0, 0, "none")>>
      /\ fns' = IF k \in DOMAIN fns THEN [fns EXCEPT ![k].state = "defined"]
                ELSE Append(fns, NewFn(f, params, "defined"))
  BY DEF BeginDef
<1>2. frames'[1].fn = k
  BY <1>1 DEF Frame
<1>3. Takes(f, params, "defined", k)
  BY <1>1, <1>2 DEF Takes
<1> HIDE DEF k
<1> QED
  BY <1>1, <1>3, DefGains DEF FnGained

LEMMA EraseDefFns ==
  ASSUME TypeOK, EraseDef
  PROVE  FnLost
<1> DEFINE fn == frames[1].fn
           Left(i) == [fns[i] EXCEPT !.users = @ \ {fn},
                                     !.state = IF i = fn THEN "erased" ELSE @]
<1>1. /\ Len(frames) = 1 /\ frames' = <<>> /\ defs' = defs
      /\ module' = [module EXCEPT ![fns[fn].name] = 0]
      /\ fns' = [i \in DOMAIN fns |-> Left(i)]
  BY DEF EraseDef
<1>2. fns \in Seq(Fns) /\ DOMAIN fns = 1..Len(fns) /\ Len(fns) \in Nat
  BY DEF TypeOK
<1> HIDE DEF fn
<1>3. ASSUME NEW i \in 1..Len(fns)
      PROVE  /\ Left(i).name = fns[i].name /\ Left(i).arity = fns[i].arity
             /\ Left(i).origin = fns[i].origin
             /\ Left(i).state = IF i = fn THEN "erased" ELSE fns[i].state
  <2>1. fns[i] \in Fns
    BY <1>2
  <2> QED
    BY <2>1 DEF Fns
<1> HIDE DEF Left
<1>4. fns' = [i \in 1..Len(fns) |-> Left(i)]
  BY <1>1, <1>2
<1>5. Len(fns') = Len(fns) /\ \A i \in 1..Len(fns) : fns'[i] = Left(i)
  BY <1>2, <1>4
<1> QED
  BY <1>1, <1>3, <1>5 DEF FnLost, fn

LEMMA StepsOnFns ==
  ASSUME WellFormed, [Next]_vars
  PROVE  FnStep
<1>1. TypeOK /\ Placed
  BY DEF WellFormed
<1>2. Parsed \subseteq Exprs
  BY DEF Parsed
<1>3. ASSUME NEW e \in Parsed, ExprStmt(e) \/ RetStmt(e) \/ IfCond(e) \/ ForTail(e)
      PROVE  FnStep
  BY <1>1, <1>3, StatementFns DEF FnStep
<1>4. ASSUME NEW e \in Parsed, NEW n \in Idents, NEW type \in {"double", "int"},
             VarDecl(n, type, e)
      PROVE  FnStep
  BY <1>1, <1>4, VarDeclFns DEF FnStep
<1>5. ASSUME NEW e \in Parsed, NEW n \in Idents, NEW end \in Parsed, ForHead(n, e, end)
      PROVE  FnStep
  BY <1>1, <1>2, <1>5, ForHeadFns DEF FnStep
<1>6. ASSUME \/ (\E e \in Parsed : IfSkipped(e)) \/ IfElse \/ IfMerge
             \/ EndDef \/ Finish \/ Stopped \/ UNCHANGED vars
      PROVE  FnStep
  <2>1. UNCHANGED <<module, defs, fns>> /\ (frames = <<>> => frames' = <<>>)
    BY <1>6 DEF IfSkipped, IfElse, IfMerge, EndDef, Finish, Stopped, Stop, vars
  <2> QED
    BY <1>1, <2>1, FnsSame DEF FnStep
<1>7. ASSUME NEW f \in Funcs, NEW params \in ParamLists,
             RefusedDef(f, params) \/ ExternDef(f, params) \/ BeginDef(f, params)
      PROVE  FnStep
  BY <1>1, <1>7, RefusedDefFns, ExternDefFns, BeginDefFns DEF FnStep
<1>8. ASSUME EraseDef
      PROVE  FnStep
  BY <1>1, <1>8, EraseDefFns DEF FnStep
<1> QED
  BY <1>3, <1>4, <1>5, <1>6, <1>7, <1>8 DEF Next

LEMMA FirstKept ==
  ASSUME NEW F \in Seq(Frames), Len(F) >= 1, NEW x, NEW G, G = Append(F, x)
  PROVE  G[1] = F[1]
  OBVIOUS

LEMMA FnsTyped ==
  ASSUME TypeOK
  PROVE  \A i \in 1..Len(fns) : /\ fns[i].name \in Funcs
                                /\ fns[i].origin \in {"declared", "defined"}
                                /\ fns[i].state \in {"declared", "defined", "erased"}
<1>1. \A i \in 1..Len(fns) : fns[i] \in Fns
  BY DEF TypeOK
<1> QED
  BY <1>1 DEF Fns

(* A step stays in the function under way, or leaves it.                   *)
LEMMA SameFunction ==
  ASSUME WellFormed, TypeOK', [Next]_vars, frames # <<>>, frames' # <<>>
  PROVE  frames'[1].fn = frames[1].fn
<1> DEFINE F == Front(frames)
<1>1. TypeOK /\ Placed /\ frames \in Seq(Frames) /\ frames' \in Seq(Frames)
  BY DEF WellFormed, TypeOK
<1>2. Len(frames) \in Nat /\ Len(frames) >= 1 /\ Len(frames') >= 1
  BY <1>1
<1>3. ASSUME Len(frames) >= 2
      PROVE  F \in Seq(Frames) /\ Len(F) >= 1 /\ F[1] = frames[1]
  BY <1>1, <1>3, PlacedWithout DEF TypeOK, Placed
<1>4. ASSUME Last(frames).kind # "func" PROVE Len(frames) >= 2
  BY <1>1, <1>4, NestedFrames
<1>5. CASE frames' = frames
  BY <1>5
<1>6. CASE \E v \in {"none", "some"} : frames' = Valued(v)
  <2>1. Alike(frames', frames)
    BY <1>1, <1>6, ValuedFrames
  <2> QED
    BY <1>2, <2>1 DEF Alike
<1>8. CASE Last(frames).kind # "func" /\ frames' = Popped
  <2>1. Alike(frames', F) /\ Len(F) >= 1 /\ F[1] = frames[1]
    BY <1>1, <1>3, <1>4, <1>8, PoppedFrames
  <2> HIDE DEF F
  <2>2. Len(frames') = Len(F) /\ \A i \in 1..Len(F) : frames'[i].fn = F[i].fn
    BY <2>1 DEF Alike
  <2> QED
    BY <1>2, <2>1, <2>2
<1>10. ASSUME NEW e, ExprStmt(e) \/ RetStmt(e) \/ IfSkipped(e)
       PROVE  frames'[1].fn = frames[1].fn
  BY <1>5, <1>6, <1>10 DEF ExprStmt, RetStmt, IfSkipped, Stop, ValueOf
<1>11. ASSUME NEW e, NEW n, NEW type, VarDecl(n, type, e)
       PROVE  frames'[1].fn = frames[1].fn
  BY <1>5, <1>6, <1>11 DEF VarDecl, Stop
<1>12. ASSUME NEW e, IfCond(e)
       PROVE  frames'[1].fn = frames[1].fn
  <2>1. frames' = frames \/ \E x : frames' = Append(frames, x)
    BY <1>12 DEF IfCond, Stop
  <2> QED
    BY <1>1, <1>2, <2>1, FirstKept
<1>13. ASSUME NEW e, NEW n, NEW end, ForHead(n, e, end)
       PROVE  frames'[1].fn = frames[1].fn
  <2>1. frames' = frames \/ \E x : frames' = Append(frames, x)
    BY <1>13 DEF ForHead, Stop
  <2> QED
    BY <1>1, <1>2, <2>1, FirstKept
<1>14. ASSUME NEW e, ForTail(e) \/ IfMerge
       PROVE  frames'[1].fn = frames[1].fn
  <2>1. frames' = frames \/ (frames' = Popped /\ Last(frames).kind # "func")
    BY <1>14 DEF ForTail, IfMerge, Stop
  <2> QED
    BY <1>8, <2>1
<1>15. ASSUME IfElse
       PROVE  frames'[1].fn = frames[1].fn
  <2>1. Last(frames).kind # "func" /\ \E x : frames' = Append(F, x)
    BY <1>15 DEF IfElse
  <2>2. F \in Seq(Frames) /\ Len(F) >= 1 /\ F[1] = frames[1]
    BY <1>3, <1>4, <2>1
  <2> HIDE DEF F
  <2> QED
    BY <2>1, <2>2, FirstKept
<1>16. ASSUME NEW f \in Funcs, NEW params \in ParamLists,
              RefusedDef(f, params) \/ ExternDef(f, params) \/ BeginDef(f, params)
       PROVE  FALSE
  BY <1>16 DEF RefusedDef, ExternDef, BeginDef
<1>17. CASE EndDef \/ EraseDef \/ Finish \/ Stopped \/ UNCHANGED vars
  BY <1>5, <1>17 DEF EndDef, EraseDef, Finish, Stopped, vars
<1> QED
  BY <1>10, <1>11, <1>12, <1>13, <1>14, <1>15, <1>16, <1>17 DEF Next

(* The module finds a live function under its name, and finds every one.   *)
Known ==
  /\ \A h \in Funcs : module[h] # 0 => /\ fns[module[h]].name = h
                                       /\ fns[module[h]].state # "erased"
  /\ \A i \in 1..Len(fns) : fns[i].state # "erased" => module[fns[i].name] = i
  /\ \A i \in 1..Len(fns) : fns[i].state = "declared" => fns[i].origin = "declared"

(* What the parser checked a call against is what the module holds, until  *)
(* the first function is erased.                                           *)
Erased == \E i \in 1..Len(fns) : fns[i].state = "erased"

Agreed ==
  ~Erased => \A h \in Funcs : /\ (defs[h] # Null) = (module[h] # 0)
                              /\ module[h] # 0 => fns[module[h]].arity = defs[h]

(* A function under way that was not declared before has no other users.   *)
OwnUsers ==
  frames # <<>> /\ fns[frames[1].fn].origin = "defined"
    => fns[frames[1].fn].users \subseteq {frames[1].fn}

(* The function under way is one that a definition fills.                  *)
Live ==
  frames # <<>> => fns[frames[1].fn].state = "defined"

Naming == Known /\ Agreed /\ OwnUsers /\ Live

LEMMA NamingStarts ==
  Init => Naming
  BY DEF Init, Naming, Known, Agreed, OwnUsers, Live

LEMMA UsedNames ==
  ASSUME TypeOK, Placed, Naming, FnsUsed,
         frames # <<>> /\ frames' # <<>> => frames'[1].fn = frames[1].fn
  PROVE  Naming'
<1>1. /\ module \in [Funcs -> 0..Len(fns)] /\ Len(fns) \in Nat
      /\ \A i \in 1..Len(fns) : fns[i] \in Fns
  BY DEF TypeOK
<1>2. /\ module' = module /\ defs' = defs /\ Len(fns') = Len(fns)
      /\ \A i \in 1..Len(fns) :
           /\ fns'[i].name = fns[i].name /\ fns'[i].arity = fns[i].arity
           /\ fns'[i].state = fns[i].state /\ fns'[i].origin = fns[i].origin
           /\ fns'[i].users \subseteq fns[i].users \cup {CurrentFn}
  BY DEF FnsUsed, Same
<1>3. \A h \in Funcs : module[h] # 0 => module[h] \in 1..Len(fns)
  BY <1>1
<1>4. Known'
  BY <1>2, <1>3 DEF Naming, Known
<1>5. Agreed'
  BY <1>2, <1>3 DEF Naming, Agreed, Erased
<1>6. OwnUsers'
  <2> SUFFICES ASSUME frames' # <<>>, fns'[frames'[1].fn].origin = "defined"
               PROVE  fns'[frames'[1].fn].users \subseteq {frames'[1].fn}
    BY DEF OwnUsers
  <2>1. frames # <<>> /\ frames'[1].fn = frames[1].fn /\ CurrentFn = frames[1].fn
    BY CurrentIsFn DEF FnsUsed
  <2>2. frames[1].fn \in 1..Len(fns)
    BY <1>1, <2>1, CurrentIsFn, BoundsAssumption
  <2> QED
    BY <1>2, <2>1, <2>2 DEF Naming, OwnUsers
<1>7. Live'
  <2> SUFFICES ASSUME frames' # <<>> PROVE fns'[frames'[1].fn].state = "defined"
    BY DEF Live
  <2>1. frames # <<>> /\ frames'[1].fn = frames[1].fn /\ CurrentFn = frames[1].fn
    BY CurrentIsFn DEF FnsUsed
  <2>2. frames[1].fn \in 1..Len(fns)
    BY <1>1, <2>1, CurrentIsFn, BoundsAssumption
  <2> QED
    BY <1>2, <2>1, <2>2 DEF Naming, Live
<1> QED
  BY <1>4, <1>5, <1>6, <1>7 DEF Naming

LEMMA RefusedNames ==
  ASSUME TypeOK, Naming, FnRefused
  PROVE  Naming'
<1>1. PICK f \in Funcs, params \in ParamLists :
        module[f] # 0 /\ defs' = Registered(f, params)
  BY DEF FnRefused
<1>2. UNCHANGED <<module, fns, frames>> /\ defs \in [Funcs -> Nat \cup {Null}]
  BY DEF FnRefused, TypeOK
<1>3. Known' /\ OwnUsers' /\ Live'
  BY <1>2 DEF Naming, Known, OwnUsers, Live
<1>4. Agreed'
  <2> SUFFICES ASSUME ~Erased
               PROVE  \A h \in Funcs : /\ (defs'[h] # Null) = (module[h] # 0)
                                       /\ module[h] # 0 => fns[module[h]].arity = defs'[h]
    BY <1>2 DEF Agreed, Erased
  <2>1. defs[f] # Null
    BY <1>1 DEF Naming, Agreed
  <2>2. defs' = defs
    BY <1>1, <1>2, <2>1 DEF Registered
  <2> QED
    BY <2>2 DEF Naming, Agreed
<1> QED
  BY <1>3, <1>4 DEF Naming

LEMMA GainedNames ==
  ASSUME TypeOK, TypeOK', Naming, FnGained
  PROVE  Naming'
<1>1. PICK f \in Funcs, params \in ParamLists, k \in 1..MaxFns : Gains(f, params, k)
  BY DEF FnGained
<1>2. /\ module \in [Funcs -> 0..Len(fns)] /\ Len(fns) \in Nat /\ Len(fns') \in Nat
      /\ defs \in [Funcs -> Nat \cup {Null}] /\ MaxFns \in Nat
      /\ \A i \in 1..Len(fns) : fns[i].name \in Funcs
      /\ Len(params) \in Nat
  <2>1. \A i \in 1..Len(fns) : fns[i].name \in Funcs
    BY FnsTyped
  <2>2. Len(params) \in Nat /\ MaxFns \in Nat
    BY BoundsAssumption, ParamListsAssumption
  <2>3. /\ module \in [Funcs -> 0..Len(fns)] /\ Len(fns) \in Nat
        /\ defs \in [Funcs -> Nat \cup {Null}]
    BY DEF TypeOK
  <2>4. Len(fns') \in Nat
    BY DEF TypeOK
  <2> QED
    BY <2>1, <2>2, <2>3, <2>4
<1>3. /\ module' = [module EXCEPT ![f] = k] /\ Len(fns) <= Len(fns') /\ k \in 1..Len(fns')
      /\ \A i \in 1..Len(fns') : i # k => i \in 1..Len(fns) /\ fns'[i] = fns[i]
      /\ fns'[k].arity = Len(params) /\ fns'[k].state \in {"declared", "defined"}
      /\ defs' = Registered(f, params)
      /\ frames' # <<>> => frames'[1].fn = k /\ fns'[k].state = "defined"
      /\ \/ /\ module[f] = 0 /\ k = Len(fns) + 1
            /\ fns'[k].name = f /\ fns'[k].origin = fns'[k].state /\ fns'[k].users = {}
         \/ /\ module[f] = k /\ k \in 1..Len(fns) /\ fns[k].state = "declared"
            /\ fns'[k].name = fns[k].name /\ fns'[k].origin = fns[k].origin
            /\ fns'[k].arity = fns[k].arity
  BY <1>1 DEF Gains
<1>4. /\ fns'[k].name = f /\ module'[f] = k
      /\ \A h \in Funcs : h # f => module'[h] = module[h]
      /\ \A h \in Funcs : h # f /\ module[h] # 0 => module[h] \in 1..Len(fns) /\ module[h] # k
  BY <1>2, <1>3 DEF Naming, Known
<1>5. Known'
  <2>1. ASSUME NEW h \in Funcs, module'[h] # 0
        PROVE  fns'[module'[h]].name = h /\ fns'[module'[h]].state # "erased"
    <3>1. CASE h = f
      BY <1>3, <1>4, <3>1
    <3>2. CASE h # f
      <4>1. /\ module'[h] = module[h] /\ module[h] \in 1..Len(fns') /\ module[h] # k
        BY <1>2, <1>3, <1>4, <2>1, <3>2
      <4>2. fns'[module[h]] = fns[module[h]]
        BY <1>3, <4>1
      <4> QED
        BY <2>1, <4>1, <4>2 DEF Naming, Known
    <3> QED
      BY <3>1, <3>2
  <2>2. ASSUME NEW i \in 1..Len(fns'), fns'[i].state # "erased"
        PROVE  module'[fns'[i].name] = i
    <3>1. CASE i = k
      BY <1>4, <3>1
    <3>2. CASE i # k
      <4>1. /\ i \in 1..Len(fns) /\ fns'[i] = fns[i] /\ fns[i].name \in Funcs
            /\ module[fns[i].name] = i
        BY <1>2, <1>3, <2>2, <3>2 DEF Naming, Known
      <4>2. fns[i].name # f
        BY <1>2, <1>3, <3>2, <4>1
      <4> QED
        BY <1>4, <4>1, <4>2
    <3> QED
      BY <3>1, <3>2
  <2>3. ASSUME NEW i \in 1..Len(fns'), fns'[i].state = "declared"
        PROVE  fns'[i].origin = "declared"
    <3>1. CASE i = k
      BY <1>3, <2>3, <3>1 DEF Naming, Known
    <3>2. CASE i # k
      BY <1>3, <2>3, <3>2 DEF Naming, Known
    <3> QED
      BY <3>1, <3>2
  <2> QED
    BY <2>1, <2>2, <2>3 DEF Known
<1>6. Agreed'
  <2> SUFFICES ASSUME ~Erased', NEW h \in Funcs
               PROVE  /\ (defs'[h] # Null) = (module'[h] # 0)
                      /\ module'[h] # 0 => fns'[module'[h]].arity = defs'[h]
    BY DEF Agreed
  <2>1. ~Erased
    <3> SUFFICES ASSUME NEW i \in 1..Len(fns), fns[i].state = "erased" PROVE FALSE
      BY DEF Erased
    <3>1. i # k /\ i \in 1..Len(fns')
      BY <1>2, <1>3
    <3>2. fns'[i].state = "erased"
      BY <1>3, <3>1
    <3> QED
      BY <3>1, <3>2 DEF Erased
  <2>2. /\ (defs[h] # Null) = (module[h] # 0)
        /\ module[h] # 0 => fns[module[h]].arity = defs[h]
    BY <2>1 DEF Naming, Agreed
  <2>3. CASE h # f
    <3>1. defs'[h] = defs[h] /\ module'[h] = module[h]
      BY <1>2, <1>3, <1>4, <2>3 DEF Registered
    <3>2. module[h] # 0 => fns'[module[h]] = fns[module[h]]
      <4> SUFFICES ASSUME module[h] # 0 PROVE fns'[module[h]] = fns[module[h]]
        OBVIOUS
      <4>1. module[h] \in 1..Len(fns') /\ module[h] # k
        BY <1>2, <1>3, <1>4, <2>3
      <4> QED
        BY <1>3, <4>1
    <3> QED
      BY <2>2, <3>1, <3>2
  <2>4. CASE h = f
    <3>1. defs'[f] = IF defs[f] = Null THEN Len(params) ELSE defs[f]
      BY <1>2, <1>3 DEF Registered
    <3>2. module'[f] = k /\ k # 0 /\ fns'[k].arity = Len(params)
      BY <1>2, <1>3, <1>4
    <3>3. CASE module[f] = 0
      <4>1. defs'[f] = Len(params)
        BY <2>2, <2>4, <3>1, <3>3
      <4> QED
        BY <1>2, <2>4, <3>2, <4>1, NullAssumption
    <3>4. CASE module[f] # 0
      <4>1. module[f] = k /\ fns'[k].arity = fns[k].arity
        BY <1>3, <3>4
      <4>2. defs'[f] = defs[f] /\ defs[f] # Null
        BY <2>2, <2>4, <3>1, <3>4
      <4> QED
        BY <2>2, <2>4, <3>2, <4>1, <4>2
    <3> QED
      BY <3>3, <3>4
  <2> QED
    BY <2>3, <2>4
<1>7. OwnUsers'
  <2> SUFFICES ASSUME frames' # <<>>, fns'[frames'[1].fn].origin = "defined"
               PROVE  fns'[frames'[1].fn].users \subseteq {frames'[1].fn}
    BY DEF OwnUsers
  <2>1. module[f] = 0 \/ fns[k].state = "declared"
    BY <1>3
  <2>2. fns'[k].origin = "defined" /\ frames'[1].fn = k
    BY <1>3
  <2> QED
    BY <1>3, <2>1, <2>2 DEF Naming, Known
<1>8. Live'
  BY <1>3 DEF Live
<1> QED
  BY <1>5, <1>6, <1>7, <1>8 DEF Naming

LEMMA LostNames ==
  ASSUME TypeOK, Placed, Naming, FnLost
  PROVE  Naming'
<1> DEFINE fn == frames[1].fn
<1>0. frames # <<>>
  <2>1. Len(frames) = 1
    BY DEF FnLost
  <2> QED
    BY ONLY <2>1
<1>1. /\ fn \in 1..Len(fns) /\ module \in [Funcs -> 0..Len(fns)] /\ Len(fns) \in Nat
      /\ \A i \in 1..Len(fns) : fns[i].name \in Funcs
  <2>1. module \in [Funcs -> 0..Len(fns)] /\ Len(fns) \in Nat
    BY DEF TypeOK
  <2>2. fn \in 1..Len(fns)
    BY <1>0, CurrentIsFn
  <2>3. \A i \in 1..Len(fns) : fns[i].name \in Funcs
    BY FnsTyped
  <2> QED
    BY <2>1, <2>2, <2>3
<1> HIDE DEF fn
<1>2. /\ frames' = <<>> /\ module' = [module EXCEPT ![fns[fn].name] = 0]
      /\ Len(fns') = Len(fns)
      /\ \A i \in 1..Len(fns) :
           /\ fns'[i].name = fns[i].name /\ fns'[i].origin = fns[i].origin
           /\ fns'[i].state = IF i = fn THEN "erased" ELSE fns[i].state
  BY DEF FnLost, fn
<1>4. fns[fn].state = "defined"
  BY <1>0 DEF Naming, Live, fn
<1>3. Known'
  <2>1. ASSUME NEW h \in Funcs, module'[h] # 0
        PROVE  fns'[module'[h]].name = h /\ fns'[module'[h]].state # "erased"
    <3>1. h # fns[fn].name /\ module'[h] = module[h] /\ module[h] \in 1..Len(fns)
      BY <1>1, <1>2, <2>1
    <3>2. fns[module[h]].name = h /\ fns[module[h]].state # "erased"
      BY <2>1, <3>1 DEF Naming, Known
    <3> QED
      BY <1>2, <3>1, <3>2
  <2>2. ASSUME NEW i \in 1..Len(fns'), fns'[i].state # "erased"
        PROVE  module'[fns'[i].name] = i
    <3>1. i \in 1..Len(fns) /\ i # fn /\ fns[i].state # "erased" /\ fns'[i].name = fns[i].name
      BY <1>2, <2>2
    <3>2. module[fns[i].name] = i
      BY <3>1 DEF Naming, Known
    <3>3. fns[fn].name # fns[i].name
      BY <1>1, <1>4, <3>1, <3>2 DEF Naming, Known
    <3> QED
      BY <1>1, <1>2, <3>1, <3>2, <3>3
  <2>3. ASSUME NEW i \in 1..Len(fns'), fns'[i].state = "declared"
        PROVE  fns'[i].origin = "declared"
    BY <1>2, <2>3 DEF Naming, Known
  <2> QED
    BY <2>1, <2>2, <2>3 DEF Known
<1>5. Erased'
  BY <1>1, <1>2 DEF Erased
<1> QED
  BY <1>2, <1>3, <1>5 DEF Naming, Agreed, OwnUsers, Live

LEMMA NamingStays ==
  ASSUME WellFormed, Naming, [Next]_vars
  PROVE  Naming'
<1>1. TypeOK /\ Placed /\ TypeOK' /\ FnStep
  BY NextSteps, StepsOnFns DEF WellFormed
<1>2. frames # <<>> /\ frames' # <<>> => frames'[1].fn = frames[1].fn
  BY <1>1, SameFunction
<1> QED
  BY <1>1, <1>2, UsedNames, RefusedNames, GainedNames, LostNames DEF FnStep

LEMMA AlwaysNamed ==
  Spec => [](WellFormed /\ Naming)
<1>1. WellFormed /\ Naming /\ [Next]_vars => (WellFormed /\ Naming)'
  BY WellFormedStays, NamingStays
<1> QED
  BY InitWellFormed, NamingStarts, <1>1, PTL DEF Spec

(* No function comes back once it is erased.                               *)
LEMMA ErasedStays ==
  ASSUME TypeOK, FnStep
  PROVE  \A i \in 1..Len(fns) :
           /\ i \in 1..Len(fns')
           /\ fns'[i].origin = fns[i].origin
           /\ fns[i].state = "erased" => fns'[i].state = "erased"
<1> SUFFICES ASSUME NEW i \in 1..Len(fns)
             PROVE  /\ i \in 1..Len(fns')
                    /\ fns'[i].origin = fns[i].origin
                    /\ fns[i].state = "erased" => fns'[i].state = "erased"
  OBVIOUS
<1>1. CASE FnsUsed
  BY <1>1 DEF FnsUsed, Same
<1>2. CASE FnRefused
  BY <1>2 DEF FnRefused
<1>3. CASE FnGained
  <2>1. PICK f \in Funcs, params \in ParamLists, k \in 1..MaxFns : Gains(f, params, k)
    BY <1>3 DEF FnGained
  <2>2. Len(fns) \in Nat /\ Len(fns') \in Nat /\ Len(fns) <= Len(fns')
    BY <2>1 DEF TypeOK, Gains
  <2>3. i # k => fns'[i] = fns[i]
    BY <2>1, <2>2 DEF Gains
  <2>4. i = k => fns[i].state = "declared" /\ fns'[i].origin = fns[i].origin
    BY <2>1, <2>2 DEF Gains
  <2> QED
    BY <2>2, <2>3, <2>4
<1>4. CASE FnLost
  BY <1>4 DEF FnLost
<1> QED
  BY <1>1, <1>2, <1>3, <1>4 DEF FnStep

(* Where the faults of a call come from.                                   *)
BadCall == \E e \in Parsed : NoCallee(e) \/ BadArity(e)

LEMMA FaultsCause ==
  ASSUME [Next]_vars, status' # status
  PROVE  \/ status' \in {"callee", "arity"} /\ UNCHANGED fns /\ BadCall
         \/ /\ status' = "use" /\ EraseDef
            /\ ~(fns[frames[1].fn].users \subseteq {frames[1].fn})
         \/ status' \notin {"callee", "arity", "use"}
<1> DEFINE Goal == \/ status' \in {"callee", "arity"} /\ UNCHANGED fns /\ BadCall
                   \/ /\ status' = "use" /\ EraseDef
                      /\ ~(fns[frames[1].fn].users \subseteq {frames[1].fn})
                   \/ status' \notin {"callee", "arity", "use"}
<1>1. ASSUME NEW e \in Parsed, NEW stk, NEW use, status' \in FaultsOf(stk, e, use),
             UNCHANGED fns
      PROVE  Goal
  BY <1>1 DEF FaultsOf, BadCall
<1>2. ASSUME NEW e \in Parsed, ExprStmt(e) \/ RetStmt(e) \/ IfSkipped(e) \/ IfCond(e) \/ ForTail(e)
      PROVE  Goal
  BY <1>1, <1>2 DEF ExprStmt, RetStmt, IfSkipped, IfCond, ForTail, Stop
<1>3. ASSUME NEW e \in Parsed, NEW n \in Idents, NEW type \in {"double", "int"},
             VarDecl(n, type, e)
      PROVE  Goal
  <2>1. /\ UNCHANGED fns
        /\ status' \in {"noblock", "dangling", "storetype"} \/ status' \in FaultsOf(symtab_stack, e, "operand")
    BY <1>3 DEF VarDecl, Stop
  <2> QED
    BY <1>1, <2>1
<1>4. ASSUME NEW e \in Parsed, NEW n \in Idents, NEW end \in Parsed, ForHead(n, e, end)
      PROVE  Goal
  <2>1. /\ UNCHANGED fns
        /\ \E stk, x : x \in {e, end} /\ status' \in FaultsOf(stk, x, "operand")
    BY <1>4 DEF ForHead, Stop
  <2> QED
    BY <1>1, <2>1
<1>5. CASE IfElse \/ IfMerge \/ EndDef \/ Finish \/ Stopped \/ UNCHANGED vars
  BY <1>5 DEF IfElse, IfMerge, EndDef, Finish, Stopped, Stop, vars
<1>6. ASSUME NEW f \in Funcs, NEW params \in ParamLists,
             RefusedDef(f, params) \/ ExternDef(f, params) \/ BeginDef(f, params)
      PROVE  Goal
  BY <1>6 DEF RefusedDef, ExternDef, BeginDef
<1>7. CASE EraseDef
  BY <1>7 DEF EraseDef
<1> QED
  BY <1>2, <1>3, <1>4, <1>5, <1>6, <1>7 DEF Next

LEMMA BadCallErased ==
  ASSUME Naming, TypeOK, BadCall
  PROVE  Erased
<1>0. PICK e \in Parsed : NoCallee(e) \/ BadArity(e)
  BY DEF BadCall
<1>1. PICK f \in e.calls : \/ module[f] = 0
                           \/ module[f] # 0 /\ fns[module[f]].arity # defs[f]
  BY <1>0 DEF NoCallee, BadArity
<1>2. f \in Funcs /\ defs[f] # Null
  BY <1>1, ExprsAssumption DEF Parsed
<1> QED
  BY <1>1, <1>2 DEF Naming, Agreed

LEMMA FaultsNeedErasure ==
  ASSUME WellFormed, Naming, CallFaultsNeedErasure, [Next]_vars
  PROVE  CallFaultsNeedErasure'
<1>1. TypeOK /\ Placed /\ TypeOK' /\ FnStep
  BY NextSteps, StepsOnFns DEF WellFormed
<1>2. /\ DOMAIN fns = 1..Len(fns) /\ DOMAIN fns' = 1..Len(fns') /\ Len(fns) \in Nat
  BY <1>1 DEF TypeOK
<1>3. CASE status' = status
  BY <1>1, <1>2, <1>3, ErasedStays DEF CallFaultsNeedErasure
<1>4. CASE status' # status /\ status' \in {"callee", "arity"}
  <2>1. UNCHANGED fns /\ BadCall
    BY <1>4, FaultsCause
  <2>2. Erased
    BY <1>1, <2>1, BadCallErased
  <2> QED
    BY <1>2, <1>4, <2>1, <2>2 DEF CallFaultsNeedErasure, Erased
<1>5. CASE status' # status /\ status' = "use"
  <2>1. EraseDef /\ ~(fns[frames[1].fn].users \subseteq {frames[1].fn})
    BY <1>5, FaultsCause
  <2>2. FnLost /\ Len(frames) = 1
    BY <1>1, <2>1, EraseDefFns DEF FnLost
  <2>3. frames # <<>>
    BY ONLY <2>2
  <2>4. frames[1].fn \in 1..Len(fns)
    BY <1>1, <1>2, <2>3, CurrentIsFn, BoundsAssumption
  <2>5. fns[frames[1].fn].origin = "declared"
    BY <1>1, <2>1, <2>3, <2>4, FnsTyped DEF Naming, OwnUsers
  <2>6. /\ fns'[frames[1].fn].state = "erased" /\ Len(fns') = Len(fns)
        /\ fns'[frames[1].fn].origin = "declared"
    BY <2>2, <2>4, <2>5 DEF FnLost
  <2> QED
    BY <1>2, <1>5, <2>4, <2>6 DEF CallFaultsNeedErasure
<1>6. CASE status' \notin {"callee", "arity", "use"}
  BY <1>6 DEF CallFaultsNeedErasure
<1> QED
  BY <1>3, <1>4, <1>5, <1>6

(* A call that finds no function, one with another number of parameters,   *)
(* or one that is used when it is freed, takes a function erased before.   *)
THEOREM CallFaultsComeOfErasure ==
  Spec => []CallFaultsNeedErasure
<1>1. Init => CallFaultsNeedErasure
  BY DEF Init, CallFaultsNeedErasure
<1>2. WellFormed /\ Naming /\ CallFaultsNeedErasure /\ [Next]_vars => CallFaultsNeedErasure'
  BY FaultsNeedErasure
<1> QED
  BY AlwaysNamed, <1>1, <1>2, PTL DEF Spec
=============================================================================
