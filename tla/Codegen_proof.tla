---------------------------- MODULE Codegen_proof ----------------------------
(***************************************************************************)
(* Theorems about Codegen for every set of names, functions, parameter     *)
(* lists and expressions, and any number of functions, blocks and scopes.  *)
(***************************************************************************)
EXTENDS Codegen, Scopes_proof, FiniteSetTheorems

(* What the helpers on blocks, functions and frames do to them.            *)
LEMMA NewBlocks ==
  ASSUME NEW fn \in 0..MaxFns,
         NEW label \in {"entry", "then", "else", "ifcont", "for.cond", "for.body",
                        "for.inc", "for.exit", "ret_enter", "ret_exit"}
  PROVE  /\ NewBlock(fn, label) \in Blocks
         /\ NewBlock(fn, label).fn = fn
         /\ NewBlock(fn, label).terms = <<>>
<1>1. <<>> \in Seq(SUBSET (1..MaxBlocks))
  OBVIOUS
<1> QED
  BY <1>1 DEF NewBlock, Blocks

LEMMA TerminatedBlocks ==
  ASSUME NEW B \in Seq(Blocks), NEW b \in 1..Len(B),
         NEW s \in SUBSET (1..MaxBlocks)
  PROVE  /\ Terminated(B, b, s) \in Seq(Blocks)
         /\ Len(Terminated(B, b, s)) = Len(B)
         /\ \A c \in 1..Len(B) : Terminated(B, b, s)[c].fn = B[c].fn
         /\ \A c \in 1..Len(B) : c # b => Terminated(B, b, s)[c] = B[c]
<1> DEFINE new == [B[b] EXCEPT !.terms = Append(@, s)]
<1>1. B[b] \in Blocks
  OBVIOUS
<1>2. Append(B[b].terms, s) \in Seq(SUBSET (1..MaxBlocks))
  BY <1>1 DEF Blocks
<1>3. new \in Blocks /\ new.fn = B[b].fn
  BY <1>1, <1>2 DEF Blocks
<1>4. Terminated(B, b, s) = [B EXCEPT ![b] = new]
  BY DEF Terminated
<1> HIDE DEF new
<1> QED
  BY <1>3, <1>4

LEMMA UsingBlocks ==
  ASSUME NEW B \in Seq(Blocks), NEW b \in 0..Len(B),
         NEW U \in SUBSET (1..MaxFns)
  PROVE  /\ Using(B, b, U) \in Seq(Blocks)
         /\ Len(Using(B, b, U)) = Len(B)
         /\ \A c \in 1..Len(B) : /\ Using(B, b, U)[c].fn = B[c].fn
                                /\ Using(B, b, U)[c].terms = B[c].terms
<1>1. CASE b = 0
  BY <1>1 DEF Using
<1>2. CASE b # 0
  <2> DEFINE new == [B[b] EXCEPT !.uses = @ \cup U]
  <2>1. B[b] \in Blocks /\ b \in 1..Len(B)
    BY <1>2
  <2>2. new \in Blocks /\ new.fn = B[b].fn /\ new.terms = B[b].terms
    BY <2>1 DEF Blocks
  <2>3. Using(B, b, U) = [B EXCEPT ![b] = new]
    BY <1>2 DEF Using
  <2> HIDE DEF new
  <2> QED
    BY <2>1, <2>2, <2>3
<1> QED
  BY <1>1, <1>2

LEMMA AttachedBlocks ==
  ASSUME NEW B \in Seq(Blocks), NEW b \in 1..Len(B), NEW fn \in 0..MaxFns
  PROVE  /\ Attached(B, b, fn) \in Seq(Blocks)
         /\ Len(Attached(B, b, fn)) = Len(B)
         /\ \A c \in 1..Len(B) : Attached(B, b, fn)[c].terms = B[c].terms
         /\ \A c \in 1..Len(B) : c # b => Attached(B, b, fn)[c] = B[c]
         /\ Attached(B, b, fn)[b].fn = fn
<1> DEFINE new == [B[b] EXCEPT !.fn = fn]
<1>1. B[b] \in Blocks
  OBVIOUS
<1>2. new \in Blocks /\ new.fn = fn /\ new.terms = B[b].terms
  BY <1>1 DEF Blocks
<1>3. Attached(B, b, fn) = [B EXCEPT ![b] = new]
  BY DEF Attached
<1> HIDE DEF new
<1> QED
  BY <1>2, <1>3

LEMMA CalledFns ==
  ASSUME NEW F \in Seq(Fns), NEW e, NEW u \in 0..MaxFns
  PROVE  /\ Called(F, e, u) \in Seq(Fns)
         /\ Len(Called(F, e, u)) = Len(F)
         /\ \A i \in 1..Len(F) : /\ Called(F, e, u)[i].name = F[i].name
                                /\ Called(F, e, u)[i].state = F[i].state
<1>1. \A i \in 1..Len(F) :
        LET new == [F[i] EXCEPT !.users = @ \cup {u}] IN
        /\ new \in Fns /\ F[i] \in Fns
        /\ new.name = F[i].name /\ new.state = F[i].state
  <2> SUFFICES ASSUME NEW i \in 1..Len(F)
               PROVE  LET new == [F[i] EXCEPT !.users = @ \cup {u}] IN
                      /\ new \in Fns /\ F[i] \in Fns
                      /\ new.name = F[i].name /\ new.state = F[i].state
    OBVIOUS
  <2>1. F[i] \in Fns
    OBVIOUS
  <2> QED
    BY <2>1 DEF Fns
<1>2. DOMAIN F = 1..Len(F) /\ Len(F) \in Nat
  OBVIOUS
<1> QED
  BY <1>1, <1>2 DEF Called

LEMMA OwnersAreFns ==
  ASSUME NEW stk \in Seq(Tables(Slots)), Len(stk) >= 1, NEW e \in Exprs
  PROVE  Owners(stk, e) \in SUBSET (1..MaxFns)
<1>1. Names(e) \subseteq Idents
  BY ExprsAssumption DEF Names
<1>2. \A n \in Idents : Find(stk, "variable", n) \in Slots \cup {Null}
  BY FoundIsValue, KindsAssumption
<1>3. \A n \in Idents : Bound(stk, n) => Find(stk, "variable", n).fn \in 1..MaxFns
  BY <1>2 DEF Bound, Slots
<1> QED
  BY <1>1, <1>3 DEF Owners

(* Frames that differ in nothing but their values.                         *)
Alike(F, G) ==
  /\ Len(F) = Len(G)
  /\ \A i \in 1..Len(G) : /\ F[i].kind = G[i].kind /\ F[i].fn = G[i].fn
                         /\ F[i].next = G[i].next /\ F[i].join = G[i].join
                         /\ F[i].from = G[i].from

LEMMA ValuedFrames ==
  ASSUME frames \in Seq(Frames), NEW v \in {"none", "some"}
  PROVE  Valued(v) \in Seq(Frames) /\ Alike(Valued(v), frames)
<1>1. CASE frames = <<>>
  BY <1>1 DEF Valued, Alike
<1>2. CASE frames # <<>>
  <2> DEFINE n == Len(frames)
             new == [frames[n] EXCEPT !.value = v]
  <2>1. n \in 1..Len(frames) /\ frames[n] \in Frames
    BY <1>2
  <2>2. /\ new \in Frames
        /\ new.kind = frames[n].kind /\ new.fn = frames[n].fn
        /\ new.next = frames[n].next /\ new.join = frames[n].join
        /\ new.from = frames[n].from
    BY <2>1 DEF Frames
  <2>3. Valued(v) = [frames EXCEPT ![n] = new]
    BY <1>2 DEF Valued
  <2> HIDE DEF new
  <2> QED
    BY <2>1, <2>2, <2>3 DEF Alike
<1> QED
  BY <1>1, <1>2

LEMMA PoppedFrames ==
  ASSUME frames \in Seq(Frames), Len(frames) >= 2
  PROVE  Popped \in Seq(Frames) /\ Alike(Popped, Front(frames))
<1> DEFINE F == Front(frames)
           n == Len(frames) - 1
           new == [F[n] EXCEPT !.value = "some"]
<1>1. F \in Seq(Frames) /\ Len(F) = n /\ n \in 1..n
  BY DEF Front
<1>2. F[n] \in Frames
  <2> HIDE DEF F
  <2> QED
    BY <1>1
<1>3. /\ new \in Frames
      /\ new.kind = F[n].kind /\ new.fn = F[n].fn
      /\ new.next = F[n].next /\ new.join = F[n].join
      /\ new.from = F[n].from
  <2> HIDE DEF F
  <2> QED
    BY <1>2 DEF Frames
<1>4. Popped = [F EXCEPT ![n] = new]
  BY DEF Popped
<1>5. Popped \in Seq(Frames) /\ Alike(Popped, F)
  <2> HIDE DEF new, F
  <2> QED
    BY <1>1, <1>3, <1>4 DEF Alike
<1> QED
  BY <1>5
-----------------------------------------------------------------------------
(* The blocks that a statement under way will fill, or branch to, are      *)
(* there, and the one behind a loop belongs to the function.               *)
FramesPlaced(F, B) ==
  /\ F # <<>> => F[1].kind = "func"
  /\ \A i \in 1..Len(F) :
       /\ F[i].fn = F[1].fn
       /\ i # 1 => F[i].kind # "func"
       /\ F[i].kind # "func" => F[i].join \in 1..Len(B)
       /\ F[i].kind \in {"then", "for"} => F[i].next \in 1..Len(B)
       /\ F[i].kind \in {"else", "for"} => F[i].from \in 1..Len(B)
       /\ F[i].kind = "for" => B[F[i].join].fn = F[1].fn

(* Blocks belong to functions there are; the builder stands in a block of  *)
(* a function, and of the one under way if there is one.                   *)
Placed ==
  /\ FramesPlaced(frames, blocks)
  /\ \A b \in 1..Len(blocks) : blocks[b].fn <= Len(fns)
  /\ ip # 0 => blocks[ip].fn # 0
  /\ frames # <<>> => /\ ip # 0 /\ blocks[ip].fn = frames[1].fn
                      /\ frames[1].fn <= Len(fns)

(* Blocks C have grown from B while function fn was generated.             *)
Grown(B, C, fn) ==
  /\ Len(B) <= Len(C)
  /\ \A b \in 1..Len(B) : C[b].fn \in {B[b].fn, fn}
  /\ \A b \in (Len(B) + 1)..Len(C) : C[b].fn \in {0, fn}

LEMMA PlacedInGrown ==
  ASSUME NEW F \in Seq(Frames), NEW G \in Seq(Frames),
         NEW B \in Seq(Blocks), NEW C \in Seq(Blocks),
         FramesPlaced(F, B), Alike(G, F),
         F # <<>> => Grown(B, C, F[1].fn)
  PROVE  FramesPlaced(G, C)
<1>1. Len(B) \in Nat /\ Len(C) \in Nat /\ Len(F) \in Nat /\ Len(G) = Len(F)
  BY DEF Alike
<1>2. CASE F = <<>>
  BY <1>1, <1>2 DEF FramesPlaced
<1>3. CASE F # <<>>
  <2>1. Len(B) <= Len(C) /\ \A b \in 1..Len(B) : C[b].fn \in {B[b].fn, F[1].fn}
    BY <1>3 DEF Grown
  <2>2. Len(F) >= 1
    BY <1>3
  <2>3. G[1].kind = "func" /\ G[1].fn = F[1].fn
    BY <1>1, <1>3, <2>2 DEF FramesPlaced, Alike
  <2>4. ASSUME NEW i \in 1..Len(F)
        PROVE  /\ G[i].fn = G[1].fn
               /\ i # 1 => G[i].kind # "func"
               /\ G[i].kind # "func" => G[i].join \in 1..Len(C)
               /\ G[i].kind \in {"then", "for"} => G[i].next \in 1..Len(C)
               /\ G[i].kind \in {"else", "for"} => G[i].from \in 1..Len(C)
               /\ G[i].kind = "for" => C[G[i].join].fn = G[1].fn
    <3>1. /\ G[i].kind = F[i].kind /\ G[i].fn = F[i].fn /\ G[i].next = F[i].next
          /\ G[i].join = F[i].join /\ G[i].from = F[i].from
      BY <1>1 DEF Alike
    <3>2. \A b \in 1..Len(B) : b \in 1..Len(C)
      BY <1>1, <2>1
    <3> QED
      BY <2>1, <2>3, <3>1, <3>2 DEF FramesPlaced
  <2> QED
    BY <1>1, <2>3, <2>4 DEF FramesPlaced
<1> QED
  BY <1>2, <1>3

LEMMA PlacedWithNext ==
  ASSUME NEW F \in Seq(Frames), NEW B \in Seq(Blocks), NEW x \in Frames,
         F # <<>>, FramesPlaced(F, B),
         x.fn = F[1].fn, x.kind # "func", x.join \in 1..Len(B),
         x.kind \in {"then", "for"} => x.next \in 1..Len(B),
         x.kind \in {"else", "for"} => x.from \in 1..Len(B),
         x.kind = "for" => B[x.join].fn = F[1].fn
  PROVE  FramesPlaced(Append(F, x), B)
<1>1. /\ Len(F) \in Nat /\ Len(F) >= 1 /\ Len(Append(F, x)) = Len(F) + 1
      /\ \A i \in 1..Len(F) : Append(F, x)[i] = F[i]
      /\ Append(F, x)[Len(F) + 1] = x
  OBVIOUS
<1>2. \A i \in 1..(Len(F) + 1) : i \in 1..Len(F) \/ (i = Len(F) + 1 /\ i # 1)
  BY <1>1
<1> QED
  BY <1>1, <1>2 DEF FramesPlaced

LEMMA PlacedWithout ==
  ASSUME NEW F \in Seq(Frames), NEW B \in Seq(Blocks),
         Len(F) >= 2, FramesPlaced(F, B)
  PROVE  /\ FramesPlaced(Front(F), B) /\ Front(F) \in Seq(Frames)
         /\ Front(F) # <<>> /\ Front(F)[1] = F[1]
<1>1. /\ Len(F) \in Nat /\ Front(F) \in Seq(Frames) /\ Len(Front(F)) = Len(F) - 1
      /\ \A i \in 1..(Len(F) - 1) : Front(F)[i] = F[i]
  BY DEF Front
<1>2. F # <<>> /\ Front(F) # <<>> /\ 1 \in 1..(Len(F) - 1)
  BY <1>1
<1>3. \A i \in 1..(Len(F) - 1) : i \in 1..Len(F)
  BY <1>1
<1> QED
  BY <1>1, <1>2, <1>3 DEF FramesPlaced

(* The function that owns the builder's block.                             *)
LEMMA CurrentIsFn ==
  ASSUME TypeOK, Placed
  PROVE  /\ CurrentFn \in 0..MaxFns /\ CurrentFn <= Len(fns)
         /\ ip # 0 => ip \in 1..Len(blocks) /\ CurrentFn \in 1..MaxFns
         /\ frames # <<>> => ip # 0 /\ frames[1].fn = CurrentFn
<1>1. Len(fns) \in Nat /\ Len(blocks) \in Nat /\ MaxFns \in Nat
  BY BoundsAssumption DEF TypeOK
<1>2. CASE ip = 0
  BY <1>1, <1>2 DEF CurrentFn, TypeOK, Placed
<1>3. CASE ip # 0
  <2>1. ip \in 1..Len(blocks)
    BY <1>1, <1>3 DEF TypeOK
  <2>2. blocks[ip] \in Blocks
    BY <2>1 DEF TypeOK
  <2>3. blocks[ip].fn \in 0..MaxFns
    BY <2>2 DEF Blocks
  <2> QED
    BY <1>1, <1>3, <2>1, <2>3 DEF CurrentFn, Placed
<1> QED
  BY <1>2, <1>3

LEMMA StrayBlocks ==
  ASSUME TypeOK, NEW x
  PROVE  StrayIn(ip, x) \subseteq 1..Len(blocks)
<1>1. ip # 0 => ip \in 1..Len(blocks)
  BY DEF TypeOK
<1> QED
  BY <1>1 DEF TypeOK, StrayIn

LEMMA StopKeeps ==
  ASSUME TypeOK, Placed, NEW F \in SUBSET Faults, Stop(F)
  PROVE  TypeOK' /\ Placed'
  BY DEF Stop, TypeOK, Placed, CurrentFn

(* What generating an expression in the builder's block does.              *)
LEMMA ExprGenerated ==
  ASSUME TypeOK, Placed, NEW stk \in Seq(Tables(Slots)), Len(stk) >= 1,
         NEW e \in Exprs, NEW U \in SUBSET (1..MaxFns)
  PROVE  /\ Using(blocks, ip, Owners(stk, e) \cup U) \in Seq(Blocks)
         /\ Len(Using(blocks, ip, Owners(stk, e) \cup U)) = Len(blocks)
         /\ \A c \in 1..Len(blocks) :
              /\ Using(blocks, ip, Owners(stk, e) \cup U)[c].fn = blocks[c].fn
              /\ Using(blocks, ip, Owners(stk, e) \cup U)[c].terms = blocks[c].terms
         /\ Called(fns, e, CurrentFn) \in Seq(Fns)
         /\ Len(Called(fns, e, CurrentFn)) = Len(fns)
         /\ \A i \in 1..Len(fns) :
              /\ Called(fns, e, CurrentFn)[i].name = fns[i].name
              /\ Called(fns, e, CurrentFn)[i].state = fns[i].state
<1>1. Owners(stk, e) \cup U \in SUBSET (1..MaxFns)
  BY OwnersAreFns
<1>2. CurrentFn \in 0..MaxFns
  BY CurrentIsFn
<1>3. blocks \in Seq(Blocks) /\ ip \in 0..Len(blocks) /\ fns \in Seq(Fns)
  BY DEF TypeOK
<1> DEFINE V == Owners(stk, e) \cup U
           B == Using(blocks, ip, V)
           F == Called(fns, e, CurrentFn)
<1>4. /\ B \in Seq(Blocks) /\ Len(B) = Len(blocks)
      /\ \A c \in 1..Len(blocks) : B[c].fn = blocks[c].fn /\ B[c].terms = blocks[c].terms
  <2> HIDE DEF V
  <2> QED
    BY <1>1, <1>3, UsingBlocks DEF V
<1>5. /\ F \in Seq(Fns) /\ Len(F) = Len(fns)
      /\ \A i \in 1..Len(fns) : F[i].name = fns[i].name /\ F[i].state = fns[i].state
  BY <1>2, <1>3, CalledFns
<1> QED
  BY <1>4, <1>5

(* A statement that stays in its block.                                    *)
LEMMA StraightStep ==
  ASSUME TypeOK, Placed,
         symtab_stack' \in Seq(Tables(Slots)), Len(symtab_stack') >= 1,
         blocks' \in Seq(Blocks), Len(blocks') = Len(blocks),
         \A c \in 1..Len(blocks) : blocks'[c].fn = blocks[c].fn,
         fns' \in Seq(Fns), Len(fns') = Len(fns),
         frames' \in Seq(Frames), Alike(frames', frames),
         stray' \subseteq 1..Len(blocks),
         UNCHANGED <<defs, module, ip, status>>
  PROVE  TypeOK' /\ Placed'
<1>1. TypeOK'
  BY DEF TypeOK
<1>2. /\ frames \in Seq(Frames) /\ blocks \in Seq(Blocks)
      /\ Len(blocks) \in Nat /\ Len(fns) \in Nat /\ ip \in 0..Len(blocks)
  BY DEF TypeOK
<1>3. FramesPlaced(frames', blocks')
  <2>1. Grown(blocks, blocks', frames[1].fn)
    BY <1>2 DEF Grown
  <2> QED
    BY <1>2, <2>1, PlacedInGrown DEF Placed
<1>4. (frames' = <<>> <=> frames = <<>>) /\ (frames # <<>> => frames'[1].fn = frames[1].fn)
  BY <1>2 DEF Alike
<1>5. ip # 0 => blocks'[ip].fn = blocks[ip].fn
  BY <1>2
<1> QED
  BY <1>1, <1>2, <1>3, <1>4, <1>5 DEF Placed

LEMMA ExprStmtKeeps ==
  ASSUME TypeOK, Placed, NEW e \in Exprs, ExprStmt(e)
  PROVE  TypeOK' /\ Placed'
<1> DEFINE faults == FaultsOf(symtab_stack, e, "value")
<1>1. CASE Stop(faults)
  BY <1>1, StopKeeps DEF FaultsOf
<1>2. CASE ~Stop(faults)
  <2>1. /\ blocks' = Using(blocks, ip, Owners(symtab_stack, e) \cup {})
        /\ stray' = StrayIn(ip, Emits(symtab_stack, e))
        /\ fns' = Called(fns, e, CurrentFn)
        /\ frames' = Valued(ValueOf(e))
        /\ UNCHANGED <<symtab_stack, defs, module, ip, status>>
    BY <1>2 DEF ExprStmt
  <2>2. symtab_stack \in Seq(Tables(Slots)) /\ Len(symtab_stack) >= 1 /\ frames \in Seq(Frames)
    BY DEF TypeOK
  <2>3. frames' \in Seq(Frames) /\ Alike(frames', frames)
    BY <2>1, <2>2, ValuedFrames DEF ValueOf
  <2>4. stray' \subseteq 1..Len(blocks)
    BY <2>1, StrayBlocks
  <2>5. /\ blocks' \in Seq(Blocks) /\ Len(blocks') = Len(blocks)
        /\ \A c \in 1..Len(blocks) : blocks'[c].fn = blocks[c].fn
        /\ fns' \in Seq(Fns) /\ Len(fns') = Len(fns)
    <3>1. {} \in SUBSET (1..MaxFns)
      OBVIOUS
    <3> QED
      BY <2>1, <2>2, <3>1, ExprGenerated
  <2> QED
    BY <2>1, <2>2, <2>3, <2>4, <2>5, StraightStep
<1> QED
  BY <1>1, <1>2

LEMMA VarDeclKeeps ==
  ASSUME TypeOK, Placed, NEW n \in Idents, NEW type \in {"double", "int"},
         NEW e \in Exprs, VarDecl(n, type, e)
  PROVE  TypeOK' /\ Placed'
<1> DEFINE init == FaultsOf(symtab_stack, e, "operand")
           faults == IF ip = 0 THEN {"noblock"}
                     ELSE IF Freed THEN {"dangling"}
                     ELSE IF init = {} /\ type = "int" THEN {"storetype"}
                     ELSE init
<1>1. CASE Stop(faults)
  <2>1. faults \in SUBSET Faults
    BY DEF FaultsOf, Faults
  <2> QED
    BY <1>1, <2>1, StopKeeps
<1>2. CASE ~Stop(faults)
  <2>1. /\ ip # 0
        /\ blocks' = Using(blocks, ip, Owners(symtab_stack, e) \cup {CurrentFn})
        /\ stray' = StrayIn(ip, TRUE)
        /\ fns' = Called(fns, e, CurrentFn)
        /\ symtab_stack' = Added(symtab_stack, "variable", n, Slot(CurrentFn))
        /\ frames' = Valued("some")
        /\ UNCHANGED <<defs, module, ip, status>>
    BY <1>2 DEF VarDecl
  <2>2. symtab_stack \in Seq(Tables(Slots)) /\ Len(symtab_stack) >= 1 /\ frames \in Seq(Frames)
    BY DEF TypeOK
  <2>3. CurrentFn \in 1..MaxFns
    BY <2>1, CurrentIsFn
  <2>4. frames' \in Seq(Frames) /\ Alike(frames', frames)
    BY <2>1, <2>2, ValuedFrames
  <2>5. stray' \subseteq 1..Len(blocks)
    BY <2>1, StrayBlocks
  <2>6. /\ blocks' \in Seq(Blocks) /\ Len(blocks') = Len(blocks)
        /\ \A c \in 1..Len(blocks) : blocks'[c].fn = blocks[c].fn
        /\ fns' \in Seq(Fns) /\ Len(fns') = Len(fns)
    <3>1. {CurrentFn} \in SUBSET (1..MaxFns)
      BY <2>3
    <3> QED
      BY <2>1, <2>2, <3>1, ExprGenerated
  <2>7. symtab_stack' \in Seq(Tables(Slots)) /\ Len(symtab_stack') >= 1
    <3>1. Slot(CurrentFn) \in Slots
      BY <2>3 DEF Slot, Slots
    <3> QED
      BY <2>1, <2>2, <3>1, AddedStack, KindsAssumption
  <2> QED
    BY <2>1, <2>2, <2>4, <2>5, <2>6, <2>7, StraightStep
<1> QED
  BY <1>1, <1>2

LEMMA IfSkippedKeeps ==
  ASSUME TypeOK, Placed, NEW e \in Exprs, IfSkipped(e)
  PROVE  TypeOK' /\ Placed'
<1>1. /\ frames' = Valued("none")
      /\ UNCHANGED <<symtab_stack, defs, module, fns, blocks, stray, ip, status>>
  BY DEF IfSkipped
<1>2. frames' \in Seq(Frames) /\ Alike(frames', frames)
  BY <1>1, ValuedFrames DEF TypeOK
<1> QED
  BY <1>1, <1>2, StraightStep DEF TypeOK
-----------------------------------------------------------------------------
(* Statements that make new blocks or move the builder.                    *)
SameOwners(B, C) ==
  Len(C) = Len(B) /\ \A b \in 1..Len(B) : C[b].fn = B[b].fn

LEMMA MoreBlocks ==
  ASSUME NEW B \in Seq(Blocks), NEW N \in Seq(Blocks), NEW fn,
         \A i \in 1..Len(N) : N[i].fn \in {0, fn}
  PROVE  /\ B \o N \in Seq(Blocks)
         /\ Len(B \o N) = Len(B) + Len(N)
         /\ \A i \in 1..Len(N) : (B \o N)[Len(B) + i] = N[i]
         /\ Grown(B, B \o N, fn)
<1>1. /\ Len(B) \in Nat /\ Len(N) \in Nat /\ B \o N \in Seq(Blocks)
      /\ Len(B \o N) = Len(B) + Len(N)
      /\ \A i \in 1..Len(B) : (B \o N)[i] = B[i]
      /\ \A i \in (Len(B) + 1)..(Len(B) + Len(N)) : (B \o N)[i] = N[i - Len(B)]
  OBVIOUS
<1>2. \A i \in 1..Len(N) : (B \o N)[Len(B) + i] = N[i]
  BY <1>1
<1>3. \A i \in (Len(B) + 1)..(Len(B) + Len(N)) : i - Len(B) \in 1..Len(N)
  BY <1>1
<1>4. Grown(B, B \o N, fn)
  BY <1>1, <1>3 DEF Grown
<1> QED
  BY <1>1, <1>2, <1>4

LEMMA GrownSame ==
  ASSUME NEW A \in Seq(Blocks), NEW B \in Seq(Blocks), NEW C \in Seq(Blocks),
         NEW fn, Grown(A, B, fn), SameOwners(B, C)
  PROVE  Grown(A, C, fn)
<1>1. Len(A) \in Nat /\ Len(B) \in Nat /\ Len(C) = Len(B) /\ Len(A) <= Len(B)
  BY DEF Grown, SameOwners
<1>2. \A b \in 1..Len(B) : C[b].fn = B[b].fn
  BY DEF SameOwners
<1>3. \A b \in 1..Len(A) : b \in 1..Len(B)
  BY <1>1
<1>4. \A b \in (Len(A) + 1)..Len(B) : b \in 1..Len(B)
  BY <1>1
<1> QED
  BY <1>1, <1>2, <1>3, <1>4 DEF Grown

LEMMA TerminatedSame ==
  ASSUME NEW B \in Seq(Blocks), NEW b \in 1..Len(B),
         NEW s \in SUBSET (1..MaxBlocks)
  PROVE  Terminated(B, b, s) \in Seq(Blocks) /\ SameOwners(B, Terminated(B, b, s))
  BY TerminatedBlocks DEF SameOwners

LEMMA UsingSame ==
  ASSUME NEW B \in Seq(Blocks), NEW b \in 0..Len(B),
         NEW U \in SUBSET (1..MaxFns)
  PROVE  Using(B, b, U) \in Seq(Blocks) /\ SameOwners(B, Using(B, b, U))
  BY UsingBlocks DEF SameOwners

LEMMA JumpStepFurther ==
  ASSUME TypeOK, Placed, frames # <<>>,
         symtab_stack' \in Seq(Tables(Slots)), Len(symtab_stack') >= 1,
         blocks' \in Seq(Blocks), Len(blocks') <= MaxBlocks,
         Grown(blocks, blocks', CurrentFn),
         fns' \in Seq(Fns), Len(fns') = Len(fns),
         frames' \in Seq(Frames), frames' # <<>>,
         frames'[1].fn = frames[1].fn, FramesPlaced(frames', blocks'),
         stray' \subseteq 1..Len(blocks'),
         ip' \in 1..Len(blocks'), blocks'[ip'].fn = CurrentFn,
         UNCHANGED <<defs, module, status>>
  PROVE  TypeOK' /\ Placed'
<1>1. /\ Len(blocks) \in Nat /\ Len(blocks') \in Nat /\ Len(fns) \in Nat
      /\ Len(blocks) <= Len(blocks')
  BY DEF TypeOK, Grown
<1>2. /\ CurrentFn \in 1..MaxFns /\ CurrentFn <= Len(fns) /\ frames[1].fn = CurrentFn
  BY CurrentIsFn
<1>3. ip' \in 0..Len(blocks')
  BY <1>1
<1>4. TypeOK'
  BY <1>3 DEF TypeOK
<1>5. \A b \in 1..Len(blocks') : blocks'[b].fn <= Len(fns')
  <2> SUFFICES ASSUME NEW b \in 1..Len(blocks') PROVE blocks'[b].fn <= Len(fns)
    OBVIOUS
  <2>1. CASE b \in 1..Len(blocks)
    BY <1>2, <2>1 DEF Grown, Placed
  <2>2. CASE b \notin 1..Len(blocks)
    <3>1. b \in (Len(blocks) + 1)..Len(blocks')
      BY <1>1, <2>2
    <3>2. blocks'[b].fn \in {0, CurrentFn}
      BY <3>1 DEF Grown
    <3> QED
      BY <1>1, <1>2, <3>2
  <2> QED
    BY <2>1, <2>2
<1>6. ip' # 0 /\ blocks'[ip'].fn # 0 /\ blocks'[ip'].fn = frames'[1].fn
  BY <1>2
<1> QED
  BY <1>2, <1>4, <1>5, <1>6 DEF Placed

LEMMA JumpStep ==
  ASSUME TypeOK, Placed, frames # <<>>,
         symtab_stack' \in Seq(Tables(Slots)), Len(symtab_stack') >= 1,
         blocks' \in Seq(Blocks), Len(blocks') <= MaxBlocks,
         Grown(blocks, blocks', CurrentFn),
         fns' \in Seq(Fns), Len(fns') = Len(fns),
         frames' \in Seq(Frames), frames' # <<>>,
         frames'[1].fn = frames[1].fn, FramesPlaced(frames', blocks'),
         stray' \subseteq 1..Len(blocks),
         ip' \in 1..Len(blocks'), blocks'[ip'].fn = CurrentFn,
         UNCHANGED <<defs, module, status>>
  PROVE  TypeOK' /\ Placed'
<1>1. Len(blocks) \in Nat /\ Len(blocks') \in Nat /\ Len(blocks) <= Len(blocks')
  BY DEF TypeOK, Grown
<1>2. stray' \subseteq 1..Len(blocks')
  BY <1>1
<1> QED
  BY <1>2, JumpStepFurther

(* The frames under way stay in place while the function grows.            *)
LEMMA GrownPlaces ==
  ASSUME TypeOK, Placed, frames # <<>>, NEW C \in Seq(Blocks),
         Grown(blocks, C, CurrentFn), NEW G \in Seq(Frames), Alike(G, frames)
  PROVE  FramesPlaced(G, C) /\ G # <<>> /\ G[1].fn = frames[1].fn
<1>1. CurrentFn = frames[1].fn /\ frames \in Seq(Frames) /\ blocks \in Seq(Blocks)
  BY CurrentIsFn DEF TypeOK
<1>2. FramesPlaced(G, C)
  BY <1>1, PlacedInGrown DEF Placed
<1> QED
  BY <1>1, <1>2 DEF Alike

LEMMA RetStmtKeeps ==
  ASSUME TypeOK, Placed, NEW e \in Exprs, RetStmt(e)
  PROVE  TypeOK' /\ Placed'
<1> DEFINE faults == FaultsOf(symtab_stack, e, "value")
           enter == Len(blocks) + 1
           exit == Len(blocks) + 2
           N  == <<NewBlock(CurrentFn, "ret_enter"), NewBlock(CurrentFn, "ret_exit")>>
           U  == Owners(symtab_stack, e)
           B0 == blocks \o N
           B1 == Using(B0, ip, U)
           B2 == Terminated(B1, ip, {enter})
           B3 == Terminated(B2, enter, {})
           B4 == Terminated(B3, enter, {exit})
<1>1. CASE Stop(faults)
  BY <1>1, StopKeeps DEF FaultsOf
<1>2. CASE ~Stop(faults)
  <2>1. /\ frames # <<>> /\ Len(blocks) + 2 <= MaxBlocks
        /\ blocks' = B4
        /\ stray' = StrayIn(ip, Emits(symtab_stack, e)) \cup {enter}
        /\ ip' = exit
        /\ fns' = Called(fns, e, CurrentFn)
        /\ frames' = Valued(ValueOf(e))
        /\ UNCHANGED <<symtab_stack, defs, module, status>>
    BY <1>2 DEF RetStmt
  <2>2. /\ symtab_stack \in Seq(Tables(Slots)) /\ Len(symtab_stack) >= 1
        /\ frames \in Seq(Frames) /\ blocks \in Seq(Blocks) /\ Len(blocks) \in Nat
        /\ fns \in Seq(Fns) /\ MaxBlocks \in Nat
    BY BoundsAssumption DEF TypeOK
  <2>3. CurrentFn \in 0..MaxFns /\ ip \in 1..Len(blocks) /\ U \in SUBSET (1..MaxFns)
    BY <2>1, <2>2, CurrentIsFn, OwnersAreFns
  <2>4. /\ N \in Seq(Blocks) /\ Len(N) = 2
        /\ \A i \in 1..2 : N[i].fn = CurrentFn
    BY <2>3, NewBlocks
  <2>5. /\ B0 \in Seq(Blocks) /\ Len(B0) = Len(blocks) + 2
        /\ \A i \in 1..2 : B0[Len(blocks) + i].fn = CurrentFn
        /\ Grown(blocks, B0, CurrentFn)
    <3> HIDE DEF N
    <3>1. \A i \in 1..Len(N) : N[i].fn \in {0, CurrentFn}
      BY <2>4
    <3>2. /\ B0 \in Seq(Blocks) /\ Len(B0) = Len(blocks) + Len(N)
          /\ \A i \in 1..Len(N) : B0[Len(blocks) + i] = N[i]
          /\ Grown(blocks, B0, CurrentFn)
      BY <2>2, <2>4, <3>1, MoreBlocks
    <3> HIDE DEF B0
    <3> QED
      BY <2>4, <3>2
  <2>6. /\ enter \in 1..Len(B0) /\ exit \in 1..Len(B0) /\ ip \in 1..Len(B0)
        /\ enter \in 1..MaxBlocks /\ exit \in 1..MaxBlocks
        /\ {enter} \in SUBSET (1..MaxBlocks) /\ {exit} \in SUBSET (1..MaxBlocks)
        /\ {} \in SUBSET (1..MaxBlocks) /\ ip \in 0..Len(B0)
    <3> HIDE DEF B0
    <3> QED
      BY <2>1, <2>2, <2>3, <2>5
  <2> HIDE DEF N, B0, U, enter, exit
  <2>7. B1 \in Seq(Blocks) /\ SameOwners(B0, B1)
    BY <2>3, <2>5, <2>6, UsingSame
  <2>8. B2 \in Seq(Blocks) /\ SameOwners(B1, B2)
    <3> HIDE DEF B1
    <3> QED
      BY <2>6, <2>7, TerminatedSame DEF SameOwners
  <2>9. B3 \in Seq(Blocks) /\ SameOwners(B2, B3)
    <3> HIDE DEF B1, B2
    <3> QED
      BY <2>6, <2>7, <2>8, TerminatedSame DEF SameOwners
  <2>10. B4 \in Seq(Blocks) /\ SameOwners(B3, B4)
    <3> HIDE DEF B1, B2, B3
    <3>1. Len(B3) = Len(B0)
      BY <2>7, <2>8, <2>9 DEF SameOwners
    <3>2. enter \in 1..Len(B3)
      BY <2>6, <3>1
    <3>3. B3 \in Seq(Blocks) /\ {exit} \in SUBSET (1..MaxBlocks)
      BY <2>6, <2>9
    <3>4. /\ Terminated(B3, enter, {exit}) \in Seq(Blocks)
          /\ SameOwners(B3, Terminated(B3, enter, {exit}))
      BY <3>2, <3>3, TerminatedSame
    <3> QED
      BY <3>4
  <2> HIDE DEF B1, B2, B3, B4
  <2>11. SameOwners(B0, B4)
    BY <2>7, <2>8, <2>9, <2>10 DEF SameOwners
  <2>12. Grown(blocks, B4, CurrentFn)
    BY <2>2, <2>5, <2>10, <2>11, GrownSame
  <2>13. B4[exit].fn = CurrentFn
    BY <2>5, <2>6, <2>11 DEF SameOwners, exit
  <2>14. frames' \in Seq(Frames) /\ Alike(frames', frames)
    BY <2>1, <2>2, ValuedFrames DEF ValueOf
  <2>15. FramesPlaced(frames', B4) /\ frames' # <<>> /\ frames'[1].fn = frames[1].fn
    BY <2>1, <2>10, <2>12, <2>14, GrownPlaces
  <2>16. stray' \subseteq 1..Len(B4)
    <3>1. StrayIn(ip, Emits(symtab_stack, e)) \subseteq 1..Len(blocks)
      BY StrayBlocks
    <3>2. enter \in 1..Len(B4) /\ Len(B4) \in Nat /\ Len(blocks) <= Len(B4)
      BY <2>2, <2>5, <2>6, <2>11 DEF SameOwners
    <3> QED
      BY <2>1, <2>2, <3>1, <3>2
  <2>17. fns' \in Seq(Fns) /\ Len(fns') = Len(fns)
    BY <2>1, <2>2, <2>3, CalledFns
  <2>18. Len(B4) <= MaxBlocks /\ exit \in 1..Len(B4)
    BY <2>1, <2>5, <2>6, <2>11 DEF SameOwners
  <2> QED
    BY <2>1, <2>2, <2>10, <2>12, <2>13, <2>14, <2>15, <2>16, <2>17, <2>18, JumpStepFurther
<1> QED
  BY <1>1, <1>2

LEMMA IfCondKeeps ==
  ASSUME TypeOK, Placed, NEW e \in Exprs, IfCond(e)
  PROVE  TypeOK' /\ Placed'
<1> DEFINE faults == FaultsOf(symtab_stack, e, "value")
           then == Len(blocks) + 1
           else == Len(blocks) + 2
           cont == Len(blocks) + 3
           N  == <<NewBlock(CurrentFn, "then"), NewBlock(0, "else"),
                   NewBlock(0, "ifcont")>>
           U  == Owners(symtab_stack, e)
           B0 == blocks \o N
           B1 == Using(B0, ip, U)
           B2 == Terminated(B1, ip, {then, else})
           x  == Frame("then", CurrentFn, else, cont, 0, "none")
<1>1. CASE Stop(faults)
  BY <1>1, StopKeeps DEF FaultsOf
<1>2. CASE ~Stop(faults)
  <2>1. /\ frames # <<>> /\ Len(blocks) + 3 <= MaxBlocks
        /\ blocks' = B2
        /\ stray' = StrayIn(ip, Emits(symtab_stack, e))
        /\ ip' = then
        /\ fns' = Called(fns, e, CurrentFn)
        /\ frames' = Append(frames, x)
        /\ UNCHANGED <<symtab_stack, defs, module, status>>
    BY <1>2 DEF IfCond
  <2>2. /\ symtab_stack \in Seq(Tables(Slots)) /\ Len(symtab_stack) >= 1
        /\ frames \in Seq(Frames) /\ blocks \in Seq(Blocks) /\ Len(blocks) \in Nat
        /\ fns \in Seq(Fns) /\ MaxBlocks \in Nat /\ MaxFns \in Nat
    BY BoundsAssumption DEF TypeOK
  <2>3. /\ CurrentFn \in 1..MaxFns /\ ip \in 1..Len(blocks) /\ U \in SUBSET (1..MaxFns)
        /\ CurrentFn = frames[1].fn /\ CurrentFn \in 0..MaxFns
    BY <2>1, <2>2, CurrentIsFn, OwnersAreFns
  <2>4. /\ N \in Seq(Blocks) /\ Len(N) = 3 /\ N[1].fn = CurrentFn
        /\ \A i \in 1..3 : N[i].fn \in {0, CurrentFn}
    <3>1. 0 \in 0..MaxFns
      BY <2>2
    <3> QED
      BY <2>3, <3>1, NewBlocks
  <2>5. /\ B0 \in Seq(Blocks) /\ Len(B0) = Len(blocks) + 3
        /\ B0[then].fn = CurrentFn
        /\ Grown(blocks, B0, CurrentFn)
    <3> HIDE DEF N
    <3>1. \A i \in 1..Len(N) : N[i].fn \in {0, CurrentFn}
      BY <2>4
    <3>2. /\ B0 \in Seq(Blocks) /\ Len(B0) = Len(blocks) + Len(N)
          /\ \A i \in 1..Len(N) : B0[Len(blocks) + i] = N[i]
          /\ Grown(blocks, B0, CurrentFn)
      BY <2>2, <2>4, <3>1, MoreBlocks
    <3> HIDE DEF B0
    <3> QED
      BY <2>4, <3>2
  <2>6. /\ then \in 1..Len(B0) /\ else \in 1..Len(B0) /\ cont \in 1..Len(B0)
        /\ ip \in 1..Len(B0) /\ ip \in 0..Len(B0)
        /\ else \in 0..MaxBlocks /\ cont \in 0..MaxBlocks /\ 0 \in 0..MaxBlocks
        /\ {then, else} \in SUBSET (1..MaxBlocks)
    <3> HIDE DEF B0
    <3> QED
      BY <2>1, <2>2, <2>3, <2>5
  <2> HIDE DEF N, B0, U, then, else, cont
  <2>7. B1 \in Seq(Blocks) /\ SameOwners(B0, B1)
    BY <2>3, <2>5, <2>6, UsingSame
  <2>8. B2 \in Seq(Blocks) /\ SameOwners(B1, B2)
    <3> HIDE DEF B1
    <3>1. Len(B1) = Len(B0)
      BY <2>7 DEF SameOwners
    <3>2. ip \in 1..Len(B1) /\ {then, else} \in SUBSET (1..MaxBlocks)
      BY <2>6, <3>1
    <3> QED
      BY <2>7, <3>2, TerminatedSame
  <2> HIDE DEF B1, B2
  <2>9. SameOwners(B0, B2)
    BY <2>7, <2>8 DEF SameOwners
  <2>10. Grown(blocks, B2, CurrentFn)
    BY <2>2, <2>5, <2>8, <2>9, GrownSame
  <2>11. x \in Frames /\ x.fn = frames[1].fn /\ x.kind = "then" /\ x.join = cont /\ x.next = else
    BY <2>3, <2>6 DEF Frame, Frames
  <2>12. FramesPlaced(frames, B2)
    <3>1. Alike(frames, frames)
      BY DEF Alike
    <3> QED
      BY <2>1, <2>2, <2>8, <2>10, <3>1, GrownPlaces
  <2>13. /\ frames' \in Seq(Frames) /\ frames' # <<>> /\ frames'[1].fn = frames[1].fn
         /\ FramesPlaced(frames', B2)
    <3>1. cont \in 1..Len(B2) /\ else \in 1..Len(B2)
      BY <2>6, <2>9 DEF SameOwners
    <3> HIDE DEF x
    <3>2. FramesPlaced(Append(frames, x), B2)
      BY <2>1, <2>2, <2>8, <2>11, <2>12, <3>1, PlacedWithNext
    <3>3. frames \in Seq(Frames) /\ frames # <<>> /\ frames' = Append(frames, x) /\ x \in Frames
      BY <2>1, <2>2, <2>11
    <3>4. frames' \in Seq(Frames) /\ frames' # <<>> /\ frames'[1] = frames[1]
      BY ONLY <3>3
    <3> QED
      BY <3>2, <3>3, <3>4
  <2>14. stray' \subseteq 1..Len(blocks)
    BY <2>1, StrayBlocks
  <2>15. fns' \in Seq(Fns) /\ Len(fns') = Len(fns)
    BY <2>1, <2>2, <2>3, CalledFns
  <2>16. Len(B2) <= MaxBlocks /\ then \in 1..Len(B2) /\ B2[then].fn = CurrentFn
    BY <2>1, <2>5, <2>6, <2>9 DEF SameOwners
  <2> QED
    BY <2>1, <2>2, <2>8, <2>10, <2>13, <2>14, <2>15, <2>16, JumpStep
<1> QED
  BY <1>1, <1>2

LEMMA ForHeadKeeps ==
  ASSUME TypeOK, Placed, NEW n \in Idents, NEW start \in Exprs, NEW end \in Exprs,
         ForHead(n, start, end)
  PROVE  TypeOK' /\ Placed'
<1> DEFINE stk == Added(Entered(symtab_stack), "variable", n, Slot(CurrentFn))
           faults == FaultsOf(stk, start, "operand") \cup FaultsOf(stk, end, "operand")
           cond == Len(blocks) + 1
           body == Len(blocks) + 2
           inc  == Len(blocks) + 3
           exit == Len(blocks) + 4
           N  == [i \in 1..4 |->
                   NewBlock(CurrentFn, <<"for.cond", "for.body", "for.inc", "for.exit">>[i])]
           U0 == Owners(stk, start) \cup {CurrentFn}
           U1 == Owners(stk, end)
           B0 == blocks \o N
           B1 == Using(B0, ip, U0)
           B2 == Terminated(B1, ip, {cond})
           B3 == Using(B2, cond, U1)
           B4 == Terminated(B3, cond, {body, exit})
           x  == Frame("for", CurrentFn, inc, exit, cond, "none")
<1>1. CASE Stop(faults)
  BY <1>1, StopKeeps DEF FaultsOf
<1>2. CASE ~Stop(faults)
  <2>1. /\ frames # <<>> /\ Len(blocks) + 4 <= MaxBlocks
        /\ symtab_stack' = stk
        /\ blocks' = B4
        /\ stray' = StrayIn(ip, TRUE)
        /\ ip' = body
        /\ fns' = Called(Called(fns, start, CurrentFn), end, CurrentFn)
        /\ frames' = Append(frames, x)
        /\ UNCHANGED <<defs, module, status>>
    BY <1>2 DEF ForHead
  <2>2. /\ symtab_stack \in Seq(Tables(Slots)) /\ Len(symtab_stack) >= 1
        /\ frames \in Seq(Frames) /\ blocks \in Seq(Blocks) /\ Len(blocks) \in Nat
        /\ fns \in Seq(Fns) /\ MaxBlocks \in Nat /\ MaxFns \in Nat
    BY BoundsAssumption DEF TypeOK
  <2>3. /\ CurrentFn \in 1..MaxFns /\ ip \in 1..Len(blocks)
        /\ CurrentFn = frames[1].fn /\ CurrentFn \in 0..MaxFns
    BY <2>1, <2>2, CurrentIsFn
  <2>4. stk \in Seq(Tables(Slots)) /\ Len(stk) >= 1
    <3>1. Slot(CurrentFn) \in Slots
      BY <2>3 DEF Slot, Slots
    <3>2. Entered(symtab_stack) \in Seq(Tables(Slots)) /\ Len(Entered(symtab_stack)) >= 1
      BY <2>2, EnteredStack
    <3> QED
      BY <3>1, <3>2, AddedStack, KindsAssumption
  <2>5. U0 \in SUBSET (1..MaxFns) /\ U1 \in SUBSET (1..MaxFns)
    <3> HIDE DEF stk
    <3> QED
      BY <2>3, <2>4, OwnersAreFns
  <2>6. N \in Seq(Blocks) /\ Len(N) = 4 /\ \A i \in 1..4 : N[i].fn = CurrentFn
    <3>1. \A i \in 1..4 : N[i] \in Blocks /\ N[i].fn = CurrentFn
      BY <2>3, NewBlocks
    <3> QED
      BY <3>1
  <2>7. /\ B0 \in Seq(Blocks) /\ Len(B0) = Len(blocks) + 4
        /\ \A i \in 1..4 : B0[Len(blocks) + i].fn = CurrentFn
        /\ Grown(blocks, B0, CurrentFn)
    <3> HIDE DEF N
    <3>1. \A i \in 1..Len(N) : N[i].fn \in {0, CurrentFn}
      BY <2>6
    <3>2. /\ B0 \in Seq(Blocks) /\ Len(B0) = Len(blocks) + Len(N)
          /\ \A i \in 1..Len(N) : B0[Len(blocks) + i] = N[i]
          /\ Grown(blocks, B0, CurrentFn)
      BY <2>2, <2>6, <3>1, MoreBlocks
    <3> HIDE DEF B0
    <3> QED
      BY <2>6, <3>2
  <2>8. /\ \A b \in {cond, body, inc, exit} :
             b \in 1..Len(B0) /\ b \in 1..MaxBlocks /\ b \in 0..MaxBlocks /\ b \in 0..Len(B0)
        /\ ip \in 1..Len(B0) /\ ip \in 0..Len(B0)
        /\ {cond} \in SUBSET (1..MaxBlocks) /\ {body, exit} \in SUBSET (1..MaxBlocks)
        /\ B0[body].fn = CurrentFn /\ B0[exit].fn = CurrentFn
    <3> HIDE DEF B0
    <3>1. Len(blocks) \in Nat /\ MaxBlocks \in Nat /\ Len(blocks) + 4 <= MaxBlocks
      BY <2>1, <2>2, <2>3
    <3>2. \A b \in {cond, body, inc, exit} :
            b \in 1..Len(B0) /\ b \in 1..MaxBlocks /\ b \in 0..MaxBlocks /\ b \in 0..Len(B0)
      BY <2>7, <3>1
    <3>3. ip \in 1..Len(B0) /\ ip \in 0..Len(B0)
      BY <2>2, <2>3, <2>7, <3>1
    <3>4. B0[body].fn = CurrentFn /\ B0[exit].fn = CurrentFn
      BY <2>7
    <3> QED
      BY <3>2, <3>3, <3>4
  <2> HIDE DEF stk, N, B0, U0, U1, cond, body, inc, exit
  <2>9. B1 \in Seq(Blocks) /\ SameOwners(B0, B1)
    BY <2>5, <2>7, <2>8, UsingSame
  <2>10. B2 \in Seq(Blocks) /\ SameOwners(B1, B2)
    <3> HIDE DEF B1
    <3> QED
      BY <2>8, <2>9, TerminatedSame DEF SameOwners
  <2>11. B3 \in Seq(Blocks) /\ SameOwners(B2, B3)
    <3> HIDE DEF B1, B2
    <3> QED
      BY <2>5, <2>8, <2>9, <2>10, UsingSame DEF SameOwners
  <2>12. B4 \in Seq(Blocks) /\ SameOwners(B3, B4)
    <3> HIDE DEF B1, B2, B3
    <3>1. cond \in 1..Len(B3)
      BY <2>8, <2>9, <2>10, <2>11 DEF SameOwners
    <3> QED
      BY <2>8, <2>11, <3>1, TerminatedSame
  <2> HIDE DEF B1, B2, B3, B4
  <2>13. SameOwners(B0, B4)
    BY <2>9, <2>10, <2>11, <2>12 DEF SameOwners
  <2>14. Grown(blocks, B4, CurrentFn)
    BY <2>2, <2>7, <2>12, <2>13, GrownSame
  <2>15. /\ x \in Frames /\ x.fn = frames[1].fn /\ x.kind = "for"
         /\ x.join = exit /\ x.next = inc /\ x.from = cond
    BY <2>3, <2>8 DEF Frame, Frames
  <2>16. /\ Len(B4) <= MaxBlocks /\ \A b \in {cond, body, inc, exit} : b \in 1..Len(B4)
         /\ B4[body].fn = CurrentFn /\ B4[exit].fn = CurrentFn
    BY <2>1, <2>7, <2>8, <2>13 DEF SameOwners
  <2>17. FramesPlaced(frames, B4)
    <3>1. Alike(frames, frames)
      BY DEF Alike
    <3> QED
      BY <2>1, <2>2, <2>12, <2>14, <3>1, GrownPlaces
  <2>18. /\ frames' \in Seq(Frames) /\ frames' # <<>> /\ frames'[1].fn = frames[1].fn
         /\ FramesPlaced(frames', B4)
    <3> HIDE DEF x
    <3>1. FramesPlaced(Append(frames, x), B4)
      BY <2>1, <2>2, <2>3, <2>12, <2>15, <2>16, <2>17, PlacedWithNext
    <3> QED
      BY <2>1, <2>2, <2>15, <3>1
  <2>19. stray' \subseteq 1..Len(blocks)
    BY <2>1, StrayBlocks
  <2>20. fns' \in Seq(Fns) /\ Len(fns') = Len(fns)
    <3> DEFINE F1 == Called(fns, start, CurrentFn)
    <3>1. F1 \in Seq(Fns) /\ Len(F1) = Len(fns)
      BY <2>2, <2>3, CalledFns
    <3> HIDE DEF F1
    <3>2. Called(F1, end, CurrentFn) \in Seq(Fns) /\ Len(Called(F1, end, CurrentFn)) = Len(F1)
      BY <2>3, <3>1, CalledFns
    <3> QED
      BY <2>1, <3>1, <3>2 DEF F1
  <2> QED
    BY <2>1, <2>2, <2>4, <2>12, <2>14, <2>16, <2>18, <2>19, <2>20, JumpStep
<1> QED
  BY <1>1, <1>2

(* A branch or a loop under way is not the function's own frame.           *)
LEMMA NestedFrames ==
  ASSUME TypeOK, Placed, frames # <<>>, Last(frames).kind # "func"
  PROVE  /\ Len(frames) >= 2 /\ Last(frames) \in Frames
         /\ Last(frames) = frames[Len(frames)] /\ Last(frames).fn = CurrentFn
         /\ Last(frames).join \in 1..Len(blocks)
         /\ Last(frames).kind \in {"then", "for"} => Last(frames).next \in 1..Len(blocks)
         /\ Last(frames).kind \in {"else", "for"} => Last(frames).from \in 1..Len(blocks)
         /\ Last(frames).kind = "for" => blocks[Last(frames).join].fn = CurrentFn
<1>1. frames \in Seq(Frames) /\ Len(frames) \in Nat /\ Len(frames) >= 1
  BY DEF TypeOK
<1>2. Last(frames) = frames[Len(frames)] /\ Len(frames) \in 1..Len(frames)
  BY <1>1 DEF Last
<1>3. Last(frames) \in Frames
  BY <1>1, <1>2
<1>4. frames[1].kind = "func" /\ frames[1].fn = CurrentFn
  BY CurrentIsFn DEF Placed, FramesPlaced
<1>5. Len(frames) >= 2
  BY <1>1, <1>2, <1>4
<1> QED
  BY <1>2, <1>3, <1>4, <1>5 DEF Placed, FramesPlaced

(* What closes a branch or a loop: the frames below stay in place.         *)
LEMMA FrontPlaced ==
  ASSUME TypeOK, Placed, Len(frames) >= 2, NEW C \in Seq(Blocks),
         Grown(blocks, C, CurrentFn), NEW G \in Seq(Frames), Alike(G, Front(frames))
  PROVE  FramesPlaced(G, C) /\ G # <<>> /\ G[1].fn = frames[1].fn
<1>1. frames \in Seq(Frames) /\ blocks \in Seq(Blocks) /\ frames # <<>>
  BY DEF TypeOK
<1>2. CurrentFn = frames[1].fn
  BY <1>1, CurrentIsFn
<1> DEFINE F == Front(frames)
<1>3. FramesPlaced(F, blocks) /\ F \in Seq(Frames) /\ F # <<>> /\ F[1] = frames[1]
  BY <1>1, PlacedWithout DEF Placed
<1> HIDE DEF F
<1>4. Alike(G, F)
  BY DEF F
<1>5. FramesPlaced(G, C)
  BY <1>1, <1>2, <1>3, <1>4, PlacedInGrown
<1>6. Len(F) >= 1
  BY <1>3
<1> QED
  BY <1>3, <1>4, <1>5, <1>6 DEF Alike

(* The blocks at the end of a branch: it jumps to where both branches      *)
(* meet, and block b is attached to the function.                          *)
LEMMA BranchEnds ==
  ASSUME TypeOK, Placed, frames # <<>>, NEW join \in 1..Len(blocks),
         NEW b \in 1..Len(blocks),
         NEW C, C = Attached(Terminated(blocks, ip, {join}), b, CurrentFn)
  PROVE  /\ C \in Seq(Blocks) /\ Len(C) = Len(blocks)
         /\ Grown(blocks, C, CurrentFn) /\ C[b].fn = CurrentFn
<1>1. /\ blocks \in Seq(Blocks) /\ Len(blocks) \in Nat /\ ip \in 1..Len(blocks)
      /\ CurrentFn \in 0..MaxFns /\ Len(blocks) <= MaxBlocks /\ MaxBlocks \in Nat
  BY CurrentIsFn, BoundsAssumption DEF TypeOK
<1>2. {join} \in SUBSET (1..MaxBlocks)
  BY <1>1
<1> DEFINE B == Terminated(blocks, ip, {join})
<1>3. B \in Seq(Blocks) /\ Len(B) = Len(blocks) /\ \A c \in 1..Len(blocks) : B[c].fn = blocks[c].fn
  BY <1>1, <1>2, TerminatedBlocks
<1> HIDE DEF B
<1>4. C = Attached(B, b, CurrentFn)
  BY DEF B
<1>5. /\ C \in Seq(Blocks) /\ Len(C) = Len(B) /\ C[b].fn = CurrentFn
      /\ \A c \in 1..Len(B) : c # b => C[c] = B[c]
  <2>1. b \in 1..Len(B)
    BY <1>3
  <2> DEFINE A == Attached(B, b, CurrentFn)
  <2>2. /\ A \in Seq(Blocks) /\ Len(A) = Len(B) /\ A[b].fn = CurrentFn
        /\ \A c \in 1..Len(B) : c # b => A[c] = B[c]
    BY <1>1, <1>3, <2>1, AttachedBlocks
  <2> QED
    BY <1>4, <2>2
<1>6. Grown(blocks, C, CurrentFn)
  <2>1. \A c \in 1..Len(blocks) : C[c].fn \in {blocks[c].fn, CurrentFn}
    BY <1>3, <1>5
  <2>2. Len(C) = Len(blocks) /\ Len(blocks) <= Len(C)
    BY <1>1, <1>3, <1>5
  <2>3. (Len(blocks) + 1)..Len(C) = {}
    BY <1>1, <2>2
  <2> QED
    BY <2>1, <2>2, <2>3 DEF Grown
<1> QED
  BY <1>3, <1>5, <1>6

LEMMA IfElseKeeps ==
  ASSUME TypeOK, Placed, IfElse
  PROVE  TypeOK' /\ Placed'
<1> DEFINE top == Last(frames)
           x == Frame("else", top.fn, 0, top.join, ip, top.value)
<1>1. /\ frames # <<>> /\ top.kind = "then"
      /\ blocks' = Attached(Terminated(blocks, ip, {top.join}), top.next, top.fn)
      /\ ip' = top.next
      /\ frames' = Append(Front(frames), x)
      /\ UNCHANGED <<symtab_stack, defs, module, fns, stray, status>>
  BY DEF IfElse
<1>2. /\ Len(frames) >= 2 /\ top \in Frames /\ top.fn = CurrentFn
      /\ top.join \in 1..Len(blocks) /\ top.next \in 1..Len(blocks)
  BY <1>1, NestedFrames
<1> HIDE DEF top
<1>3. /\ blocks' \in Seq(Blocks) /\ Len(blocks') = Len(blocks)
      /\ Grown(blocks, blocks', CurrentFn) /\ blocks'[ip'].fn = CurrentFn
  BY <1>1, <1>2, BranchEnds
<1>4. /\ frames \in Seq(Frames) /\ Len(blocks) \in Nat /\ Len(blocks) <= MaxBlocks
      /\ CurrentFn = frames[1].fn /\ ip \in 1..Len(blocks) /\ MaxBlocks \in Nat
      /\ blocks \in Seq(Blocks)
  BY <1>1, CurrentIsFn, BoundsAssumption DEF TypeOK
<1>5. Front(frames) \in Seq(Frames) /\ Alike(Front(frames), Front(frames))
  BY <1>2, <1>4, PlacedWithout DEF Alike, Placed
<1>6. /\ FramesPlaced(Front(frames), blocks') /\ Front(frames) # <<>>
      /\ Front(frames)[1].fn = frames[1].fn
  BY <1>2, <1>3, <1>5, FrontPlaced
<1>7. x \in Frames /\ x.fn = CurrentFn /\ x.kind = "else" /\ x.join = top.join /\ x.from = ip
  <2>1. 0 \in 0..MaxBlocks /\ top.join \in 0..MaxBlocks /\ ip \in 0..MaxBlocks
    BY <1>2, <1>4
  <2>2. top.fn \in 1..MaxFns /\ top.value \in {"none", "some"}
    BY <1>2 DEF Frames
  <2> QED
    BY <1>2, <2>1, <2>2 DEF Frame, Frames
<1> HIDE DEF x
<1>8. FramesPlaced(frames', blocks')
  BY <1>1, <1>2, <1>3, <1>4, <1>5, <1>6, <1>7, PlacedWithNext
<1>9. frames' \in Seq(Frames) /\ frames' # <<>> /\ frames'[1].fn = frames[1].fn
  <2> DEFINE F == Front(frames)
  <2> HIDE DEF F
  <2>1. F \in Seq(Frames) /\ F # <<>> /\ F[1].fn = frames[1].fn /\ frames' = Append(F, x)
    BY <1>1, <1>5, <1>6 DEF F
  <2> QED
    BY <1>7, <2>1
<1> QED
  BY <1>1, <1>2, <1>3, <1>4, <1>8, <1>9, JumpStep DEF TypeOK

LEMMA IfMergeKeeps ==
  ASSUME TypeOK, Placed, IfMerge
  PROVE  TypeOK' /\ Placed'
<1> DEFINE top == Last(frames)
           B1 == Attached(Terminated(blocks, ip, {top.join}), top.join, top.fn)
<1>1. CASE Stop({"null"})
  <2>1. {"null"} \in SUBSET Faults
    BY DEF Faults
  <2> QED
    BY <1>1, <2>1, StopKeeps
<1>2. CASE ~Stop({"null"})
  <2>1. /\ frames # <<>> /\ top.kind = "else"
        /\ blocks' = [B1 EXCEPT ![top.join].phi = {top.from, ip}]
        /\ ip' = top.join
        /\ frames' = Popped
        /\ UNCHANGED <<symtab_stack, defs, module, fns, stray, status>>
    BY <1>2 DEF IfMerge
  <2>2. /\ Len(frames) >= 2 /\ top \in Frames /\ top.fn = CurrentFn
        /\ top.join \in 1..Len(blocks) /\ top.from \in 1..Len(blocks)
    BY <2>1, NestedFrames
  <2>3. /\ frames \in Seq(Frames) /\ Len(blocks) \in Nat /\ Len(blocks) <= MaxBlocks
        /\ ip \in 1..Len(blocks) /\ MaxBlocks \in Nat /\ blocks \in Seq(Blocks)
    BY <2>1, CurrentIsFn, BoundsAssumption DEF TypeOK
  <2>4. /\ B1 \in Seq(Blocks) /\ Len(B1) = Len(blocks)
        /\ Grown(blocks, B1, CurrentFn) /\ B1[top.join].fn = CurrentFn
    <3> HIDE DEF top
    <3> QED
      BY <2>1, <2>2, BranchEnds
  <2> HIDE DEF top, B1
  <2>5. B1[top.join] \in Blocks /\ {top.from, ip} \in SUBSET (1..MaxBlocks)
    BY <2>2, <2>3, <2>4
  <2>6. blocks' \in Seq(Blocks) /\ SameOwners(B1, blocks')
    <3> DEFINE new == [B1[top.join] EXCEPT !.phi = {top.from, ip}]
    <3>1. new \in Blocks /\ new.fn = B1[top.join].fn
      BY <2>5 DEF Blocks
    <3>2. blocks' = [B1 EXCEPT ![top.join] = new]
      BY <2>1
    <3> HIDE DEF new
    <3> QED
      BY <2>2, <2>4, <3>1, <3>2 DEF SameOwners
  <2>7. /\ Len(blocks') = Len(blocks) /\ Grown(blocks, blocks', CurrentFn)
        /\ blocks'[top.join].fn = CurrentFn
    BY <2>2, <2>3, <2>4, <2>6, GrownSame DEF SameOwners
  <2>8. frames' \in Seq(Frames) /\ Alike(frames', Front(frames))
    BY <2>1, <2>2, <2>3, PoppedFrames
  <2>9. FramesPlaced(frames', blocks') /\ frames' # <<>> /\ frames'[1].fn = frames[1].fn
    BY <2>2, <2>6, <2>7, <2>8, FrontPlaced
  <2> QED
    BY <2>1, <2>2, <2>3, <2>6, <2>7, <2>8, <2>9, JumpStep DEF TypeOK
<1> QED
  BY <1>1, <1>2

LEMMA ForTailKeeps ==
  ASSUME TypeOK, Placed, Len(symtab_stack) >= 2, NEW e \in Exprs, ForTail(e)
  PROVE  TypeOK' /\ Placed'
<1> DEFINE top == Last(frames)
           faults == FaultsOf(symtab_stack, e, "operand")
           U  == Owners(symtab_stack, e) \cup {top.fn}
           B1 == Terminated(blocks, ip, {top.next})
           B2 == Using(B1, top.next, U)
           B3 == Terminated(B2, top.next, {top.from})
<1>1. CASE Stop(faults)
  BY <1>1, StopKeeps DEF FaultsOf
<1>2. CASE ~Stop(faults)
  <2>1. /\ frames # <<>> /\ top.kind = "for"
        /\ blocks' = B3
        /\ ip' = top.join
        /\ fns' = Called(fns, e, CurrentFn)
        /\ symtab_stack' = Exited(symtab_stack)
        /\ frames' = Popped
        /\ UNCHANGED <<defs, module, stray, status>>
    BY <1>2 DEF ForTail, BackEdge
  <2>2. /\ Len(frames) >= 2 /\ top \in Frames /\ top.fn = CurrentFn
        /\ top.join \in 1..Len(blocks) /\ top.next \in 1..Len(blocks)
        /\ top.from \in 1..Len(blocks) /\ blocks[top.join].fn = CurrentFn
    BY <2>1, NestedFrames
  <2>3. /\ frames \in Seq(Frames) /\ Len(blocks) \in Nat /\ Len(blocks) <= MaxBlocks
        /\ MaxBlocks \in Nat /\ blocks \in Seq(Blocks) /\ fns \in Seq(Fns)
        /\ symtab_stack \in Seq(Tables(Slots)) /\ stray \subseteq 1..Len(blocks)
    BY BoundsAssumption DEF TypeOK
  <2>4. CurrentFn \in 1..MaxFns /\ ip \in 1..Len(blocks) /\ CurrentFn \in 0..MaxFns
    BY <2>1, CurrentIsFn
  <2>5. U \in SUBSET (1..MaxFns)
    <3>1. Len(symtab_stack) >= 1
      BY <2>3
    <3>2. Owners(symtab_stack, e) \in SUBSET (1..MaxFns)
      BY <2>3, <3>1, OwnersAreFns
    <3> QED
      BY <2>2, <2>4, <3>2
  <2> HIDE DEF top, U
  <2>6. {top.next} \in SUBSET (1..MaxBlocks) /\ {top.from} \in SUBSET (1..MaxBlocks)
    BY <2>2, <2>3
  <2>7. B1 \in Seq(Blocks) /\ SameOwners(blocks, B1)
    BY <2>3, <2>4, <2>6, TerminatedSame
  <2>8. B2 \in Seq(Blocks) /\ SameOwners(B1, B2)
    <3>1. top.next \in 0..Len(B1)
      BY <2>2, <2>7 DEF SameOwners
    <3> HIDE DEF B1
    <3> QED
      BY <2>5, <2>7, <3>1, UsingSame
  <2>9. B3 \in Seq(Blocks) /\ SameOwners(B2, B3)
    <3>1. top.next \in 1..Len(B2)
      BY <2>2, <2>7, <2>8 DEF SameOwners
    <3> HIDE DEF B2
    <3> QED
      BY <2>6, <2>8, <3>1, TerminatedSame
  <2> HIDE DEF B1, B2, B3
  <2>10. SameOwners(blocks, B3)
    BY <2>7, <2>8, <2>9 DEF SameOwners
  <2>11. Grown(blocks, B3, CurrentFn)
    <3>1. (Len(blocks) + 1)..Len(B3) = {} /\ Len(blocks) <= Len(B3)
      BY <2>3, <2>10 DEF SameOwners
    <3> QED
      BY <2>10, <3>1 DEF SameOwners, Grown
  <2>12. /\ Len(B3) <= MaxBlocks /\ top.join \in 1..Len(B3) /\ B3[top.join].fn = CurrentFn
    BY <2>2, <2>3, <2>10 DEF SameOwners
  <2>13. frames' \in Seq(Frames) /\ Alike(frames', Front(frames))
    BY <2>1, <2>2, <2>3, PoppedFrames
  <2>14. FramesPlaced(frames', B3) /\ frames' # <<>> /\ frames'[1].fn = frames[1].fn
    BY <2>2, <2>9, <2>11, <2>13, FrontPlaced
  <2>15. fns' \in Seq(Fns) /\ Len(fns') = Len(fns)
    BY <2>1, <2>3, <2>4, CalledFns
  <2>16. symtab_stack' \in Seq(Tables(Slots)) /\ Len(symtab_stack') >= 1
    <3>1. Len(symtab_stack) \in Nat
      BY <2>3
    <3> QED
      BY <2>1, <2>3, <3>1, ExitedStack
  <2> QED
    BY <2>1, <2>3, <2>9, <2>11, <2>12, <2>13, <2>14, <2>15, <2>16, JumpStep
<1> QED
  BY <1>1, <1>2
-----------------------------------------------------------------------------
(* Function definitions.                                                   *)
LEMMA ResolvedFn ==
  ASSUME TypeOK, NEW f \in Funcs, NEW params
  PROVE  Resolved(f, params) \in 0..(Len(fns) + 1)
<1>1. module[f] \in 0..Len(fns) /\ Len(fns) \in Nat
  BY DEF TypeOK
<1> QED
  BY <1>1 DEF Resolved

LEMMA RegisteredDefs ==
  ASSUME TypeOK, NEW f \in Funcs, NEW params \in ParamLists
  PROVE  Registered(f, params) \in [Funcs -> Nat \cup {Null}]
<1>1. Len(params) \in Nat
  BY ParamListsAssumption
<1> QED
  BY <1>1 DEF Registered, TypeOK

LEMMA NewFns ==
  ASSUME NEW f \in Funcs, NEW params \in ParamLists, NEW state \in {"declared", "defined"}
  PROVE  NewFn(f, params, state) \in Fns
<1>1. Len(params) \in Nat
  BY ParamListsAssumption
<1> QED
  BY <1>1 DEF NewFn, Fns

LEMMA RefusedDefKeeps ==
  ASSUME TypeOK, Placed, NEW f \in Funcs, NEW params \in ParamLists,
         RefusedDef(f, params)
  PROVE  TypeOK' /\ Placed'
<1>1. /\ defs' = Registered(f, params)
      /\ symtab_stack' = Entered(symtab_stack)
      /\ UNCHANGED <<module, fns, blocks, stray, ip, frames, status>>
  BY DEF RefusedDef
<1>2. symtab_stack' \in Seq(Tables(Slots)) /\ Len(symtab_stack') >= 1
  BY <1>1, EnteredStack DEF TypeOK
<1>3. TypeOK'
  BY <1>1, <1>2, RegisteredDefs DEF TypeOK
<1> QED
  BY <1>1, <1>3 DEF Placed

LEMMA ExternDefKeeps ==
  ASSUME TypeOK, Placed, NEW f \in Funcs, NEW params \in ParamLists,
         ExternDef(f, params)
  PROVE  TypeOK' /\ Placed'
<1> DEFINE fn == Resolved(f, params)
<1>1. /\ fn \in 1..MaxFns /\ frames = <<>>
      /\ defs' = Registered(f, params)
      /\ fns' = IF fn \in DOMAIN fns THEN fns
                ELSE Append(fns, NewFn(f, params, "declared"))
      /\ module' = [module EXCEPT ![f] = fn]
      /\ symtab_stack' = Exited(Entered(symtab_stack))
      /\ UNCHANGED <<blocks, stray, ip, frames, status>>
  BY DEF ExternDef
<1>2. fn \in 0..(Len(fns) + 1)
  BY ResolvedFn
<1> HIDE DEF fn
<1>3. /\ fns \in Seq(Fns) /\ Len(fns) \in Nat /\ Len(fns) <= MaxFns /\ MaxFns \in Nat
      /\ symtab_stack \in Seq(Tables(Slots)) /\ Len(symtab_stack) >= 1
      /\ Len(symtab_stack) \in Nat
      /\ module \in [Funcs -> 0..Len(fns)]
  BY BoundsAssumption DEF TypeOK
<1>4. /\ fns' \in Seq(Fns) /\ Len(fns') <= MaxFns /\ Len(fns) <= Len(fns')
      /\ fn \in 1..Len(fns')
  <2>1. CASE fn \in DOMAIN fns
    BY <1>1, <1>3, <2>1
  <2>2. CASE fn \notin DOMAIN fns
    <3>1. fn = Len(fns) + 1
      <4>1. fn \in 1..(Len(fns) + 1) /\ fn \notin 1..Len(fns) /\ Len(fns) \in Nat
        BY <1>1, <1>2, <1>3, <2>2
      <4> QED
        BY ONLY <4>1
    <3>2. NewFn(f, params, "declared") \in Fns
      BY NewFns
    <3> QED
      BY <1>1, <1>3, <2>2, <3>1, <3>2
  <2> QED
    BY <2>1, <2>2
<1>5. module' \in [Funcs -> 0..Len(fns')]
  BY <1>1, <1>3, <1>4
<1>6. symtab_stack' \in Seq(Tables(Slots)) /\ Len(symtab_stack') >= 1
  <2>1. Entered(symtab_stack) \in Seq(Tables(Slots)) /\ Len(Entered(symtab_stack)) >= 2
    BY <1>3, EnteredStack
  <2>2. Len(Entered(symtab_stack)) \in Nat
    BY <2>1
  <2> QED
    BY <1>1, <2>1, <2>2, ExitedStack
<1>7. TypeOK'
  BY <1>1, <1>4, <1>5, <1>6, RegisteredDefs DEF TypeOK
<1>8. \A b \in 1..Len(blocks) : blocks[b].fn <= Len(fns')
  <2> SUFFICES ASSUME NEW b \in 1..Len(blocks) PROVE blocks[b].fn <= Len(fns')
    OBVIOUS
  <2>1. blocks[b] \in Blocks
    BY DEF TypeOK
  <2>2. blocks[b].fn \in 0..MaxFns /\ blocks[b].fn <= Len(fns)
    BY <2>1 DEF Blocks, Placed
  <2>3. Len(fns') \in Nat
    BY <1>4
  <2> QED
    BY <1>3, <1>4, <2>2, <2>3
<1> QED
  BY <1>1, <1>7, <1>8 DEF Placed

LEMMA BeginDefKeeps ==
  ASSUME TypeOK, Placed, NEW f \in Funcs, NEW params \in ParamLists,
         BeginDef(f, params)
  PROVE  TypeOK' /\ Placed'
<1> DEFINE fn == Resolved(f, params)
           b == [NewBlock(fn, "entry") EXCEPT !.uses = {fn}]
           x == Frame("func", fn, 0, 0, 0, "none")
<1>1. /\ fn \in 1..MaxFns /\ frames = <<>> /\ Len(blocks) < MaxBlocks
      /\ defs' = Registered(f, params)
      /\ fns' = IF fn \in DOMAIN fns THEN [fns EXCEPT ![fn].state = "defined"]
                ELSE Append(fns, NewFn(f, params, "defined"))
      /\ module' = [module EXCEPT ![f] = fn]
      /\ blocks' = Append(blocks, b)
      /\ ip' = Len(blocks) + 1
      /\ symtab_stack' = Append(symtab_stack, ParamTable(params, fn))
      /\ frames' = <<x>>
      /\ UNCHANGED <<stray, status>>
  BY DEF BeginDef, EntryPoint
<1>2. fn \in 0..(Len(fns) + 1)
  BY ResolvedFn
<1> HIDE DEF fn
<1>3. /\ fns \in Seq(Fns) /\ Len(fns) \in Nat /\ Len(fns) <= MaxFns
      /\ MaxFns \in Nat /\ MaxBlocks \in Nat
      /\ symtab_stack \in Seq(Tables(Slots)) /\ Len(symtab_stack) >= 1
      /\ blocks \in Seq(Blocks) /\ Len(blocks) \in Nat
      /\ module \in [Funcs -> 0..Len(fns)]
  BY BoundsAssumption DEF TypeOK
<1>4. /\ fns' \in Seq(Fns) /\ Len(fns') <= MaxFns /\ Len(fns) <= Len(fns')
      /\ fn \in 1..Len(fns')
  <2>1. CASE fn \in DOMAIN fns
    <3> DEFINE new == [fns[fn] EXCEPT !.state = "defined"]
    <3>1. fns[fn] \in Fns
      BY <1>3, <2>1
    <3>2. new \in Fns
      BY <3>1 DEF Fns
    <3>3. fns' = [fns EXCEPT ![fn] = new]
      BY <1>1, <2>1
    <3> HIDE DEF new
    <3> QED
      BY <1>3, <2>1, <3>2, <3>3
  <2>2. CASE fn \notin DOMAIN fns
    <3>1. fn = Len(fns) + 1
      <4>1. fn \in 1..(Len(fns) + 1) /\ fn \notin 1..Len(fns) /\ Len(fns) \in Nat
        BY <1>1, <1>2, <1>3, <2>2
      <4> QED
        BY ONLY <4>1
    <3>2. NewFn(f, params, "defined") \in Fns
      BY NewFns
    <3> QED
      BY <1>1, <1>3, <2>2, <3>1, <3>2
  <2> QED
    BY <2>1, <2>2
<1>5. module' \in [Funcs -> 0..Len(fns')]
  BY <1>1, <1>3, <1>4
<1>6. b \in Blocks /\ b.fn = fn
  <2>1. NewBlock(fn, "entry") \in Blocks /\ NewBlock(fn, "entry").fn = fn
    BY <1>1, <1>3, NewBlocks
  <2> QED
    BY <1>1, <2>1 DEF Blocks
<1>7. x \in Frames /\ x.kind = "func" /\ x.fn = fn
  <2>1. 0 \in 0..MaxBlocks
    BY <1>3
  <2> QED
    BY <1>1, <2>1 DEF Frame, Frames
<1> HIDE DEF b, x
<1>8. symtab_stack' \in Seq(Tables(Slots)) /\ Len(symtab_stack') >= 1
  <2>1. ParamTable(params, fn) \in Tables(Slots)
    <3>1. [fn |-> fn, level |-> "local"] \in Slots
      BY <1>1 DEF Slots
    <3> QED
      BY <3>1 DEF ParamTable, EmptyTable, Tables
  <2> QED
    BY <1>1, <1>3, <2>1
<1>9. /\ blocks' \in Seq(Blocks) /\ Len(blocks') = Len(blocks) + 1
      /\ \A c \in 1..Len(blocks) : blocks'[c] = blocks[c]
      /\ blocks'[Len(blocks) + 1].fn = fn
  BY <1>1, <1>3, <1>6
<1>10. frames' \in Seq(Frames) /\ Len(frames') = 1 /\ frames'[1] = x
  BY <1>1, <1>7
<1>11. TypeOK'
  <2>1. Len(blocks') <= MaxBlocks /\ ip' \in 0..Len(blocks')
    BY <1>1, <1>3, <1>9
  <2>2. stray' \subseteq 1..Len(blocks')
    BY <1>1, <1>3, <1>9 DEF TypeOK
  <2> QED
    BY <1>1, <1>4, <1>5, <1>8, <1>9, <1>10, <2>1, <2>2, RegisteredDefs DEF TypeOK
<1>12. \A c \in 1..Len(blocks') : blocks'[c].fn <= Len(fns')
  <2> SUFFICES ASSUME NEW c \in 1..Len(blocks') PROVE blocks'[c].fn <= Len(fns')
    OBVIOUS
  <2>0. Len(fns') \in Nat
    BY <1>4
  <2>1. CASE c = Len(blocks) + 1
    BY <1>4, <1>9, <2>0, <2>1
  <2>2. CASE c \in 1..Len(blocks)
    <3>1. blocks[c] \in Blocks /\ blocks'[c].fn = blocks[c].fn
      BY <1>3, <1>9, <2>2
    <3>2. blocks[c].fn \in 0..MaxFns /\ blocks[c].fn <= Len(fns)
      BY <2>2, <3>1 DEF Blocks, Placed
    <3> QED
      BY <1>3, <1>4, <2>0, <3>1, <3>2
  <2> QED
    BY <1>3, <1>9, <2>1, <2>2
<1>13. FramesPlaced(frames', blocks')
  BY <1>7, <1>10 DEF FramesPlaced
<1>14. ip' # 0 /\ blocks'[ip'].fn = fn /\ fn # 0 /\ frames'[1].fn = fn /\ fn <= Len(fns')
  BY <1>1, <1>3, <1>4, <1>7, <1>9, <1>10
<1> QED
  BY <1>11, <1>12, <1>13, <1>14 DEF Placed

LEMMA EndDefKeeps ==
  ASSUME TypeOK, Placed, Len(symtab_stack) >= 2, EndDef
  PROVE  TypeOK' /\ Placed'
<1>1. /\ Len(frames) = 1
      /\ blocks' = Terminated(blocks, ip, {})
      /\ symtab_stack' = Exited(symtab_stack)
      /\ frames' = <<>>
      /\ UNCHANGED <<defs, module, fns, stray, ip, status>>
  BY DEF EndDef
<1>2. /\ frames # <<>> /\ symtab_stack \in Seq(Tables(Slots)) /\ Len(symtab_stack) \in Nat
      /\ blocks \in Seq(Blocks) /\ Len(blocks) \in Nat /\ {} \in SUBSET (1..MaxBlocks)
  <2>1. {} \in SUBSET (1..MaxBlocks)
    OBVIOUS
  <2>2. frames # <<>>
    BY <1>1
  <2> QED
    BY <2>1, <2>2 DEF TypeOK
<1>3. ip \in 1..Len(blocks)
  BY <1>2, CurrentIsFn
<1>4. blocks' \in Seq(Blocks) /\ SameOwners(blocks, blocks')
  BY <1>1, <1>2, <1>3, TerminatedSame
<1>5. symtab_stack' \in Seq(Tables(Slots)) /\ Len(symtab_stack') >= 1
  BY <1>1, <1>2, ExitedStack
<1>6. frames' \in Seq(Frames)
  BY <1>1
<1>7. TypeOK'
  BY <1>1, <1>4, <1>5, <1>6 DEF TypeOK, SameOwners
<1>8. FramesPlaced(frames', blocks')
  BY <1>1 DEF FramesPlaced
<1> QED
  BY <1>1, <1>3, <1>4, <1>7, <1>8 DEF Placed, SameOwners

LEMMA EraseDefKeeps ==
  ASSUME TypeOK, Placed, Len(symtab_stack) >= 2, EraseDef
  PROVE  TypeOK' /\ Placed'
<1> DEFINE fn == frames[1].fn
           Left(i) == [fns[i] EXCEPT !.users = @ \ {fn},
                                     !.state = IF i = fn THEN "erased" ELSE @]
           gone == [i \in DOMAIN fns |-> Left(i)]
<1>1. /\ Len(frames) = 1
      /\ fns' = gone
      /\ module' = [module EXCEPT ![fns[fn].name] = 0]
      /\ status' = IF fns[fn].users \subseteq {fn} THEN status ELSE "use"
      /\ symtab_stack' = Exited(symtab_stack)
      /\ frames' = <<>>
      /\ UNCHANGED <<defs, blocks, stray, ip>>
  BY DEF EraseDef
<1>2. /\ symtab_stack \in Seq(Tables(Slots)) /\ Len(symtab_stack) \in Nat
      /\ fns \in Seq(Fns) /\ Len(fns) \in Nat /\ module \in [Funcs -> 0..Len(fns)]
  BY DEF TypeOK
<1>3. gone \in Seq(Fns) /\ Len(gone) = Len(fns)
  <2>1. ASSUME NEW i \in 1..Len(fns)
        PROVE  Left(i) \in Fns
    <3>1. fns[i] \in Fns
      BY <1>2
    <3> HIDE DEF fn
    <3> QED
      BY <3>1 DEF Fns
  <2>2. DOMAIN fns = 1..Len(fns)
    BY <1>2
  <2> HIDE DEF Left
  <2> QED
    BY <1>2, <2>1, <2>2
<1> HIDE DEF gone
<1>4. symtab_stack' \in Seq(Tables(Slots)) /\ Len(symtab_stack') >= 1
  BY <1>1, <1>2, ExitedStack
<1>5. frames' \in Seq(Frames)
  BY <1>1
<1>6. module' \in [Funcs -> 0..Len(fns')] /\ status' \in {"running", "done"} \cup Faults
  <2>1. 0 \in 0..Len(fns)
    BY <1>2
  <2> QED
    BY <1>1, <1>2, <1>3, <2>1 DEF TypeOK, Faults
<1>7. TypeOK'
  BY <1>1, <1>3, <1>4, <1>5, <1>6 DEF TypeOK
<1> QED
  BY <1>1, <1>3, <1>7 DEF Placed, FramesPlaced

LEMMA FinishKeeps ==
  ASSUME TypeOK, Placed, Finish
  PROVE  TypeOK' /\ Placed'
  BY DEF Finish, TypeOK, Placed, CurrentFn

LEMMA StutterKeeps ==
  ASSUME TypeOK, Placed, UNCHANGED vars
  PROVE  TypeOK' /\ Placed'
  BY DEF vars, TypeOK, Placed, CurrentFn
-----------------------------------------------------------------------------
(* The frames that have a scope of their own.                              *)
Scoped(F) == {i \in DOMAIN F : F[i].kind \in {"func", "for"}}

Open == Cardinality(Scoped(frames))

LEMMA ScopedFinite ==
  ASSUME NEW F \in Seq(Frames)
  PROVE  IsFiniteSet(Scoped(F)) /\ Cardinality(Scoped(F)) \in Nat
<1>1. IsFiniteSet(1..Len(F))
  BY FS_Interval
<1>2. Scoped(F) \in SUBSET (1..Len(F))
  BY DEF Scoped
<1>3. IsFiniteSet(Scoped(F))
  BY <1>1, <1>2, FS_Subset
<1> QED
  BY <1>3, FS_CardinalityType

LEMMA ScopedAlike ==
  ASSUME NEW F \in Seq(Frames), NEW G \in Seq(Frames), Alike(G, F)
  PROVE  Scoped(G) = Scoped(F)
<1>1. DOMAIN F = 1..Len(F) /\ DOMAIN G = 1..Len(F)
  BY DEF Alike
<1> QED
  BY <1>1 DEF Alike, Scoped

(* One frame more, with or without a scope.                                *)
LEMMA ScopedNext ==
  ASSUME NEW F \in Seq(Frames), NEW G \in Seq(Frames), Len(G) = Len(F) + 1,
         \A i \in 1..Len(F) : G[i].kind = F[i].kind
  PROVE  Cardinality(Scoped(G)) =
           IF G[Len(G)].kind \in {"func", "for"}
           THEN Cardinality(Scoped(F)) + 1 ELSE Cardinality(Scoped(F))
<1>1. /\ Len(F) \in Nat /\ DOMAIN F = 1..Len(F) /\ DOMAIN G = 1..(Len(F) + 1)
      /\ 1..(Len(F) + 1) = (1..Len(F)) \cup {Len(G)} /\ Len(G) \notin 1..Len(F)
  OBVIOUS
<1>2. CASE G[Len(G)].kind \in {"func", "for"}
  <2>1. Scoped(G) = Scoped(F) \cup {Len(G)} /\ Len(G) \notin Scoped(F)
    BY <1>1, <1>2 DEF Scoped
  <2> QED
    BY <1>2, <2>1, ScopedFinite, FS_AddElement
<1>3. CASE G[Len(G)].kind \notin {"func", "for"}
  <2>1. Scoped(G) = Scoped(F)
    BY <1>1, <1>3 DEF Scoped
  <2> QED
    BY <1>3, <2>1
<1> QED
  BY <1>2, <1>3

LEMMA NothingOpen ==
  Cardinality(Scoped(<<>>)) = 0
<1>1. Scoped(<<>>) = {}
  BY DEF Scoped
<1> QED
  BY <1>1, FS_EmptySet

LEMMA SomethingOpen ==
  ASSUME TypeOK, Placed, frames # <<>>
  PROVE  Open \in Nat /\ Open >= 1 /\ (Len(frames) = 1 => Open = 1)
<1>1. frames \in Seq(Frames) /\ Len(frames) \in Nat /\ Len(frames) >= 1
  BY DEF TypeOK
<1>2. 1 \in Scoped(frames)
  BY <1>1 DEF Scoped, Placed, FramesPlaced
<1>3. IsFiniteSet(Scoped(frames)) /\ Open \in Nat
  BY <1>1, ScopedFinite DEF Open
<1>4. Open # 0
  BY <1>2, <1>3, FS_EmptySet DEF Open
<1>5. Len(frames) = 1 => Open = 1
  <2> SUFFICES ASSUME Len(frames) = 1 PROVE Open = 1
    OBVIOUS
  <2>1. <<>> \in Seq(Frames) /\ Len(<<>>) = 0
    OBVIOUS
  <2>2. frames[1].kind = "func"
    BY DEF Placed, FramesPlaced
  <2>3. Cardinality(Scoped(frames)) = Cardinality(Scoped(<<>>)) + 1
    <3> DEFINE E == <<>>
    <3>1. Len(frames) = Len(E) + 1 /\ \A i \in 1..Len(E) : frames[i].kind = E[i].kind
      BY <2>1
    <3> HIDE DEF E
    <3>2. E \in Seq(Frames)
      BY <2>1 DEF E
    <3>3. Cardinality(Scoped(frames)) = Cardinality(Scoped(E)) + 1
      BY <1>1, <2>2, <3>1, <3>2, ScopedNext
    <3> QED
      BY <3>3 DEF E
  <2> QED
    BY <2>3, NothingOpen DEF Open
<1> QED
  BY <1>3, <1>4, <1>5

(* What a step does to the scopes: it leaves them alone, declares a name   *)
(* in the current one, opens one or closes one.                            *)
ScopesStay ==
  /\ symtab_stack' = symtab_stack /\ Open' = Open
  /\ (frames' = <<>>) = (frames = <<>>)
  /\ frames # <<>> => frames'[1].fn = frames[1].fn

LEMMA AlikeStays ==
  ASSUME TypeOK, TypeOK', Alike(frames', frames), symtab_stack' = symtab_stack
  PROVE  ScopesStay
<1>1. frames \in Seq(Frames) /\ frames' \in Seq(Frames)
  BY DEF TypeOK
<1>2. Open' = Open
  BY <1>1, ScopedAlike DEF Open
<1>3. Len(frames) \in Nat /\ Len(frames') = Len(frames)
  BY <1>1 DEF Alike
<1>4. (frames' = <<>>) = (frames = <<>>)
  BY <1>1, <1>3
<1>5. frames # <<>> => frames'[1].fn = frames[1].fn
  BY <1>1, <1>3 DEF Alike
<1> QED
  BY <1>2, <1>4, <1>5 DEF ScopesStay

LEMMA FramesStay ==
  ASSUME TypeOK, UNCHANGED <<symtab_stack, frames>>
  PROVE  ScopesStay
  BY DEF ScopesStay, Open

ScopeOpens ==
  /\ Len(symtab_stack') = Len(symtab_stack) + 1 /\ Open' = Open + 1
  /\ \A i \in 1..Len(symtab_stack) : symtab_stack'[i] = symtab_stack[i]
  /\ frames' # <<>> /\ (frames # <<>> => frames'[1].fn = frames[1].fn)
  /\ \A n \in Idents :
       LET slot == symtab_stack'[Len(symtab_stack) + 1]["variable"][n] IN
       slot # Null => slot.fn = frames'[1].fn /\ slot.level = "local"

ScopeCloses ==
  /\ Len(symtab_stack') = Len(symtab_stack) - 1 /\ Open' = Open - 1
  /\ \A i \in 1..Len(symtab_stack') : symtab_stack'[i] = symtab_stack[i]
  /\ frames' # <<>> => frames # <<>> /\ frames'[1].fn = frames[1].fn
  /\ Len(frames') < Len(frames) /\ Last(frames).kind \in {"func", "for"}

ScopeIsLeft ==
  /\ frames = <<>> /\ frames' = <<>>
  /\ symtab_stack' = Entered(symtab_stack)

NameDeclared ==
  /\ Len(symtab_stack') = Len(symtab_stack) /\ Open' = Open
  /\ \A i \in 1..(Len(symtab_stack) - 1) : symtab_stack'[i] = symtab_stack[i]
  /\ (frames' = <<>>) = (frames = <<>>)
  /\ frames # <<>> => frames'[1].fn = frames[1].fn
  /\ \A n \in Idents :
       LET old == symtab_stack[Len(symtab_stack)]["variable"][n]
           new == symtab_stack'[Len(symtab_stack)]["variable"][n]
       IN  new = old \/ (old = Null /\ new = Slot(CurrentFn))

LEMMA StopStays ==
  ASSUME TypeOK, NEW F, Stop(F)
  PROVE  ScopesStay
  BY FramesStay DEF Stop

LEMMA StatementStays ==
  ASSUME TypeOK, Placed, TypeOK', NEW e \in Exprs,
         ExprStmt(e) \/ RetStmt(e) \/ IfSkipped(e)
  PROVE  ScopesStay
<1>1. CASE UNCHANGED <<symtab_stack, frames>>
  BY <1>1, FramesStay
<1>2. CASE ~UNCHANGED <<symtab_stack, frames>>
  <2>1. symtab_stack' = symtab_stack /\ (frames' = Valued(ValueOf(e)) \/ frames' = Valued("none"))
    BY <1>2 DEF ExprStmt, RetStmt, IfSkipped, Stop
  <2>2. Alike(frames', frames)
    BY <2>1, ValuedFrames DEF TypeOK, ValueOf
  <2> QED
    BY <2>1, <2>2, AlikeStays
<1> QED
  BY <1>1, <1>2

LEMMA IfCondStays ==
  ASSUME TypeOK, Placed, TypeOK', NEW e \in Exprs, IfCond(e)
  PROVE  ScopesStay
<1>1. CASE UNCHANGED <<symtab_stack, frames>>
  BY <1>1, FramesStay
<1>2. CASE ~UNCHANGED <<symtab_stack, frames>>
  <2>1. PICK x : /\ symtab_stack' = symtab_stack /\ frames # <<>>
                 /\ frames' = Append(frames, x) /\ x.kind = "then"
    BY <1>2 DEF IfCond, Stop, Frame
  <2>2. /\ frames \in Seq(Frames) /\ frames' \in Seq(Frames) /\ Len(frames) \in Nat
        /\ Len(frames) >= 1
    BY <2>1 DEF TypeOK
  <2>3. /\ Len(frames') = Len(frames) + 1 /\ \A i \in 1..Len(frames) : frames'[i] = frames[i]
        /\ frames'[Len(frames')].kind = "then"
    BY <2>1, <2>2
  <2>4. Open' = Open
    BY <2>2, <2>3, ScopedNext DEF Open
  <2> QED
    BY <2>1, <2>2, <2>3, <2>4 DEF ScopesStay
<1> QED
  BY <1>1, <1>2

LEMMA ElseStays ==
  ASSUME TypeOK, Placed, TypeOK', IfElse
  PROVE  ScopesStay
<1> DEFINE x == Frame("else", Last(frames).fn, 0, Last(frames).join, ip,
                       Last(frames).value)
<1>1. /\ symtab_stack' = symtab_stack /\ frames # <<>> /\ Last(frames).kind = "then"
      /\ frames' = Append(Front(frames), x) /\ x.kind = "else"
  BY DEF IfElse, Frame
<1> HIDE DEF x
<1>2. frames \in Seq(Frames) /\ Len(frames) >= 2 /\ Last(frames) = frames[Len(frames)]
      /\ frames' \in Seq(Frames) /\ blocks \in Seq(Blocks)
  BY <1>1, NestedFrames DEF TypeOK
<1> DEFINE F == Front(frames)
<1>3. /\ F \in Seq(Frames) /\ Len(F) >= 1 /\ Len(frames) = Len(F) + 1
      /\ \A i \in 1..Len(F) : F[i] = frames[i]
  BY <1>2 DEF Front
<1> HIDE DEF F
<1>4. /\ frames' = Append(F, x) /\ Len(F) \in Nat /\ Len(F) >= 1
  BY <1>1, <1>3 DEF F
<1>5. /\ Len(frames') = Len(F) + 1 /\ \A i \in 1..Len(F) : frames'[i] = F[i]
      /\ frames'[Len(frames')] = x
  BY <1>3, <1>4
<1>6. Cardinality(Scoped(frames)) = Cardinality(Scoped(F))
  BY <1>1, <1>2, <1>3, ScopedNext
<1>7. Cardinality(Scoped(frames')) = Cardinality(Scoped(F))
  BY <1>1, <1>2, <1>3, <1>5, ScopedNext
<1>8. frames' # <<>> /\ frames'[1] = frames[1]
  BY <1>2, <1>3, <1>4, <1>5
<1>9. Open' = Open
  BY <1>6, <1>7 DEF Open
<1> QED
  BY <1>1, <1>8, <1>9 DEF ScopesStay

(* A branch or a loop ends: its frame goes, the ones below keep their kind.*)
LEMMA PoppedCounts ==
  ASSUME TypeOK, Placed, Len(frames) >= 2, frames' = Popped
  PROVE  /\ frames' # <<>> /\ frames'[1].fn = frames[1].fn
         /\ Open = IF Last(frames).kind \in {"func", "for"} THEN Open' + 1 ELSE Open'
<1>1. frames \in Seq(Frames)
  BY DEF TypeOK
<1> DEFINE F == Front(frames)
<1>2. /\ F \in Seq(Frames) /\ Len(frames) = Len(F) + 1
      /\ \A i \in 1..Len(F) : F[i] = frames[i]
      /\ Last(frames) = frames[Len(frames)] /\ Len(F) >= 1
  BY <1>1 DEF Front, Last
<1>3. frames' \in Seq(Frames) /\ Alike(frames', F)
  BY <1>1, PoppedFrames
<1> HIDE DEF F
<1>4. Scoped(frames') = Scoped(F)
  BY <1>2, <1>3, ScopedAlike
<1>5. Cardinality(Scoped(frames)) =
        IF Last(frames).kind \in {"func", "for"}
        THEN Cardinality(Scoped(F)) + 1 ELSE Cardinality(Scoped(F))
  BY <1>1, <1>2, ScopedNext
<1>6. frames' # <<>> /\ frames'[1].fn = frames[1].fn
  BY <1>2, <1>3 DEF Alike
<1> QED
  BY <1>4, <1>5, <1>6 DEF Open

LEMMA IfMergeStays ==
  ASSUME TypeOK, Placed, TypeOK', IfMerge
  PROVE  ScopesStay
<1>1. CASE UNCHANGED <<symtab_stack, frames>>
  BY <1>1, FramesStay
<1>2. CASE ~UNCHANGED <<symtab_stack, frames>>
  <2>1. /\ symtab_stack' = symtab_stack /\ frames # <<>> /\ Last(frames).kind = "else"
        /\ frames' = Popped
    BY <1>2 DEF IfMerge, Stop
  <2>2. Len(frames) >= 2
    BY <2>1, NestedFrames
  <2>3. /\ frames' # <<>> /\ frames'[1].fn = frames[1].fn
        /\ Open = IF Last(frames).kind \in {"func", "for"} THEN Open' + 1 ELSE Open'
    BY <2>1, <2>2, PoppedCounts
  <2> QED
    BY <2>1, <2>3 DEF ScopesStay
<1> QED
  BY <1>1, <1>2

LEMMA ExternDefStays ==
  ASSUME TypeOK, NEW f, NEW params, ExternDef(f, params)
  PROVE  ScopesStay
<1>1. symtab_stack' = Exited(Entered(symtab_stack)) /\ frames' = frames
  BY DEF ExternDef
<1> DEFINE E == Append(symtab_stack, EmptyTable)
<1>2. /\ symtab_stack \in Seq(Tables(Slots)) /\ Len(symtab_stack) \in Nat
      /\ Len(E) = Len(symtab_stack) + 1
      /\ \A i \in 1..Len(symtab_stack) : E[i] = symtab_stack[i]
  BY DEF TypeOK
<1>3. Front(E) = [i \in 1..Len(symtab_stack) |-> E[i]]
  <2>1. Len(E) - 1 = Len(symtab_stack)
    BY <1>2
  <2> HIDE DEF E
  <2> QED
    BY <2>1 DEF Front
<1>4. Front(E) = symtab_stack
  <2> HIDE DEF E
  <2> QED
    BY <1>2, <1>3
<1>5. symtab_stack' = symtab_stack
  BY <1>1, <1>4 DEF Exited, Entered
<1> QED
  BY <1>1, <1>5, FramesStay

LEMMA VarDeclDeclares ==
  ASSUME TypeOK, Placed, TypeOK', NEW n \in Idents, NEW type, NEW e,
         VarDecl(n, type, e)
  PROVE  ScopesStay \/ NameDeclared
<1>1. CASE UNCHANGED <<symtab_stack, frames>>
  BY <1>1, FramesStay
<1>2. CASE ~UNCHANGED <<symtab_stack, frames>>
  <2>1. /\ symtab_stack' = Added(symtab_stack, "variable", n, Slot(CurrentFn))
        /\ frames' = Valued("some") /\ ip # 0
    BY <1>2 DEF VarDecl, Stop
  <2>2. /\ symtab_stack \in Seq(Tables(Slots)) /\ Len(symtab_stack) >= 1
        /\ frames \in Seq(Frames) /\ frames' \in Seq(Frames) /\ Len(frames) \in Nat
    BY DEF TypeOK
  <2>3. Alike(frames', frames)
    BY <2>1, <2>2, ValuedFrames
  <2>4. /\ Open' = Open /\ (frames' = <<>>) = (frames = <<>>)
        /\ frames # <<>> => frames'[1].fn = frames[1].fn
    <3>1. Scoped(frames') = Scoped(frames)
      BY <2>2, <2>3, ScopedAlike
    <3>2. Len(frames') = Len(frames)
      BY <2>3 DEF Alike
    <3> QED
      BY <2>2, <2>3, <3>1, <3>2 DEF Open, Alike
  <2>5. Slot(CurrentFn) \in Slots
    BY <2>1, CurrentIsFn DEF Slot, Slots
  <2>6. /\ Len(symtab_stack') = Len(symtab_stack)
        /\ \A i \in 1..(Len(symtab_stack) - 1) : symtab_stack'[i] = symtab_stack[i]
        /\ \A m \in Idents :
             \/ symtab_stack'[Len(symtab_stack)]["variable"][m]
                  = symtab_stack[Len(symtab_stack)]["variable"][m]
             \/ /\ symtab_stack'[Len(symtab_stack)]["variable"][m] = Slot(CurrentFn)
                /\ symtab_stack[Len(symtab_stack)]["variable"][m] = Null
    BY <2>1, <2>2, <2>5, AddedStack, KindsAssumption
  <2> QED
    BY <2>4, <2>6 DEF NameDeclared
<1> QED
  BY <1>1, <1>2

LEMMA ForHeadOpens ==
  ASSUME TypeOK, Placed, TypeOK', NEW n \in Idents, NEW start, NEW end,
         ForHead(n, start, end)
  PROVE  ScopesStay \/ ScopeOpens
<1>1. CASE UNCHANGED <<symtab_stack, frames>>
  BY <1>1, FramesStay
<1>2. CASE ~UNCHANGED <<symtab_stack, frames>>
  <2> DEFINE x == Frame("for", CurrentFn, Len(blocks) + 3, Len(blocks) + 4,
                        Len(blocks) + 1, "none")
             E == Entered(symtab_stack)
  <2>1. /\ symtab_stack' = Added(E, "variable", n, Slot(CurrentFn))
        /\ frames # <<>> /\ frames' = Append(frames, x) /\ x.kind = "for"
    BY <1>2 DEF ForHead, Stop, Frame
  <2> HIDE DEF x
  <2>2. /\ symtab_stack \in Seq(Tables(Slots)) /\ Len(symtab_stack) >= 1
        /\ Len(symtab_stack) \in Nat
        /\ frames \in Seq(Frames) /\ frames' \in Seq(Frames)
        /\ Len(frames) \in Nat /\ Len(frames) >= 1
    BY <2>1 DEF TypeOK
  <2>3. /\ Len(frames') = Len(frames) + 1 /\ \A i \in 1..Len(frames) : frames'[i] = frames[i]
        /\ frames'[Len(frames')].kind = "for"
    BY <2>1, <2>2
  <2>4. Open' = Open + 1
    BY <2>2, <2>3, ScopedNext DEF Open
  <2>5. frames' # <<>> /\ frames'[1] = frames[1] /\ frames[1].fn = CurrentFn
    BY <2>1, <2>2, <2>3, CurrentIsFn
  <2>6. CurrentFn \in 1..MaxFns
    BY <2>1, CurrentIsFn
  <2>7. Slot(CurrentFn) \in Slots /\ Slot(CurrentFn).fn = CurrentFn
        /\ Slot(CurrentFn).level = "local"
    BY <2>1, <2>6 DEF Slot, Slots
  <2>8. /\ E \in Seq(Tables(Slots)) /\ Len(E) = Len(symtab_stack) + 1
        /\ \A i \in 1..Len(symtab_stack) : E[i] = symtab_stack[i]
        /\ E[Len(E)] = EmptyTable
    BY <2>2, EnteredStack
  <2> HIDE DEF E
  <2>9. /\ Len(symtab_stack') = Len(E)
        /\ \A i \in 1..(Len(E) - 1) : symtab_stack'[i] = E[i]
        /\ \A m \in Idents : E[Len(E)]["variable"][m] # Null \/ m # n
             => symtab_stack'[Len(E)]["variable"][m] = E[Len(E)]["variable"][m]
        /\ E[Len(E)]["variable"][n] = Null
             => symtab_stack'[Len(E)]["variable"][n] = Slot(CurrentFn)
    <3>1. Len(E) >= 1 /\ "variable" \in Kinds
      BY <2>2, <2>8, KindsAssumption
    <3> DEFINE A == Added(E, "variable", n, Slot(CurrentFn))
    <3>2. /\ Len(A) = Len(E) /\ \A i \in 1..(Len(E) - 1) : A[i] = E[i]
          /\ \A j \in Kinds, m \in Idents :
               E[Len(E)][j][m] # Null \/ j # "variable" \/ m # n
                 => A[Len(E)][j][m] = E[Len(E)][j][m]
          /\ E[Len(E)]["variable"][n] = Null => A[Len(E)]["variable"][n] = Slot(CurrentFn)
      BY <2>7, <2>8, <3>1, AddedStack
    <3>3. symtab_stack' = A
      BY <2>1
    <3> HIDE DEF A
    <3> QED
      BY <3>1, <3>2, <3>3
  <2>10. \A m \in Idents : EmptyTable["variable"][m] = Null
    BY KindsAssumption DEF EmptyTable
  <2>11. \A m \in Idents : symtab_stack'[Len(E)]["variable"][m] \in {Null, Slot(CurrentFn)}
    BY <2>8, <2>9, <2>10
  <2>12. \A i \in 1..Len(symtab_stack) : symtab_stack'[i] = symtab_stack[i]
    BY <2>2, <2>8, <2>9
  <2> QED
    BY <2>4, <2>5, <2>7, <2>8, <2>9, <2>11, <2>12 DEF ScopeOpens
<1> QED
  BY <1>1, <1>2

LEMMA ForTailCloses ==
  ASSUME TypeOK, Placed, Len(symtab_stack) >= 2, NEW e, ForTail(e)
  PROVE  ScopesStay \/ ScopeCloses
<1>1. CASE UNCHANGED <<symtab_stack, frames>>
  BY <1>1, FramesStay
<1>2. CASE ~UNCHANGED <<symtab_stack, frames>>
  <2>1. /\ symtab_stack' = Exited(symtab_stack)
        /\ frames # <<>> /\ Last(frames).kind = "for" /\ frames' = Popped
    BY <1>2 DEF ForTail, Stop
  <2>2. Len(frames) >= 2
    BY <2>1, NestedFrames
  <2>3. frames' # <<>> /\ frames'[1].fn = frames[1].fn /\ Open = Open' + 1
    BY <2>1, <2>2, PoppedCounts
  <2>4. Open \in Nat
    BY <2>1, SomethingOpen
  <2>5. /\ Len(symtab_stack') = Len(symtab_stack) - 1
        /\ \A i \in 1..(Len(symtab_stack) - 1) : symtab_stack'[i] = symtab_stack[i]
    BY <2>1, ExitedStack DEF TypeOK
  <2>6. Open' \in Nat
    <3>1. frames \in Seq(Frames)
      BY DEF TypeOK
    <3>2. Popped \in Seq(Frames)
      BY <2>2, <3>1, PoppedFrames
    <3> QED
      BY <2>1, <3>2, ScopedFinite DEF Open
  <2>7. Open' = Open - 1
    BY <2>3, <2>4, <2>6 DEF Open
  <2>8. Len(frames') < Len(frames)
    <3>1. frames \in Seq(Frames) /\ Len(frames) \in Nat /\ Len(Front(frames)) = Len(frames) - 1
      BY <2>2 DEF TypeOK, Front
    <3>2. Len(Popped) = Len(Front(frames))
      BY <2>2, <3>1, PoppedFrames DEF Alike
    <3> QED
      BY <2>1, <3>1, <3>2
  <2> QED
    BY <2>1, <2>3, <2>5, <2>7, <2>8 DEF ScopeCloses
<1> QED
  BY <1>1, <1>2

LEMMA BeginDefOpens ==
  ASSUME TypeOK, TypeOK', Placed', NEW f \in Funcs, NEW params \in ParamLists,
         BeginDef(f, params)
  PROVE  ScopeOpens
<1> DEFINE fn == Resolved(f, params)
           T == ParamTable(params, fn)
           x == Frame("func", fn, 0, 0, 0, "none")
<1>1. /\ frames = <<>> /\ frames' = <<x>>
      /\ symtab_stack' = Append(symtab_stack, T)
  BY DEF BeginDef
<1>2. symtab_stack \in Seq(Tables(Slots)) /\ Len(symtab_stack) \in Nat
  BY DEF TypeOK
<1>3. x.fn = fn
  BY DEF Frame
<1>4. \A n \in Idents : T["variable"][n] # Null => T["variable"][n].fn = fn /\ T["variable"][n].level = "local"
  <2> HIDE DEF fn
  <2> QED
    BY KindsAssumption DEF ParamTable, EmptyTable
<1> HIDE DEF T, x, fn
<1>5. /\ Len(symtab_stack') = Len(symtab_stack) + 1
      /\ \A i \in 1..Len(symtab_stack) : symtab_stack'[i] = symtab_stack[i]
      /\ symtab_stack'[Len(symtab_stack) + 1] = T
  BY <1>1, <1>2
<1>6. frames' # <<>> /\ frames'[1] = x /\ Len(frames') = 1
  BY <1>1
<1>7. Open = 0
  BY <1>1, NothingOpen DEF Open
<1>8. Open' = 1
  <2>1. <<>> \in Seq(Frames) /\ frames' \in Seq(Frames) /\ Len(<<>>) = 0
    BY DEF TypeOK
  <2>2. frames'[1].kind = "func"
    BY <1>6 DEF Placed, FramesPlaced
  <2> DEFINE E == <<>>
  <2>3. Len(frames') = Len(E) + 1 /\ \A i \in 1..Len(E) : frames'[i].kind = E[i].kind
    BY <1>6, <2>1
  <2>4. Cardinality(Scoped(E)) = 0
    BY NothingOpen
  <2>5. E \in Seq(Frames)
    BY <2>1
  <2> HIDE DEF E
  <2>6. Cardinality(Scoped(frames')) = Cardinality(Scoped(E)) + 1
    <3>1. frames'[Len(frames')].kind = "func"
      BY <1>6, <2>2
    <3> QED
      BY <2>1, <2>3, <2>5, <3>1, ScopedNext
  <2> QED
    BY <2>4, <2>6 DEF Open
<1> QED
  BY <1>1, <1>3, <1>4, <1>5, <1>6, <1>7, <1>8 DEF ScopeOpens

LEMMA FunctionCloses ==
  ASSUME TypeOK, Placed, Len(symtab_stack) >= 2, EndDef \/ EraseDef
  PROVE  ScopeCloses
<1>1. Len(frames) = 1 /\ symtab_stack' = Exited(symtab_stack) /\ frames' = <<>>
  BY DEF EndDef, EraseDef
<1>2. frames # <<>>
  BY <1>1
<1>3. Open = 1
  BY <1>1, <1>2, SomethingOpen
<1>4. Open' = 0
  BY <1>1, NothingOpen DEF Open
<1>5. /\ Len(symtab_stack') = Len(symtab_stack) - 1
      /\ \A i \in 1..(Len(symtab_stack) - 1) : symtab_stack'[i] = symtab_stack[i]
  BY <1>1, ExitedStack DEF TypeOK
<1>6. Len(frames') = 0
  <2>1. Len(<<>>) = 0
    OBVIOUS
  <2> QED
    BY <1>1, <2>1
<1>7. Last(frames).kind = "func"
  <2>1. Last(frames) = frames[1]
    BY <1>1 DEF Last
  <2> QED
    BY <1>2, <2>1 DEF Placed, FramesPlaced
<1> QED
  BY <1>1, <1>3, <1>4, <1>5, <1>6, <1>7 DEF ScopeCloses
-----------------------------------------------------------------------------
(* TypeOK alone is not inductive: closing a loop or a function needs a     *)
(* scope to leave, and a step that writes to a block needs it to be there. *)
WellFormed == TypeOK /\ Placed /\ ScopesNest

ScopeStep == ScopesStay \/ NameDeclared \/ ScopeOpens \/ ScopeCloses \/ ScopeIsLeft

LEMMA InitWellFormed ==
  Init => WellFormed
<1> SUFFICES ASSUME Init PROVE WellFormed
  OBVIOUS
<1>1. TypeOK
  <2>1. EmptyTable \in Tables(Slots)
    BY DEF EmptyTable, Tables
  <2>2. symtab_stack \in Seq(Tables(Slots)) /\ Len(symtab_stack) >= 1
    BY <2>1 DEF Init
  <2>3. fns = <<>> /\ <<>> \in Seq(Fns) /\ Len(<<>>) = 0 /\ MaxFns \in Nat
    BY BoundsAssumption DEF Init
  <2>4. blocks = <<>> /\ <<>> \in Seq(Blocks) /\ MaxBlocks \in Nat
    BY BoundsAssumption DEF Init
  <2>5. frames = <<>> /\ <<>> \in Seq(Frames)
    BY DEF Init
  <2> QED
    BY <2>2, <2>3, <2>4, <2>5 DEF Init, TypeOK
<1>2. Placed
  BY DEF Init, Placed, FramesPlaced
<1>3. ScopesNest
  <2>1. {i \in DOMAIN frames : frames[i].kind \in {"func", "for"}} = {}
    BY DEF Init
  <2>2. Len(symtab_stack) = 1
    BY DEF Init
  <2> QED
    BY <2>1, <2>2, FS_EmptySet DEF ScopesNest
<1> QED
  BY <1>1, <1>2, <1>3 DEF WellFormed

(* Every step keeps types and places, and does one thing to the scopes.    *)
LEMMA NextSteps ==
  ASSUME WellFormed, [Next]_vars
  PROVE  TypeOK' /\ Placed' /\ ScopeStep
<1>1. TypeOK /\ Placed /\ ScopesNest
  BY DEF WellFormed
<1>2. Parsed \subseteq Exprs
  BY DEF Parsed
<1>3. frames # <<>> => Len(symtab_stack) >= 2
  <2> SUFFICES ASSUME frames # <<>> PROVE Len(symtab_stack) >= 2
    OBVIOUS
  <2>1. Open \in Nat /\ Open >= 1
    BY <1>1, SomethingOpen
  <2>2. Len(symtab_stack) > Open
    BY <1>1 DEF ScopesNest, Open, Scoped
  <2>3. Len(symtab_stack) \in Nat
    BY <1>1 DEF TypeOK
  <2> QED
    BY <2>1, <2>2, <2>3
<1>4. ASSUME NEW e \in Parsed, ExprStmt(e) \/ RetStmt(e) \/ IfSkipped(e)
      PROVE  TypeOK' /\ Placed' /\ ScopeStep
  <2>1. TypeOK' /\ Placed'
    BY <1>1, <1>2, <1>4, ExprStmtKeeps, RetStmtKeeps, IfSkippedKeeps
  <2> QED
    BY <1>1, <1>2, <1>4, <2>1, StatementStays DEF ScopeStep
<1>5. ASSUME NEW e \in Parsed, IfCond(e)
      PROVE  TypeOK' /\ Placed' /\ ScopeStep
  <2>1. TypeOK' /\ Placed'
    BY <1>1, <1>2, <1>5, IfCondKeeps
  <2> QED
    BY <1>1, <1>2, <1>5, <2>1, IfCondStays DEF ScopeStep
<1>6. ASSUME NEW e \in Parsed, ForTail(e)
      PROVE  TypeOK' /\ Placed' /\ ScopeStep
  <2>1. Len(symtab_stack) >= 2
    BY <1>3, <1>6 DEF ForTail
  <2>2. TypeOK' /\ Placed'
    BY <1>1, <1>2, <1>6, <2>1, ForTailKeeps
  <2> QED
    BY <1>1, <1>6, <2>1, <2>2, ForTailCloses DEF ScopeStep
<1>7. ASSUME NEW e \in Parsed, NEW n \in Idents, NEW type \in {"double", "int"},
             VarDecl(n, type, e)
      PROVE  TypeOK' /\ Placed' /\ ScopeStep
  <2>1. TypeOK' /\ Placed'
    BY <1>1, <1>2, <1>7, VarDeclKeeps
  <2> QED
    BY <1>1, <1>7, <2>1, VarDeclDeclares DEF ScopeStep
<1>8. ASSUME NEW e \in Parsed, NEW n \in Idents, NEW end \in Parsed, ForHead(n, e, end)
      PROVE  TypeOK' /\ Placed' /\ ScopeStep
  <2>1. TypeOK' /\ Placed'
    BY <1>1, <1>2, <1>8, ForHeadKeeps
  <2> QED
    BY <1>1, <1>8, <2>1, ForHeadOpens DEF ScopeStep
<1>9. ASSUME IfElse
      PROVE  TypeOK' /\ Placed' /\ ScopeStep
  BY <1>1, <1>9, IfElseKeeps, ElseStays DEF ScopeStep
<1>10. ASSUME IfMerge
       PROVE  TypeOK' /\ Placed' /\ ScopeStep
  BY <1>1, <1>10, IfMergeKeeps, IfMergeStays DEF ScopeStep
<1>11. ASSUME NEW f \in Funcs, NEW params \in ParamLists, RefusedDef(f, params)
       PROVE  TypeOK' /\ Placed' /\ ScopeStep
  <2>1. ScopeIsLeft
    BY <1>11 DEF RefusedDef, ScopeIsLeft
  <2> QED
    BY <1>1, <1>11, <2>1, RefusedDefKeeps DEF ScopeStep
<1>12. ASSUME NEW f \in Funcs, NEW params \in ParamLists, ExternDef(f, params)
       PROVE  TypeOK' /\ Placed' /\ ScopeStep
  BY <1>1, <1>12, ExternDefKeeps, ExternDefStays DEF ScopeStep
<1>13. ASSUME NEW f \in Funcs, NEW params \in ParamLists, BeginDef(f, params)
       PROVE  TypeOK' /\ Placed' /\ ScopeStep
  BY <1>1, <1>13, BeginDefKeeps, BeginDefOpens DEF ScopeStep
<1>14. ASSUME EndDef \/ EraseDef
       PROVE  TypeOK' /\ Placed' /\ ScopeStep
  <2>0. Len(frames) = 1
    BY <1>14 DEF EndDef, EraseDef
  <2>1. frames # <<>>
    BY <2>0
  <2>2. Len(symtab_stack) >= 2
    BY <1>3, <2>1
  <2> QED
    BY <1>1, <1>14, <2>2, EndDefKeeps, EraseDefKeeps, FunctionCloses DEF ScopeStep
<1>15. ASSUME Finish
       PROVE  TypeOK' /\ Placed' /\ ScopeStep
  <2>1. ScopesStay
    BY <1>1, <1>15, FramesStay DEF Finish
  <2> QED
    BY <1>1, <1>15, <2>1, FinishKeeps DEF ScopeStep
<1>16. ASSUME UNCHANGED vars
       PROVE  TypeOK' /\ Placed' /\ ScopeStep
  <2>1. ScopesStay
    BY <1>1, <1>16, FramesStay DEF vars
  <2> QED
    BY <1>1, <1>16, <2>1, StutterKeeps DEF ScopeStep
<1> QED
  BY <1>4, <1>5, <1>6, <1>7, <1>8, <1>9, <1>10, <1>11, <1>12, <1>13, <1>14,
     <1>15, <1>16 DEF Next, Stopped

LEMMA WellFormedStays ==
  ASSUME WellFormed, [Next]_vars
  PROVE  WellFormed'
<1>1. TypeOK /\ Placed /\ TypeOK' /\ Placed' /\ ScopeStep
  BY NextSteps DEF WellFormed
<1>2. /\ Len(symtab_stack) \in Nat /\ Len(symtab_stack') \in Nat
      /\ frames \in Seq(Frames) /\ frames' \in Seq(Frames)
  BY <1>1 DEF TypeOK
<1>3. Cardinality(Scoped(frames)) \in Nat /\ Cardinality(Scoped(frames')) \in Nat
  BY <1>2, ScopedFinite
<1>4. Len(symtab_stack) > Cardinality(Scoped(frames))
  BY DEF WellFormed, ScopesNest, Scoped
<1>5. Len(symtab_stack') > Cardinality(Scoped(frames'))
  <2>1. CASE ScopesStay
    BY <1>4, <2>1 DEF ScopesStay, Open
  <2>2. CASE NameDeclared
    BY <1>4, <2>2 DEF NameDeclared, Open
  <2>3. CASE ScopeOpens
    BY <1>2, <1>3, <1>4, <2>3 DEF ScopeOpens, Open
  <2>4. CASE ScopeCloses
    BY <1>2, <1>3, <1>4, <2>4 DEF ScopeCloses, Open
  <2>5. CASE ScopeIsLeft
    <3>1. Len(symtab_stack') = Len(symtab_stack) + 1 /\ frames' = frames
      BY <1>1, <2>5, EnteredStack DEF ScopeIsLeft, TypeOK
    <3> QED
      BY <1>2, <1>3, <1>4, <3>1
  <2> QED
    BY <1>1, <2>1, <2>2, <2>3, <2>4, <2>5 DEF ScopeStep
<1>6. ScopesNest'
  BY <1>5 DEF ScopesNest, Scoped
<1> QED
  BY <1>1, <1>6 DEF WellFormed

LEMMA AlwaysWellFormed ==
  Spec => []WellFormed
<1>1. WellFormed /\ [Next]_vars => WellFormed'
  BY WellFormedStays
<1> QED
  BY InitWellFormed, <1>1, PTL DEF Spec

(* Whatever is generated, nested, refused or erased, every block, function *)
(* and slot that the code of src/ast refers to exists: the builder stands  *)
(* in a block there is, getFunction finds a function there is, and no      *)
(* variable is bound to a slot of a function that was never created.       *)
THEOREM TypeCorrect ==
  Spec => []TypeOK
<1>1. WellFormed => TypeOK
  BY DEF WellFormed
<1> QED
  BY <1>1, AlwaysWellFormed, PTL

(* The exitScope at the end of a loop, a function and an erased function   *)
(* never runs at the top level, where it would abort (symtab.cc:138).      *)
THEOREM ScopesAlwaysNest ==
  Spec => []ScopesNest
<1>1. WellFormed => ScopesNest
  BY DEF WellFormed
<1> QED
  BY <1>1, AlwaysWellFormed, PTL
-----------------------------------------------------------------------------
(* Locals die with their function.  The invariant that does not mention    *)
(* the scopes a refused definition left behind is not inductive: what is   *)
(* needed is that only the scopes opened by the frames under way, the      *)
(* topmost ones, hold locals at all.                                       *)
LocalAt(stk, i, n) ==
  stk[i]["variable"][n] # Null /\ stk[i]["variable"][n].level = "local"

LocalsOwned ==
  \A i \in 1..Len(symtab_stack), n \in Idents :
    LocalAt(symtab_stack, i, n) =>
      frames # <<>> /\ symtab_stack[i]["variable"][n].fn = frames[1].fn

NoneBelow ==
  \A i \in 1..Len(symtab_stack), n \in Idents :
    i + Open <= Len(symtab_stack) => ~LocalAt(symtab_stack, i, n)

LEMMA InitLocals ==
  Init => LocalsOwned /\ NoneBelow
<1> SUFFICES ASSUME Init PROVE LocalsOwned /\ NoneBelow
  OBVIOUS
<1>1. symtab_stack = <<EmptyTable>> /\ \A n \in Idents : EmptyTable["variable"][n] = Null
  BY KindsAssumption DEF Init, EmptyTable
<1>2. \A i \in 1..Len(symtab_stack), n \in Idents : ~LocalAt(symtab_stack, i, n)
  BY <1>1 DEF LocalAt
<1> QED
  BY <1>2 DEF LocalsOwned, NoneBelow

LEMMA LocalsStay ==
  ASSUME WellFormed, LocalsOwned, NoneBelow, [Next]_vars
  PROVE  LocalsOwned' /\ NoneBelow'
<1>1. TypeOK /\ Placed /\ TypeOK' /\ Placed' /\ ScopeStep
  BY NextSteps DEF WellFormed
<1>2. /\ Len(symtab_stack) \in Nat /\ Len(symtab_stack') \in Nat
      /\ symtab_stack \in Seq(Tables(Slots)) /\ Len(symtab_stack) >= 1
      /\ frames \in Seq(Frames) /\ frames' \in Seq(Frames)
  BY <1>1 DEF TypeOK
<1>3. Open \in Nat /\ Open' \in Nat
  BY <1>2, ScopedFinite DEF Open
<1>4. frames = <<>> => Open = 0
  BY NothingOpen DEF Open
<1>5. frames' = <<>> => Open' = 0
  BY NothingOpen DEF Open
<1>6. frames # <<>> => Open >= 1 /\ frames[1].fn = CurrentFn
  BY <1>1, SomethingOpen, CurrentIsFn
<1>7. CASE ScopesStay
  BY <1>7 DEF ScopesStay, LocalsOwned, NoneBelow
<1>8. CASE NameDeclared
  <2> DEFINE n0 == Len(symtab_stack)
  <2>1. /\ Len(symtab_stack') = n0 /\ Open' = Open
        /\ (frames' = <<>>) = (frames = <<>>)
        /\ frames # <<>> => frames'[1].fn = frames[1].fn
    BY <1>8 DEF NameDeclared
  <2>2. ASSUME NEW i \in 1..n0, NEW n \in Idents, LocalAt(symtab_stack', i, n)
        PROVE  /\ frames' # <<>> /\ symtab_stack'[i]["variable"][n].fn = frames'[1].fn
               /\ ~(i + Open <= n0)
    <3>1. CASE symtab_stack'[i]["variable"][n] = symtab_stack[i]["variable"][n]
      BY <2>1, <2>2, <3>1 DEF LocalAt, LocalsOwned, NoneBelow
    <3>2. CASE symtab_stack'[i]["variable"][n] # symtab_stack[i]["variable"][n]
      <4>1. i = n0
        BY <1>2, <1>8, <3>2 DEF NameDeclared
      <4>2. symtab_stack'[i]["variable"][n] = Slot(CurrentFn)
        BY <1>8, <3>2, <4>1 DEF NameDeclared
      <4>3. frames # <<>> /\ symtab_stack'[i]["variable"][n].fn = CurrentFn
        BY <2>2, <4>2 DEF LocalAt, Slot
      <4> QED
        BY <1>2, <1>3, <1>6, <2>1, <4>1, <4>3
    <3> QED
      BY <3>1, <3>2
  <2> QED
    BY <2>1, <2>2 DEF LocalsOwned, NoneBelow
<1>9. CASE ScopeOpens
  <2> DEFINE n0 == Len(symtab_stack)
  <2>1. /\ Len(symtab_stack') = n0 + 1 /\ Open' = Open + 1 /\ frames' # <<>>
        /\ frames # <<>> => frames'[1].fn = frames[1].fn
    BY <1>9 DEF ScopeOpens
  <2>2. ASSUME NEW i \in 1..(n0 + 1), NEW n \in Idents, LocalAt(symtab_stack', i, n)
        PROVE  /\ symtab_stack'[i]["variable"][n].fn = frames'[1].fn
               /\ ~(i + Open <= n0)
    <3>1. CASE i \in 1..n0
      <4>1. symtab_stack'[i] = symtab_stack[i]
        BY <1>9, <3>1 DEF ScopeOpens
      <4> QED
        BY <2>1, <2>2, <3>1, <4>1 DEF LocalAt, LocalsOwned, NoneBelow
    <3>2. CASE i = n0 + 1
      <4>1. symtab_stack'[i]["variable"][n].fn = frames'[1].fn
        BY <1>9, <2>2, <3>2 DEF ScopeOpens, LocalAt
      <4> QED
        BY <1>2, <1>3, <3>2, <4>1
    <3> QED
      BY <1>2, <3>1, <3>2
  <2>3. LocalsOwned'
    BY <2>1, <2>2 DEF LocalsOwned
  <2>4. NoneBelow'
    <3> SUFFICES ASSUME NEW i \in 1..(n0 + 1), NEW n \in Idents, i + Open' <= n0 + 1
                 PROVE  ~LocalAt(symtab_stack', i, n)
      BY <2>1 DEF NoneBelow
    <3>1. i + Open <= n0
      BY <1>2, <1>3, <2>1
    <3> QED
      BY <2>2, <3>1
  <2> QED
    BY <2>3, <2>4
<1>10. CASE ScopeCloses
  <2> DEFINE n0 == Len(symtab_stack)
  <2>1. /\ Len(symtab_stack') = n0 - 1 /\ Open' = Open - 1
        /\ \A i \in 1..(n0 - 1) : symtab_stack'[i] = symtab_stack[i]
        /\ frames' # <<>> => frames # <<>> /\ frames'[1].fn = frames[1].fn
    BY <1>10 DEF ScopeCloses
  <2>2. NoneBelow'
    <3> SUFFICES ASSUME NEW i \in 1..(n0 - 1), NEW n \in Idents, i + Open' <= n0 - 1
                 PROVE  ~LocalAt(symtab_stack', i, n)
      BY <2>1 DEF NoneBelow
    <3>1. i \in 1..n0 /\ i + Open <= n0
      BY <1>2, <1>3, <2>1
    <3> QED
      BY <2>1, <3>1 DEF NoneBelow, LocalAt
  <2>3. LocalsOwned'
    <3> SUFFICES ASSUME NEW i \in 1..(n0 - 1), NEW n \in Idents, LocalAt(symtab_stack', i, n)
                 PROVE  frames' # <<>> /\ symtab_stack'[i]["variable"][n].fn = frames'[1].fn
      BY <2>1 DEF LocalsOwned
    <3>1. frames' # <<>>
      <4> SUFFICES ASSUME frames' = <<>> PROVE FALSE
        OBVIOUS
      <4>1. i + Open' <= Len(symtab_stack') /\ i \in 1..Len(symtab_stack')
        BY <1>2, <1>5, <2>1
      <4> QED
        BY <2>2, <4>1 DEF NoneBelow
    <3>2. symtab_stack'[i] = symtab_stack[i] /\ i \in 1..n0
      BY <1>2, <2>1
    <3> QED
      BY <2>1, <3>1, <3>2 DEF LocalsOwned, LocalAt
  <2> QED
    BY <2>2, <2>3
<1>11. CASE ScopeIsLeft
  <2>1. /\ frames = <<>>
        /\ Len(symtab_stack') = Len(symtab_stack) + 1
        /\ \A i \in 1..Len(symtab_stack) : symtab_stack'[i] = symtab_stack[i]
        /\ symtab_stack'[Len(symtab_stack) + 1] = EmptyTable
    BY <1>2, <1>11, EnteredStack DEF ScopeIsLeft
  <2>2. \A n \in Idents : EmptyTable["variable"][n] = Null
    BY KindsAssumption DEF EmptyTable
  <2>3. ASSUME NEW i \in 1..Len(symtab_stack'), NEW n \in Idents
        PROVE  ~LocalAt(symtab_stack', i, n)
    <3>1. CASE i \in 1..Len(symtab_stack)
      BY <2>1, <3>1 DEF LocalsOwned, LocalAt
    <3>2. CASE i = Len(symtab_stack) + 1
      BY <2>1, <2>2, <3>2 DEF LocalAt
    <3> QED
      BY <1>2, <2>1, <3>1, <3>2
  <2> QED
    BY <2>3 DEF LocalsOwned, NoneBelow
<1> QED
  BY <1>1, <1>7, <1>8, <1>9, <1>10, <1>11 DEF ScopeStep

(* No parameter, local or loop variable is bound once its function is      *)
(* complete, in whatever scope a refused definition has left open.         *)
THEOREM LocalsAlwaysDie ==
  Spec => []LocalsDie
<1>1. WellFormed /\ LocalsOwned /\ NoneBelow /\ [Next]_vars => LocalsOwned' /\ NoneBelow'
  BY LocalsStay
<1>2. WellFormed /\ LocalsOwned => LocalsDie
  <2> SUFFICES ASSUME WellFormed, LocalsOwned PROVE LocalsDie
    OBVIOUS
  <2>1. DOMAIN symtab_stack = 1..Len(symtab_stack)
    BY DEF WellFormed, TypeOK
  <2> QED
    BY <2>1 DEF LocalsDie, LocalsOwned, LocalAt
<1> QED
  BY InitLocals, AlwaysWellFormed, <1>1, <1>2, PTL DEF Spec
-----------------------------------------------------------------------------
(* What is bound stays bound until its scope ends.  A variable of the top  *)
(* level lies below every scope that is open, so that no exitScope reaches *)
(* it; what a step takes away is therefore a local of the innermost scope. *)
TopAt(stk, i, n) ==
  stk[i]["variable"][n] # Null /\ stk[i]["variable"][n].level = "top"

TopsOutlast ==
  \A i \in 1..Len(symtab_stack), n \in Idents :
    TopAt(symtab_stack, i, n) => i + Open <= Len(symtab_stack)

TopsKept ==
  \A i \in 1..Len(symtab_stack), n \in Idents :
    TopAt(symtab_stack, i, n) =>
      i \in 1..Len(symtab_stack') /\ symtab_stack'[i]["variable"][n]
                                       = symtab_stack[i]["variable"][n]

LEMMA InitTops ==
  Init => TopsOutlast
<1> SUFFICES ASSUME Init PROVE TopsOutlast
  OBVIOUS
<1>1. symtab_stack = <<EmptyTable>> /\ \A n \in Idents : EmptyTable["variable"][n] = Null
  BY KindsAssumption DEF Init, EmptyTable
<1>2. \A i \in 1..Len(symtab_stack), n \in Idents : ~TopAt(symtab_stack, i, n)
  BY <1>1 DEF TopAt
<1> QED
  BY <1>2 DEF TopsOutlast

LEMMA TopsStay ==
  ASSUME WellFormed, TopsOutlast, [Next]_vars
  PROVE  TopsOutlast' /\ TopsKept
<1>1. TypeOK /\ Placed /\ TypeOK' /\ ScopeStep
  BY NextSteps DEF WellFormed
<1>2. /\ Len(symtab_stack) \in Nat /\ Len(symtab_stack') \in Nat
      /\ symtab_stack \in Seq(Tables(Slots)) /\ Len(symtab_stack) >= 1
      /\ frames \in Seq(Frames) /\ frames' \in Seq(Frames)
  BY <1>1 DEF TypeOK
<1>3. Open \in Nat /\ Open' \in Nat
  BY <1>2, ScopedFinite DEF Open
<1>4. frames = <<>> => Open = 0
  BY NothingOpen DEF Open
<1>7. CASE ScopesStay
  BY <1>7 DEF ScopesStay, TopsOutlast, TopsKept
<1>8. CASE NameDeclared
  <2> DEFINE n0 == Len(symtab_stack)
  <2>1. Len(symtab_stack') = n0 /\ Open' = Open
    BY <1>8 DEF NameDeclared
  <2>2. ASSUME NEW i \in 1..n0, NEW n \in Idents
        PROVE  \/ symtab_stack'[i]["variable"][n] = symtab_stack[i]["variable"][n]
               \/ /\ symtab_stack[i]["variable"][n] = Null
                  /\ symtab_stack'[i]["variable"][n] = Slot(CurrentFn)
    <3>1. CASE i = n0
      BY <1>8, <3>1 DEF NameDeclared
    <3>2. CASE i \in 1..(n0 - 1)
      BY <1>8, <3>2 DEF NameDeclared
    <3> QED
      BY <1>2, <3>1, <3>2
  <2>3. Slot(CurrentFn).level = "top" => frames = <<>>
    BY DEF Slot
  <2>4. ASSUME NEW i \in 1..n0, NEW n \in Idents, TopAt(symtab_stack', i, n)
        PROVE  i + Open <= n0
    <3>1. CASE symtab_stack'[i]["variable"][n] = symtab_stack[i]["variable"][n]
      BY <2>4, <3>1 DEF TopAt, TopsOutlast
    <3>2. CASE symtab_stack'[i]["variable"][n] = Slot(CurrentFn)
      <4>1. Open = 0
        BY <1>4, <2>3, <2>4, <3>2 DEF TopAt
      <4> QED
        BY <1>2, <4>1
    <3> QED
      BY <2>2, <3>1, <3>2
  <2>5. TopsOutlast'
    BY <2>1, <2>4 DEF TopsOutlast
  <2>6. TopsKept
    BY <2>1, <2>2 DEF TopsKept, TopAt
  <2> QED
    BY <2>5, <2>6
<1>9. CASE ScopeOpens
  <2> DEFINE n0 == Len(symtab_stack)
  <2>1. /\ Len(symtab_stack') = n0 + 1 /\ Open' = Open + 1
        /\ \A i \in 1..n0 : symtab_stack'[i] = symtab_stack[i]
    BY <1>9 DEF ScopeOpens
  <2>2. ASSUME NEW i \in 1..(n0 + 1), NEW n \in Idents, TopAt(symtab_stack', i, n)
        PROVE  i + Open' <= n0 + 1
    <3>1. i # n0 + 1
      BY <1>9, <2>2 DEF ScopeOpens, TopAt
    <3>2. i \in 1..n0
      BY <1>2, <3>1
    <3>3. i + Open <= n0
      BY <2>1, <2>2, <3>2 DEF TopsOutlast, TopAt
    <3> QED
      BY <1>2, <1>3, <2>1, <3>2, <3>3
  <2>3. TopsOutlast'
    BY <2>1, <2>2 DEF TopsOutlast
  <2>4. TopsKept
    BY <1>2, <2>1 DEF TopsKept
  <2> QED
    BY <2>3, <2>4
<1>10. CASE ScopeCloses
  <2> DEFINE n0 == Len(symtab_stack)
  <2>1. /\ Len(symtab_stack') = n0 - 1 /\ Open' = Open - 1
        /\ \A i \in 1..(n0 - 1) : symtab_stack'[i] = symtab_stack[i]
    BY <1>10 DEF ScopeCloses
  <2>2. \A i \in 1..(n0 - 1) : i \in 1..n0
    BY <1>2
  <2>3. ASSUME NEW i \in 1..(n0 - 1), NEW n \in Idents, TopAt(symtab_stack', i, n)
        PROVE  i + Open' <= n0 - 1
    <3>1. i + Open <= n0
      BY <2>1, <2>2, <2>3 DEF TopsOutlast, TopAt
    <3> QED
      BY <1>2, <1>3, <2>1, <3>1
  <2>4. TopsOutlast'
    BY <2>1, <2>3 DEF TopsOutlast
  <2>5. ASSUME NEW i \in 1..n0, NEW n \in Idents, TopAt(symtab_stack, i, n)
        PROVE  i \in 1..(n0 - 1)
    <3>1. i + Open <= n0
      BY <2>5 DEF TopsOutlast
    <3> QED
      BY <1>2, <1>3, <2>1, <3>1
  <2>6. TopsKept
    BY <2>1, <2>5 DEF TopsKept
  <2> QED
    BY <2>4, <2>6
<1>11. CASE ScopeIsLeft
  <2> DEFINE n0 == Len(symtab_stack)
  <2>1. /\ frames = <<>> /\ frames' = <<>>
        /\ Len(symtab_stack') = n0 + 1
        /\ \A i \in 1..n0 : symtab_stack'[i] = symtab_stack[i]
    BY <1>2, <1>11, EnteredStack DEF ScopeIsLeft
  <2>2. Open' = 0
    BY <2>1, NothingOpen DEF Open
  <2>3. TopsOutlast'
    BY <1>2, <2>1, <2>2 DEF TopsOutlast
  <2>4. TopsKept
    BY <1>2, <2>1 DEF TopsKept
  <2> QED
    BY <2>3, <2>4
<1> QED
  BY <1>1, <1>7, <1>8, <1>9, <1>10, <1>11 DEF ScopeStep

(* A name is bound when some table has it; what is found is in the top     *)
(* table when the others do not have it.                                   *)
LEMMA BoundIsHeld ==
  ASSUME NEW stk, Len(stk) \in Nat, NEW n \in Idents
  PROVE  Bound(stk, n) <=> \E i \in 1..Len(stk) : stk[i]["variable"][n] # Null
<1> DEFINE H == Holders(stk, Len(stk), "variable", n)
<1>1. H \subseteq 1..Len(stk) /\ \A i \in H : stk[i]["variable"][n] # Null
  BY DEF Holders
<1>2. CASE H = {}
  BY <1>2 DEF Bound, Find, FindFrom, Holders
<1>3. CASE H # {}
  <2>1. Max(H) \in H
    <3> HIDE DEF H
    <3> QED
      BY <1>1, <1>3, Highest
  <2>2. Find(stk, "variable", n) = stk[Max(H)]["variable"][n]
    BY <1>3 DEF Find, FindFrom
  <2>3. Bound(stk, n)
    BY <1>1, <2>1, <2>2 DEF Bound
  <2> HIDE DEF H
  <2> QED
    BY <1>1, <2>1, <2>3
<1> QED
  BY <1>2, <1>3

VisibleStays ==
  \A n \in Idents :
    Bound(symtab_stack, n) /\ ~Bound(symtab_stack', n) =>
      /\ Find(symtab_stack, "variable", n).level = "local"
      /\ Len(frames') < Len(frames) /\ Last(frames).kind \in {"func", "for"}

LEMMA VisibleUnlessLeft ==
  ASSUME WellFormed, TopsOutlast, [Next]_vars
  PROVE  VisibleStays
<1>1. TypeOK /\ TypeOK' /\ ScopeStep /\ TopsKept
  BY NextSteps, TopsStay DEF WellFormed
<1>2. /\ Len(symtab_stack) \in Nat /\ Len(symtab_stack') \in Nat
      /\ symtab_stack \in Seq(Tables(Slots)) /\ Len(symtab_stack) >= 1
  BY <1>1 DEF TypeOK
<1> SUFFICES ASSUME NEW n \in Idents, Bound(symtab_stack, n), ~Bound(symtab_stack', n)
             PROVE  /\ Find(symtab_stack, "variable", n).level = "local"
                    /\ Len(frames') < Len(frames) /\ Last(frames).kind \in {"func", "for"}
  BY DEF VisibleStays
<1>3. PICK i \in 1..Len(symtab_stack) : symtab_stack[i]["variable"][n] # Null
  BY <1>2, BoundIsHeld
<1>4. \A j \in 1..Len(symtab_stack') : symtab_stack'[j]["variable"][n] = Null
  BY <1>2, BoundIsHeld
<1>5. symtab_stack[i] \in Tables(Slots)
  BY <1>2
<1>6. symtab_stack[i]["variable"][n] \in Slots
  BY <1>3, <1>5, KindsAssumption DEF Tables
<1>7. ~(i \in 1..Len(symtab_stack') /\ symtab_stack'[i] = symtab_stack[i])
  BY <1>3, <1>4
<1>8. symtab_stack[i]["variable"][n].level # "top"
  BY <1>1, <1>3, <1>4 DEF TopsKept, TopAt
<1>9. symtab_stack[i]["variable"][n].level = "local"
  BY <1>6, <1>8 DEF Slots
<1>10. CASE ScopesStay
  BY <1>7, <1>10 DEF ScopesStay
<1>11. CASE NameDeclared
  <2>1. i \in 1..(Len(symtab_stack) - 1) \/ i = Len(symtab_stack)
    BY <1>2
  <2>2. i = Len(symtab_stack) /\ Len(symtab_stack') = Len(symtab_stack)
    BY <1>7, <1>11, <2>1 DEF NameDeclared
  <2> QED
    BY <1>3, <1>4, <1>11, <2>2 DEF NameDeclared
<1>12. CASE ScopeOpens
  <2>1. i \in 1..Len(symtab_stack') /\ symtab_stack'[i] = symtab_stack[i]
    BY <1>2, <1>12 DEF ScopeOpens
  <2> QED
    BY <1>7, <2>1
<1>13. CASE ScopeIsLeft
  <2>1. i \in 1..Len(symtab_stack') /\ symtab_stack'[i] = symtab_stack[i]
    BY <1>2, <1>13, EnteredStack DEF ScopeIsLeft
  <2> QED
    BY <1>7, <2>1
<1>14. CASE ScopeCloses
  <2>1. i = Len(symtab_stack)
    BY <1>2, <1>7, <1>14 DEF ScopeCloses
  <2>2. Find(symtab_stack, "variable", n) = symtab_stack[i]["variable"][n]
    BY <1>2, <1>3, <2>1, KindsAssumption, LookupInTop DEF Find
  <2> QED
    BY <1>9, <1>14, <2>2 DEF ScopeCloses
<1> QED
  BY <1>1, <1>10, <1>11, <1>12, <1>13, <1>14 DEF ScopeStep

(* A name loses its binding only when the function or loop that declared   *)
(* it ends: neither a refused or erased definition nor a nested statement  *)
(* leaves a use of an outer variable without a value.                      *)
THEOREM BoundUntilScopeEnds ==
  Spec => NamesStayVisible
<1>1. WellFormed /\ TopsOutlast /\ [Next]_vars => TopsOutlast'
  BY TopsStay
<1>2. WellFormed /\ TopsOutlast /\ [Next]_vars => VisibleStays
  BY VisibleUnlessLeft
<1> QED
  BY InitTops, AlwaysWellFormed, <1>1, <1>2, PTL DEF Spec, NamesStayVisible, VisibleStays
=============================================================================
