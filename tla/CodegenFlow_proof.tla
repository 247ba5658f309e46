-------------------------- MODULE CodegenFlow_proof -------------------------
(***************************************************************************)
(* Theorems about the control flow Codegen makes: where the builder        *)
(* stands, what the blocks it leaves for later are, and what a finished    *)
(* function looks like, for any program and any depth of nesting.          *)
(*                                                                         *)
(* First what each action does to blocks and frames (GraphStep), one lemma *)
(* per action; then the invariant Flow and what it says of the phis, one   *)
(* lemma per kind of step; then the properties.                            *)
(***************************************************************************)
EXTENDS CodegenFns_proof

(* Of a block that gets instructions only its uses change.                 *)
Like(x, y) ==
  x.fn = y.fn /\ x.label = y.label /\ x.terms = y.terms /\ x.phi = y.phi

(* Block y has got a terminator with successors S and become x.            *)
Ended(x, y, S) ==
  x.fn = y.fn /\ x.label = y.label /\ x.terms = <<S>> /\ x.phi = y.phi

(* Block y has got this phi and been attached to fn.                       *)
Joined(x, y, fn, phi) ==
  x.fn = fn /\ x.label = y.label /\ x.terms = y.terms /\ x.phi = phi

Made(x, fn, label, terms) ==
  x.fn = fn /\ x.label = label /\ x.terms = terms /\ x.phi = {}

LEMMA NewMade ==
  ASSUME NEW fn, NEW label
  PROVE  Made(NewBlock(fn, label), fn, label, <<>>)
  BY DEF NewBlock, Made

LEMMA UsingLike ==
  ASSUME NEW B \in Seq(Blocks), NEW b \in 0..Len(B), NEW U \in SUBSET (1..MaxFns)
  PROVE  /\ Using(B, b, U) \in Seq(Blocks) /\ Len(Using(B, b, U)) = Len(B)
         /\ \A c \in 1..Len(B) : Like(Using(B, b, U)[c], B[c])
<1>1. CASE b = 0
  BY <1>1 DEF Using, Like
<1>2. CASE b # 0
  <2> DEFINE new == [B[b] EXCEPT !.uses = @ \cup U]
  <2>1. B[b] \in Blocks /\ b \in 1..Len(B)
    BY <1>2
  <2>2. Like(new, B[b])
    BY <2>1 DEF Blocks, Like
  <2>3. Using(B, b, U) = [B EXCEPT ![b] = new]
    BY <1>2 DEF Using
  <2> HIDE DEF new
  <2>4. \A c \in 1..Len(B) : Like(Using(B, b, U)[c], B[c])
    BY <2>1, <2>2, <2>3 DEF Like
  <2> QED
    BY <2>4, UsingBlocks
<1> QED
  BY <1>1, <1>2

LEMMA TerminatedEnds ==
  ASSUME NEW B \in Seq(Blocks), NEW b \in 1..Len(B), NEW S \in SUBSET (1..MaxBlocks)
  PROVE  /\ Terminated(B, b, S) \in Seq(Blocks) /\ Len(Terminated(B, b, S)) = Len(B)
         /\ Terminated(B, b, S)[b].fn = B[b].fn
         /\ Terminated(B, b, S)[b].label = B[b].label
         /\ Terminated(B, b, S)[b].phi = B[b].phi
         /\ Terminated(B, b, S)[b].terms = Append(B[b].terms, S)
         /\ B[b].terms = <<>> => Ended(Terminated(B, b, S)[b], B[b], S)
         /\ \A c \in 1..Len(B) : c # b => Terminated(B, b, S)[c] = B[c]
<1> DEFINE new == [B[b] EXCEPT !.terms = Append(@, S)]
<1>1. B[b] \in Blocks
  OBVIOUS
<1>2. /\ new.fn = B[b].fn /\ new.label = B[b].label /\ new.phi = B[b].phi
      /\ new.terms = Append(B[b].terms, S)
  BY <1>1 DEF Blocks
<1>3. Terminated(B, b, S) = [B EXCEPT ![b] = new]
  BY DEF Terminated
<1> HIDE DEF new
<1>4. Terminated(B, b, S)[b] = new
  BY <1>3
<1>5. Append(<<>>, S) = <<S>>
  OBVIOUS
<1> QED
  BY <1>2, <1>4, <1>5, TerminatedBlocks DEF Ended

LEMMA TwoEnds ==
  ASSUME NEW S, NEW T
  PROVE  Append(<<S>>, T) = <<S, T>>
<1> DEFINE s == <<S>>
           V == {S, T}
<1>1. s \in Seq(V) /\ Len(s) = 1 /\ s[1] = S /\ T \in V
  OBVIOUS
<1> HIDE DEF s, V
<1> DEFINE t == Append(s, T)
<1>2. /\ t \in Seq(V) /\ Len(t) = Len(s) + 1 /\ t[Len(s) + 1] = T
      /\ \A i \in 1..Len(s) : t[i] = s[i]
  BY <1>1, Appended
<1> HIDE DEF t
<1>3. t \in Seq({S, T}) /\ Len(t) = 2 /\ t[1] = S /\ t[2] = T
  BY <1>1, <1>2 DEF V
<1>4. t = <<S, T>>
  BY <1>3
<1> QED
  BY <1>4 DEF t, s

LEMMA AttachedOwned ==
  ASSUME NEW B \in Seq(Blocks), NEW b \in 1..Len(B), NEW fn \in 0..MaxFns
  PROVE  /\ Attached(B, b, fn) \in Seq(Blocks) /\ Len(Attached(B, b, fn)) = Len(B)
         /\ Attached(B, b, fn)[b].fn = fn
         /\ Attached(B, b, fn)[b].label = B[b].label
         /\ Attached(B, b, fn)[b].terms = B[b].terms
         /\ Attached(B, b, fn)[b].phi = B[b].phi
         /\ \A c \in 1..Len(B) : c # b => Attached(B, b, fn)[c] = B[c]
<1> DEFINE new == [B[b] EXCEPT !.fn = fn]
<1>1. B[b] \in Blocks
  OBVIOUS
<1>2. /\ new.fn = fn /\ new.label = B[b].label
      /\ new.terms = B[b].terms /\ new.phi = B[b].phi
  BY <1>1 DEF Blocks
<1>3. Attached(B, b, fn) = [B EXCEPT ![b] = new]
  BY DEF Attached
<1> HIDE DEF new
<1>4. Attached(B, b, fn)[b] = new
  BY <1>3
<1> QED
  BY <1>2, <1>4, AttachedBlocks

LEMMA BlocksJoined ==
  ASSUME NEW B \in Seq(Blocks), NEW N \in Seq(Blocks)
  PROVE  /\ B \o N \in Seq(Blocks) /\ Len(B \o N) = Len(B) + Len(N)
         /\ \A c \in 1..Len(B) : (B \o N)[c] = B[c]
         /\ \A c \in 1..Len(N) : (B \o N)[Len(B) + c] = N[c]
<1>1. Len(B) \in Nat /\ Len(N) \in Nat
  OBVIOUS
<1> QED
  BY <1>1
-----------------------------------------------------------------------------
(* The blocks that a block branches to, and those that branch to it.       *)
Targets(x) == UNION Range(x.terms)

Preds(B, b) == {c \in 1..Len(B) : b \in Targets(B[c])}

LEMMA TargetsFew ==
  ASSUME NEW x
  PROVE  /\ x.terms = <<>> => Targets(x) = {}
         /\ \A S : x.terms = <<S>> => Targets(x) = S
         /\ \A S, T : x.terms = <<S, T>> => Targets(x) = S \cup T
<1>1. ASSUME x.terms = <<>> PROVE Targets(x) = {}
  BY <1>1 DEF Targets, Range
<1>2. ASSUME NEW S, x.terms = <<S>> PROVE Targets(x) = S
  <2>1. Range(x.terms) = {S}
    BY <1>2 DEF Range
  <2> QED
    BY <2>1 DEF Targets
<1>3. ASSUME NEW S, NEW T, x.terms = <<S, T>> PROVE Targets(x) = S \cup T
  <2>1. Range(x.terms) = {S, T}
    BY <1>3 DEF Range
  <2> QED
    BY <2>1 DEF Targets
<1> QED
  BY <1>1, <1>2, <1>3

(* The blocks that the statements under way will fill; no two statements   *)
(* wait for the same one.                                                  *)
Waiting(F) == UNION {Pending(F[i]) : i \in 1..Len(F)}

Distinct(F) ==
  \A i \in 1..Len(F) : \A j \in 1..(i - 1) : Pending(F[i]) \cap Pending(F[j]) = {}

(* The blocks a frame holds are labelled and branched to as its statement  *)
(* left them.                                                              *)
Laid(F, B) ==
  \A i \in 1..Len(F) :
    /\ F[i].kind = "func" => F[i].next = 0 /\ F[i].join = 0
    /\ F[i].kind = "then" => /\ B[F[i].next].label = "else"
                             /\ B[F[i].join].label = "ifcont"
                             /\ Preds(B, F[i].join) = {}
    /\ F[i].kind = "else" => /\ F[i].next = 0
                             /\ B[F[i].join].label = "ifcont"
                             /\ Preds(B, F[i].join) = {F[i].from}
    /\ F[i].kind = "for" => /\ B[F[i].next].label = "for.inc"
                            /\ B[F[i].join].label = "for.exit"
                            /\ B[F[i].from].label = "for.cond"
                            /\ B[F[i].next].fn = F[1].fn
                            /\ B[F[i].from].fn = F[1].fn

(* The blocks without a terminator yet: the builder's and those waiting.   *)
Unfilled == IF frames = <<>> THEN {} ELSE {ip} \cup Waiting(frames)

LEMMA WaitingSame ==
  ASSUME NEW F \in Seq(Frames), NEW G, Alike(G, F)
  PROVE  Waiting(G) = Waiting(F) /\ (Distinct(F) => Distinct(G))
<1>1. Len(G) = Len(F) /\ \A i \in 1..Len(F) : Pending(G[i]) = Pending(F[i])
  BY DEF Alike, Pending
<1>2. Waiting(G) = Waiting(F)
  BY <1>1 DEF Waiting
<1>3. ASSUME Distinct(F), NEW i \in 1..Len(F), NEW j \in 1..(i - 1)
      PROVE  Pending(G[i]) \cap Pending(G[j]) = {}
  <2>1. j \in 1..Len(F)
    BY <1>3
  <2> QED
    BY <1>1, <1>3, <2>1 DEF Distinct
<1> QED
  BY <1>1, <1>2, <1>3 DEF Distinct

LEMMA WaitingNext ==
  ASSUME NEW F \in Seq(Frames), NEW x \in Frames
  PROVE  /\ Waiting(Append(F, x)) = Waiting(F) \cup Pending(x)
         /\ Distinct(F) /\ Pending(x) \cap Waiting(F) = {} => Distinct(Append(F, x))
<1>1. /\ Len(F) \in Nat /\ Len(Append(F, x)) = Len(F) + 1
      /\ \A i \in 1..Len(F) : Append(F, x)[i] = F[i]
      /\ Append(F, x)[Len(F) + 1] = x
  OBVIOUS
<1>2. /\ \A i \in 1..(Len(F) + 1) : i \in 1..Len(F) \/ i = Len(F) + 1
      /\ \A i \in 1..Len(F) : i \in 1..(Len(F) + 1)
      /\ Len(F) + 1 \in 1..(Len(F) + 1)
  BY <1>1
<1>3. Waiting(Append(F, x)) = Waiting(F) \cup Pending(x)
  BY <1>1, <1>2 DEF Waiting
<1>4. ASSUME Distinct(F), Pending(x) \cap Waiting(F) = {}
      PROVE  Distinct(Append(F, x))
  <2> SUFFICES ASSUME NEW i \in 1..(Len(F) + 1), NEW j \in 1..(i - 1)
               PROVE  Pending(Append(F, x)[i]) \cap Pending(Append(F, x)[j]) = {}
    BY <1>1 DEF Distinct
  <2>1. j \in 1..Len(F)
    BY <1>1
  <2>2. CASE i \in 1..Len(F)
    BY <1>1, <1>4, <2>1, <2>2 DEF Distinct
  <2>3. CASE i = Len(F) + 1
    BY <1>1, <1>4, <2>1, <2>3 DEF Waiting
  <2> QED
    BY <1>2, <2>2, <2>3
<1> QED
  BY <1>3, <1>4

LEMMA WaitingLast ==
  ASSUME NEW F \in Seq(Frames), F # <<>>, Distinct(F)
  PROVE  /\ Distinct(Front(F))
         /\ Waiting(F) = Waiting(Front(F)) \cup Pending(Last(F))
         /\ Waiting(Front(F)) \cap Pending(Last(F)) = {}
<1>0. Len(F) \in Nat \ {0}
  OBVIOUS
<1>1. /\ Len(F) \in Nat \ {0} /\ Last(F) = F[Len(F)] /\ Len(Front(F)) = Len(F) - 1
      /\ \A i \in 1..(Len(F) - 1) : Front(F)[i] = F[i]
  <2>1. Last(F) = F[Len(F)]
    BY DEF Last
  <2>2. Len(Front(F)) = Len(F) - 1
    <3>1. CASE Len(F) = 1
      <4>1. Front(F) = SubSeq(F, 1, 0) /\ Len(SubSeq(F, 1, 0)) = 0
        BY <3>1 DEF Front
      <4> QED
        BY <3>1, <4>1
    <3>2. CASE Len(F) >= 2
      BY <3>2 DEF Front
    <3>3. Len(F) = 1 \/ Len(F) >= 2
      <4> DEFINE n == Len(F)
      <4>1. n \in Nat \ {0}
        BY <1>0
      <4> HIDE DEF n
      <4>2. n = 1 \/ n >= 2
        BY <4>1
      <4> QED
        BY <4>2 DEF n
    <3> QED
      BY <3>1, <3>2, <3>3
  <2>3. \A i \in 1..(Len(F) - 1) : Front(F)[i] = F[i]
    BY <1>0 DEF Front
  <2> QED
    BY <1>0, <2>1, <2>2, <2>3
<1>2. /\ \A i \in 1..Len(F) : i \in 1..(Len(F) - 1) \/ i = Len(F)
      /\ \A i \in 1..(Len(F) - 1) : i \in 1..Len(F)
      /\ Len(F) \in 1..Len(F)
  BY <1>1
<1>3. Waiting(F) = Waiting(Front(F)) \cup Pending(Last(F))
  BY <1>1, <1>2 DEF Waiting
<1>4. Distinct(Front(F))
  <2> SUFFICES ASSUME NEW i \in 1..(Len(F) - 1), NEW j \in 1..(i - 1)
               PROVE  Pending(Front(F)[i]) \cap Pending(Front(F)[j]) = {}
    BY <1>1 DEF Distinct
  <2>1. i \in 1..Len(F) /\ j \in 1..(Len(F) - 1)
    BY <1>1
  <2> QED
    BY <1>1, <2>1 DEF Distinct
<1>5. Waiting(Front(F)) \cap Pending(Last(F)) = {}
  <2>1. \A j \in 1..(Len(F) - 1) : Pending(Last(F)) \cap Pending(F[j]) = {}
    BY <1>1, <1>2 DEF Distinct
  <2> QED
    BY <1>1, <2>1 DEF Waiting
<1> QED
  BY <1>3, <1>4, <1>5
-----------------------------------------------------------------------------
(* What each action does to the graph.                                     *)
Stays ==
  /\ Len(blocks') = Len(blocks) /\ ip' = ip /\ Alike(frames', frames)
  /\ \A b \in 1..Len(blocks) : Like(blocks'[b], blocks[b])

Returned ==
  LET n == Len(blocks) IN
  /\ frames # <<>> /\ Len(blocks') = n + 2 /\ ip' = n + 2 /\ Alike(frames', frames)
  /\ Ended(blocks'[ip], blocks[ip], {n + 1})
  /\ Made(blocks'[n + 1], CurrentFn, "ret_enter", <<{}, {n + 2}>>)
  /\ Made(blocks'[n + 2], CurrentFn, "ret_exit", <<>>)
  /\ \A b \in 1..n : b # ip => Like(blocks'[b], blocks[b])

BranchOpens ==
  LET n == Len(blocks) IN
  /\ frames # <<>> /\ Len(blocks') = n + 3 /\ n + 3 <= MaxBlocks /\ ip' = n + 1
  /\ frames' = Append(frames, Frame("then", CurrentFn, n + 2, n + 3, 0, "none"))
  /\ Ended(blocks'[ip], blocks[ip], {n + 1, n + 2})
  /\ Made(blocks'[n + 1], CurrentFn, "then", <<>>)
  /\ Made(blocks'[n + 2], 0, "else", <<>>)
  /\ Made(blocks'[n + 3], 0, "ifcont", <<>>)
  /\ \A b \in 1..n : b # ip => Like(blocks'[b], blocks[b])

BranchTurns ==
  LET top == Last(frames) IN
  /\ frames # <<>> /\ top.kind = "then"
  /\ Len(blocks') = Len(blocks) /\ ip' = top.next
  /\ frames' = Append(Front(frames), Frame("else", top.fn, 0, top.join, ip, top.value))
  /\ Ended(blocks'[ip], blocks[ip], {top.join})
  /\ Joined(blocks'[top.next], blocks[top.next], top.fn, blocks[top.next].phi)
  /\ \A b \in 1..Len(blocks) : b \notin {ip, top.next} => Like(blocks'[b], blocks[b])

BranchesMeet ==
  LET top == Last(frames) IN
  /\ frames # <<>> /\ top.kind = "else"
  /\ Len(blocks') = Len(blocks) /\ ip' = top.join
  /\ Alike(frames', Front(frames))
  /\ Ended(blocks'[ip], blocks[ip], {top.join})
  /\ Joined(blocks'[top.join], blocks[top.join], top.fn, {top.from, ip})
  /\ \A b \in 1..Len(blocks) : b \notin {ip, top.join} => Like(blocks'[b], blocks[b])

LoopOpens ==
  LET n == Len(blocks) IN
  /\ frames # <<>> /\ Len(blocks') = n + 4 /\ n + 4 <= MaxBlocks /\ ip' = n + 2
  /\ frames' = Append(frames, Frame("for", CurrentFn, n + 3, n + 4, n + 1, "none"))
  /\ Ended(blocks'[ip], blocks[ip], {n + 1})
  /\ Made(blocks'[n + 1], CurrentFn, "for.cond", <<{n + 2, n + 4}>>)
  /\ Made(blocks'[n + 2], CurrentFn, "for.body", <<>>)
  /\ Made(blocks'[n + 3], CurrentFn, "for.inc", <<>>)
  /\ Made(blocks'[n + 4], CurrentFn, "for.exit", <<>>)
  /\ \A b \in 1..n : b # ip => Like(blocks'[b], blocks[b])

LoopCloses ==
  LET top == Last(frames) IN
  /\ frames # <<>> /\ top.kind = "for"
  /\ Len(blocks') = Len(blocks) /\ ip' = top.join
  /\ Alike(frames', Front(frames))
  /\ Ended(blocks'[ip], blocks[ip], {top.next})
  /\ Ended(blocks'[top.next], blocks[top.next], {top.from})
  /\ \A b \in 1..Len(blocks) : b \notin {ip, top.next} => Like(blocks'[b], blocks[b])

DefOpens ==
  LET n == Len(blocks) IN
  /\ frames = <<>> /\ Len(blocks') = n + 1 /\ ip' = n + 1
  /\ \E fn \in 1..MaxFns : /\ frames' = <<Frame("func", fn, 0, 0, 0, "none")>>
                           /\ Made(blocks'[n + 1], fn, "entry", <<>>)
                           /\ fns'[fn].state = "defined"
  /\ \A b \in 1..n : Like(blocks'[b], blocks[b])

DefCloses ==
  /\ Len(frames) = 1 /\ frames' = <<>>
  /\ Len(blocks') = Len(blocks) /\ ip' = ip
  /\ Ended(blocks'[ip], blocks[ip], {})
  /\ \A b \in 1..Len(blocks) : b # ip => Like(blocks'[b], blocks[b])

DefErased ==
  /\ Len(frames) = 1 /\ frames' = <<>> /\ blocks' = blocks /\ ip' = ip
  /\ fns'[frames[1].fn].state = "erased"

(* What a statement in a function starts from.                             *)
LEMMA AtWork ==
  ASSUME TypeOK, Placed, frames # <<>>
  PROVE  /\ blocks \in Seq(Blocks) /\ Len(blocks) \in Nat /\ ip \in 1..Len(blocks)
         /\ CurrentFn \in 1..MaxFns /\ CurrentFn \in 0..MaxFns
         /\ CurrentFn = frames[1].fn /\ blocks[ip].fn = CurrentFn
         /\ MaxBlocks \in Nat /\ Len(blocks) <= MaxBlocks /\ frames \in Seq(Frames)
         /\ \A e \in Exprs : Owners(symtab_stack, e) \in SUBSET (1..MaxFns)
<1>1. /\ blocks \in Seq(Blocks) /\ Len(blocks) <= MaxBlocks /\ frames \in Seq(Frames)
      /\ symtab_stack \in Seq(Tables(Slots)) /\ Len(symtab_stack) >= 1
  BY DEF TypeOK
<1>2. \A e \in Exprs : Owners(symtab_stack, e) \in SUBSET (1..MaxFns)
  BY <1>1, OwnersAreFns
<1>3. CurrentFn \in 1..MaxFns /\ CurrentFn = frames[1].fn /\ ip \in 1..Len(blocks)
  BY CurrentIsFn
<1>4. blocks[ip].fn = CurrentFn /\ MaxBlocks \in Nat /\ MaxFns \in Nat
  BY <1>3, BoundsAssumption DEF Placed
<1> QED
  BY <1>1, <1>2, <1>3, <1>4

LEMMA StatementGraph ==
  ASSUME TypeOK, Placed, NEW e \in Exprs, ExprStmt(e) \/ IfSkipped(e)
  PROVE  Stays
<1>1. CASE UNCHANGED <<blocks, ip, frames>>
  BY <1>1 DEF Stays, Alike, Like
<1>2. CASE ~UNCHANGED <<blocks, ip, frames>>
  <2>1. /\ blocks' = blocks \/ blocks' = Using(blocks, ip, Owners(symtab_stack, e))
        /\ ip' = ip /\ (frames' = Valued(ValueOf(e)) \/ frames' = Valued("none"))
    BY <1>2 DEF ExprStmt, IfSkipped, Stop
  <2>2. Alike(frames', frames)
    BY <2>1, ValuedFrames DEF TypeOK, ValueOf
  <2>3. /\ blocks \in Seq(Blocks) /\ ip \in 0..Len(blocks)
        /\ Owners(symtab_stack, e) \in SUBSET (1..MaxFns)
    BY OwnersAreFns DEF TypeOK
  <2> DEFINE B == Using(blocks, ip, Owners(symtab_stack, e))
  <2>4. Len(B) = Len(blocks) /\ \A b \in 1..Len(blocks) : Like(B[b], blocks[b])
    BY <2>3, UsingLike
  <2>5. \A b \in 1..Len(blocks) : Like(blocks[b], blocks[b])
    BY DEF Like
  <2> HIDE DEF B
  <2> QED
    BY <2>1, <2>2, <2>4, <2>5 DEF Stays, B
<1> QED
  BY <1>1, <1>2

LEMMA StopGraph ==
  ASSUME NEW F, Stop(F)
  PROVE  Stays
  BY DEF Stop, Stays, Alike, Like

LEMMA VarDeclGraph ==
  ASSUME TypeOK, Placed, NEW n \in Idents, NEW type, NEW e \in Exprs,
         VarDecl(n, type, e)
  PROVE  Stays
<1>1. CASE \E F : Stop(F)
  BY <1>1, StopGraph
<1>2. CASE ~\E F : Stop(F)
  <2> DEFINE U == Owners(symtab_stack, e) \cup {CurrentFn}
             B == Using(blocks, ip, U)
  <2>1. blocks' = B /\ ip' = ip /\ ip # 0 /\ frames' = Valued("some")
    BY <1>2 DEF VarDecl
  <2>2. blocks \in Seq(Blocks) /\ ip \in 0..Len(blocks) /\ U \in SUBSET (1..MaxFns)
    BY <2>1, OwnersAreFns, CurrentIsFn DEF TypeOK
  <2>3. Alike(frames', frames)
    BY <2>1, ValuedFrames DEF TypeOK
  <2> HIDE DEF U
  <2>4. Len(B) = Len(blocks) /\ \A b \in 1..Len(blocks) : Like(B[b], blocks[b])
    BY <2>2, UsingLike
  <2> QED
    BY <2>1, <2>3, <2>4 DEF Stays
<1> QED
  BY <1>1, <1>2

LEMMA RetStmtGraph ==
  ASSUME TypeOK, Placed, NEW e \in Exprs, RetStmt(e), blocks[ip].terms = <<>>
  PROVE  Stays \/ Returned
<1> DEFINE n  == Len(blocks)
           N  == <<NewBlock(CurrentFn, "ret_enter"), NewBlock(CurrentFn, "ret_exit")>>
           U  == Owners(symtab_stack, e)
           B0 == blocks \o N
           B1 == Using(B0, ip, U)
           B2 == Terminated(B1, ip, {n + 1})
           B3 == Terminated(B2, n + 1, {})
           B4 == Terminated(B3, n + 1, {n + 2})
<1>1. CASE \E F : Stop(F)
  BY <1>1, StopGraph
<1>2. CASE ~\E F : Stop(F)
  <2>1. /\ frames # <<>> /\ n + 2 <= MaxBlocks /\ blocks' = B4 /\ ip' = n + 2
        /\ frames' = Valued(ValueOf(e))
    BY <1>2 DEF RetStmt
  <2>2. /\ blocks \in Seq(Blocks) /\ n \in Nat /\ ip \in 1..n /\ MaxBlocks \in Nat
        /\ CurrentFn \in 0..MaxFns /\ U \in SUBSET (1..MaxFns) /\ frames \in Seq(Frames)
    BY <2>1, AtWork
  <2>3. /\ N \in Seq(Blocks) /\ Len(N) = 2
        /\ Made(N[1], CurrentFn, "ret_enter", <<>>)
        /\ Made(N[2], CurrentFn, "ret_exit", <<>>)
    BY <2>2, NewBlocks, NewMade
  <2> HIDE DEF N, U
  <2>4. /\ B0 \in Seq(Blocks) /\ Len(B0) = n + 2
        /\ B0[n + 1] = N[1] /\ B0[n + 2] = N[2]
        /\ \A b \in 1..n : B0[b] = blocks[b]
    <3>1. /\ B0 \in Seq(Blocks) /\ Len(B0) = n + Len(N)
          /\ \A b \in 1..n : B0[b] = blocks[b]
          /\ \A c \in 1..Len(N) : B0[n + c] = N[c]
      BY <2>2, <2>3, BlocksJoined
    <3>2. 1 \in 1..2 /\ 2 \in 1..2
      OBVIOUS
    <3> HIDE DEF B0
    <3> QED
      BY <2>3, <3>1, <3>2
  <2>5. /\ ip \in 1..(n + 2) /\ ip \in 0..(n + 2) /\ n + 1 \in 1..(n + 2) /\ n + 2 \in 1..(n + 2)
        /\ ip # n + 1 /\ ip # n + 2 /\ n + 1 # n + 2 /\ \A b \in 1..n : b \in 1..(n + 2) /\ b # n + 1
        /\ {n + 1} \in SUBSET (1..MaxBlocks) /\ {n + 2} \in SUBSET (1..MaxBlocks)
        /\ {} \in SUBSET (1..MaxBlocks)
    BY <2>1, <2>2
  <2> HIDE DEF B0, n
  <2>6. /\ B1 \in Seq(Blocks) /\ Len(B1) = n + 2
        /\ \A b \in 1..(n + 2) : Like(B1[b], B0[b])
    BY <2>2, <2>4, <2>5, UsingLike
  <2>7. B1[ip].terms = <<>>
    BY <2>2, <2>4, <2>5, <2>6 DEF Like
  <2> HIDE DEF B1
  <2>8. /\ B2 \in Seq(Blocks) /\ Len(B2) = n + 2 /\ Ended(B2[ip], B1[ip], {n + 1})
        /\ \A b \in 1..(n + 2) : b # ip => B2[b] = B1[b]
    BY <2>5, <2>6, <2>7, TerminatedEnds
  <2>9. B2[n + 1].terms = <<>>
    BY <2>3, <2>4, <2>5, <2>6, <2>8 DEF Like, Made
  <2> HIDE DEF B2
  <2>10. /\ B3 \in Seq(Blocks) /\ Len(B3) = n + 2 /\ Ended(B3[n + 1], B2[n + 1], {})
         /\ \A b \in 1..(n + 2) : b # n + 1 => B3[b] = B2[b]
    BY <2>5, <2>8, <2>9, TerminatedEnds
  <2> HIDE DEF B3
  <2>11. /\ Len(B4) = n + 2 /\ B4[n + 1].fn = B3[n + 1].fn /\ B4[n + 1].label = B3[n + 1].label
         /\ B4[n + 1].phi = B3[n + 1].phi /\ B4[n + 1].terms = Append(B3[n + 1].terms, {n + 2})
         /\ \A b \in 1..(n + 2) : b # n + 1 => B4[b] = B3[b]
    <3>1. n + 1 \in 1..Len(B3) /\ {n + 2} \in SUBSET (1..MaxBlocks)
      BY <2>5, <2>10
    <3> DEFINE k == n + 1
               S == {n + 2}
    <3> HIDE DEF k, S
    <3>2. k \in 1..Len(B3) /\ S \in SUBSET (1..MaxBlocks) /\ B4 = Terminated(B3, k, S)
      BY <3>1 DEF k, S
    <3> HIDE DEF B4
    <3>3. /\ Len(B4) = Len(B3) /\ B4[k].fn = B3[k].fn /\ B4[k].label = B3[k].label
          /\ B4[k].phi = B3[k].phi /\ B4[k].terms = Append(B3[k].terms, S)
          /\ \A b \in 1..Len(B3) : b # k => B4[b] = B3[b]
      BY <2>10, <3>2, TerminatedEnds
    <3> QED
      BY <2>10, <3>3 DEF k, S
  <2> HIDE DEF B4
  <2>12. Ended(B4[ip], blocks[ip], {n + 1})
    <3>1. /\ B4[ip] = B3[ip] /\ B3[ip] = B2[ip] /\ Ended(B2[ip], B1[ip], {n + 1})
          /\ Like(B1[ip], B0[ip]) /\ B0[ip] = blocks[ip]
      BY <2>2, <2>4, <2>5, <2>6, <2>8, <2>10, <2>11
    <3> QED
      BY <3>1 DEF Ended, Like
  <2>13. Made(B4[n + 1], CurrentFn, "ret_enter", <<{}, {n + 2}>>)
    <3>1. Append(<<{}>>, {n + 2}) = <<{}, {n + 2}>>
      BY TwoEnds
    <3> QED
      <4>1. B4[n + 1].terms = <<{}, {n + 2}>>
        BY <2>10, <2>11, <3>1 DEF Ended
      <4>2. /\ B4[n + 1].fn = B1[n + 1].fn /\ B4[n + 1].label = B1[n + 1].label
            /\ B4[n + 1].phi = B1[n + 1].phi
        BY <2>5, <2>8, <2>10, <2>11 DEF Ended
      <4>3. Like(B1[n + 1], N[1])
        BY <2>4, <2>5, <2>6
      <4> QED
        BY <2>3, <4>1, <4>2, <4>3 DEF Like, Made
  <2>14. Made(B4[n + 2], CurrentFn, "ret_exit", <<>>)
    BY <2>3, <2>4, <2>5, <2>6, <2>8, <2>10, <2>11 DEF Like, Made
  <2>15. \A b \in 1..n : b # ip => Like(B4[b], blocks[b])
    BY <2>4, <2>5, <2>6, <2>8, <2>10, <2>11 DEF Like
  <2>16. Alike(frames', frames)
    BY <2>1, <2>2, ValuedFrames DEF ValueOf
  <2> QED
    BY <2>1, <2>11, <2>12, <2>13, <2>14, <2>15, <2>16 DEF Returned, n
<1> QED
  BY <1>1, <1>2

LEMMA IfCondGraph ==
  ASSUME TypeOK, Placed, NEW e \in Exprs, IfCond(e), blocks[ip].terms = <<>>
  PROVE  Stays \/ BranchOpens
<1> DEFINE n  == Len(blocks)
           N  == <<NewBlock(CurrentFn, "then"), NewBlock(0, "else"), NewBlock(0, "ifcont")>>
           U  == Owners(symtab_stack, e)
           B0 == blocks \o N
           B1 == Using(B0, ip, U)
           B2 == Terminated(B1, ip, {n + 1, n + 2})
<1>1. CASE \E F : Stop(F)
  BY <1>1, StopGraph
<1>2. CASE ~\E F : Stop(F)
  <2>1. /\ frames # <<>> /\ n + 3 <= MaxBlocks /\ blocks' = B2 /\ ip' = n + 1
        /\ frames' = Append(frames, Frame("then", CurrentFn, n + 2, n + 3, 0, "none"))
    BY <1>2 DEF IfCond
  <2>2. /\ blocks \in Seq(Blocks) /\ n \in Nat /\ ip \in 1..n /\ MaxBlocks \in Nat
        /\ CurrentFn \in 0..MaxFns /\ U \in SUBSET (1..MaxFns) /\ 0 \in 0..MaxFns
    BY <2>1, AtWork, BoundsAssumption
  <2>3. /\ N \in Seq(Blocks) /\ Len(N) = 3
        /\ Made(N[1], CurrentFn, "then", <<>>)
        /\ Made(N[2], 0, "else", <<>>) /\ Made(N[3], 0, "ifcont", <<>>)
    BY <2>2, NewBlocks, NewMade
  <2> HIDE DEF N, U
  <2>4. /\ B0 \in Seq(Blocks) /\ Len(B0) = n + 3
        /\ B0[n + 1] = N[1] /\ B0[n + 2] = N[2] /\ B0[n + 3] = N[3]
        /\ \A b \in 1..n : B0[b] = blocks[b]
    <3>1. /\ B0 \in Seq(Blocks) /\ Len(B0) = n + Len(N)
          /\ \A b \in 1..n : B0[b] = blocks[b]
          /\ \A c \in 1..Len(N) : B0[n + c] = N[c]
      BY <2>2, <2>3, BlocksJoined
    <3>2. 1 \in 1..3 /\ 2 \in 1..3 /\ 3 \in 1..3
      OBVIOUS
    <3> HIDE DEF B0
    <3> QED
      BY <2>3, <3>1, <3>2
  <2>5. /\ ip \in 1..(n + 3) /\ ip \in 0..(n + 3)
        /\ n + 1 \in 1..(n + 3) /\ n + 2 \in 1..(n + 3) /\ n + 3 \in 1..(n + 3)
        /\ ip # n + 1 /\ ip # n + 2 /\ ip # n + 3 /\ \A b \in 1..n : b \in 1..(n + 3)
        /\ {n + 1, n + 2} \in SUBSET (1..MaxBlocks)
    BY <2>1, <2>2
  <2> HIDE DEF B0, n
  <2>6. /\ B1 \in Seq(Blocks) /\ Len(B1) = n + 3
        /\ \A b \in 1..(n + 3) : Like(B1[b], B0[b])
    BY <2>2, <2>4, <2>5, UsingLike
  <2>7. B1[ip].terms = <<>>
    BY <2>2, <2>4, <2>5, <2>6 DEF Like
  <2> HIDE DEF B1
  <2>8. /\ Len(B2) = n + 3 /\ Ended(B2[ip], B1[ip], {n + 1, n + 2})
        /\ \A b \in 1..(n + 3) : b # ip => B2[b] = B1[b]
    BY <2>5, <2>6, <2>7, TerminatedEnds
  <2> HIDE DEF B2
  <2>9. Ended(B2[ip], blocks[ip], {n + 1, n + 2})
    BY <2>2, <2>4, <2>5, <2>6, <2>8 DEF Ended, Like
  <2>10. /\ Made(B2[n + 1], CurrentFn, "then", <<>>)
         /\ Made(B2[n + 2], 0, "else", <<>>) /\ Made(B2[n + 3], 0, "ifcont", <<>>)
    <3>1. \A b \in {n + 1, n + 2, n + 3} : Like(B2[b], B0[b])
      BY <2>5, <2>6, <2>8
    <3> QED
      BY <2>3, <2>4, <3>1 DEF Like, Made
  <2>11. \A b \in 1..n : b # ip => Like(B2[b], blocks[b])
    BY <2>4, <2>5, <2>6, <2>8 DEF Like
  <2> QED
    BY <2>1, <2>8, <2>9, <2>10, <2>11 DEF BranchOpens, n
<1> QED
  BY <1>1, <1>2

LEMMA ForHeadGraph ==
  ASSUME TypeOK, Placed, NEW v \in Idents, NEW start \in Exprs, NEW end \in Exprs,
         ForHead(v, start, end), blocks[ip].terms = <<>>
  PROVE  Stays \/ LoopOpens
<1> DEFINE stk == Added(Entered(symtab_stack), "variable", v, Slot(CurrentFn))
           n  == Len(blocks)
           N  == [i \in 1..4 |->
                   NewBlock(CurrentFn, <<"for.cond", "for.body", "for.inc", "for.exit">>[i])]
           U0 == Owners(stk, start) \cup {CurrentFn}
           U1 == Owners(stk, end)
           B0 == blocks \o N
           B1 == Using(B0, ip, U0)
           B2 == Terminated(B1, ip, {n + 1})
           B3 == Using(B2, n + 1, U1)
           B4 == Terminated(B3, n + 1, {n + 2, n + 4})
<1>1. CASE \E F : Stop(F)
  BY <1>1, StopGraph
<1>2. CASE ~\E F : Stop(F)
  <2>1. /\ frames # <<>> /\ n + 4 <= MaxBlocks /\ blocks' = B4 /\ ip' = n + 2
        /\ frames' = Append(frames, Frame("for", CurrentFn, n + 3, n + 4, n + 1, "none"))
    BY <1>2 DEF ForHead
  <2>2. /\ blocks \in Seq(Blocks) /\ n \in Nat /\ ip \in 1..n /\ MaxBlocks \in Nat
        /\ CurrentFn \in 0..MaxFns /\ CurrentFn \in 1..MaxFns
    BY <2>1, AtWork
  <2>3. stk \in Seq(Tables(Slots)) /\ Len(stk) >= 1
    <3>1. Slot(CurrentFn) \in Slots
      BY <2>2 DEF Slot, Slots
    <3>2. symtab_stack \in Seq(Tables(Slots)) /\ Len(symtab_stack) >= 1
      BY DEF TypeOK
    <3>3. Entered(symtab_stack) \in Seq(Tables(Slots)) /\ Len(Entered(symtab_stack)) >= 1
      BY <3>2, EnteredStack
    <3> QED
      BY <3>1, <3>3, AddedStack, KindsAssumption
  <2>4. U0 \in SUBSET (1..MaxFns) /\ U1 \in SUBSET (1..MaxFns)
    <3> HIDE DEF stk
    <3> QED
      BY <2>2, <2>3, OwnersAreFns
  <2>5. /\ N \in Seq(Blocks) /\ Len(N) = 4
        /\ Made(N[1], CurrentFn, "for.cond", <<>>) /\ Made(N[2], CurrentFn, "for.body", <<>>)
        /\ Made(N[3], CurrentFn, "for.inc", <<>>) /\ Made(N[4], CurrentFn, "for.exit", <<>>)
    <3>1. \A i \in 1..4 : N[i] \in Blocks
      BY <2>2, NewBlocks
    <3>2. /\ N[1] = NewBlock(CurrentFn, "for.cond") /\ N[2] = NewBlock(CurrentFn, "for.body")
          /\ N[3] = NewBlock(CurrentFn, "for.inc") /\ N[4] = NewBlock(CurrentFn, "for.exit")
      OBVIOUS
    <3>3. N \in Seq(Blocks) /\ Len(N) = 4
      BY <3>1
    <3> HIDE DEF N
    <3> QED
      BY <3>2, <3>3, NewMade
  <2> HIDE DEF stk, N, U0, U1
  <2>6. /\ B0 \in Seq(Blocks) /\ Len(B0) = n + 4
        /\ B0[n + 1] = N[1] /\ B0[n + 2] = N[2] /\ B0[n + 3] = N[3] /\ B0[n + 4] = N[4]
        /\ \A b \in 1..n : B0[b] = blocks[b]
    <3>1. /\ B0 \in Seq(Blocks) /\ Len(B0) = n + Len(N)
          /\ \A b \in 1..n : B0[b] = blocks[b]
          /\ \A c \in 1..Len(N) : B0[n + c] = N[c]
      BY <2>2, <2>5, BlocksJoined
    <3>2. 1 \in 1..4 /\ 2 \in 1..4 /\ 3 \in 1..4 /\ 4 \in 1..4
      OBVIOUS
    <3> HIDE DEF B0
    <3> QED
      BY <2>5, <3>1, <3>2
  <2>7. /\ ip \in 1..(n + 4) /\ ip \in 0..(n + 4) /\ n + 1 \in 0..(n + 4)
        /\ n + 1 \in 1..(n + 4) /\ n + 2 \in 1..(n + 4) /\ n + 3 \in 1..(n + 4)
        /\ n + 4 \in 1..(n + 4) /\ n + 1 # n + 2 /\ n + 1 # n + 3 /\ n + 1 # n + 4
        /\ ip # n + 1 /\ ip # n + 2 /\ ip # n + 3 /\ ip # n + 4
        /\ \A b \in 1..n : b \in 1..(n + 4) /\ b # n + 1
        /\ {n + 1} \in SUBSET (1..MaxBlocks) /\ {n + 2, n + 4} \in SUBSET (1..MaxBlocks)
    BY <2>1, <2>2
  <2> HIDE DEF B0, n
  <2>8. /\ B1 \in Seq(Blocks) /\ Len(B1) = n + 4
        /\ \A b \in 1..(n + 4) : Like(B1[b], B0[b])
    BY <2>4, <2>6, <2>7, UsingLike
  <2>9. B1[ip].terms = <<>>
    BY <2>2, <2>6, <2>7, <2>8 DEF Like
  <2> HIDE DEF B1
  <2>10. /\ B2 \in Seq(Blocks) /\ Len(B2) = n + 4 /\ Ended(B2[ip], B1[ip], {n + 1})
         /\ \A b \in 1..(n + 4) : b # ip => B2[b] = B1[b]
    BY <2>7, <2>8, <2>9, TerminatedEnds
  <2> HIDE DEF B2
  <2>11. /\ B3 \in Seq(Blocks) /\ Len(B3) = n + 4
         /\ \A b \in 1..(n + 4) : Like(B3[b], B2[b])
    BY <2>4, <2>7, <2>10, UsingLike
  <2>12. B3[n + 1].terms = <<>>
    BY <2>5, <2>6, <2>7, <2>8, <2>10, <2>11 DEF Like, Made
  <2> HIDE DEF B3
  <2>13. /\ Len(B4) = n + 4 /\ Ended(B4[n + 1], B3[n + 1], {n + 2, n + 4})
         /\ \A b \in 1..(n + 4) : b # n + 1 => B4[b] = B3[b]
    <3> DEFINE k == n + 1
               S == {n + 2, n + 4}
    <3>1. k \in 1..Len(B3) /\ S \in SUBSET (1..MaxBlocks) /\ B3[k].terms = <<>>
      BY <2>7, <2>11, <2>12
    <3>2. B4 = Terminated(B3, k, S)
      OBVIOUS
    <3> HIDE DEF k, S, B4
    <3>3. /\ Len(B4) = Len(B3) /\ Ended(B4[k], B3[k], S)
          /\ \A b \in 1..Len(B3) : b # k => B4[b] = B3[b]
      BY <2>11, <3>1, <3>2, TerminatedEnds
    <3> QED
      BY <2>11, <3>3 DEF k, S
  <2> HIDE DEF B4
  <2>14. Ended(B4[ip], blocks[ip], {n + 1})
    <3>1. /\ B4[ip] = B3[ip] /\ Like(B3[ip], B2[ip]) /\ Ended(B2[ip], B1[ip], {n + 1})
          /\ Like(B1[ip], B0[ip]) /\ B0[ip] = blocks[ip]
      BY <2>2, <2>6, <2>7, <2>8, <2>10, <2>11, <2>13
    <3> QED
      BY <3>1 DEF Ended, Like
  <2>15. Made(B4[n + 1], CurrentFn, "for.cond", <<{n + 2, n + 4}>>)
    <3>1. /\ Ended(B4[n + 1], B3[n + 1], {n + 2, n + 4}) /\ Like(B3[n + 1], B2[n + 1])
          /\ B2[n + 1] = B1[n + 1] /\ Like(B1[n + 1], B0[n + 1]) /\ B0[n + 1] = N[1]
      BY <2>6, <2>7, <2>8, <2>10, <2>11, <2>13
    <3> QED
      BY <2>5, <3>1 DEF Ended, Like, Made
  <2>16. /\ Made(B4[n + 2], CurrentFn, "for.body", <<>>)
         /\ Made(B4[n + 3], CurrentFn, "for.inc", <<>>)
         /\ Made(B4[n + 4], CurrentFn, "for.exit", <<>>)
    <3>1. \A b \in {n + 2, n + 3, n + 4} : Like(B4[b], B0[b])
      <4> SUFFICES ASSUME NEW b \in {n + 2, n + 3, n + 4} PROVE Like(B4[b], B0[b])
        OBVIOUS
      <4>1. b \in 1..(n + 4) /\ b # ip /\ b # n + 1
        BY <2>7
      <4>2. B4[b] = B3[b] /\ Like(B3[b], B2[b]) /\ B2[b] = B1[b] /\ Like(B1[b], B0[b])
        BY <2>8, <2>10, <2>11, <2>13, <4>1
      <4> QED
        BY <4>2 DEF Like
    <3> QED
      BY <2>5, <2>6, <3>1 DEF Like, Made
  <2>17. \A b \in 1..n : b # ip => Like(B4[b], blocks[b])
    <3> SUFFICES ASSUME NEW b \in 1..n, b # ip PROVE Like(B4[b], blocks[b])
      OBVIOUS
    <3>1. b \in 1..(n + 4) /\ b # n + 1
      BY <2>7
    <3>2. /\ B4[b] = B3[b] /\ Like(B3[b], B2[b]) /\ B2[b] = B1[b]
          /\ Like(B1[b], B0[b]) /\ B0[b] = blocks[b]
      BY <2>6, <2>8, <2>10, <2>11, <2>13, <3>1
    <3> QED
      BY <3>2 DEF Like
  <2> QED
    BY <2>1, <2>13, <2>14, <2>15, <2>16, <2>17 DEF LoopOpens, n
<1> QED
  BY <1>1, <1>2

LEMMA IfElseGraph ==
  ASSUME TypeOK, Placed, IfElse, blocks[ip].terms = <<>>, Last(frames).next # ip
  PROVE  BranchTurns
<1> DEFINE top == Last(frames)
           B1  == Terminated(blocks, ip, {top.join})
           B2  == Attached(B1, top.next, top.fn)
<1>1. /\ frames # <<>> /\ top.kind = "then" /\ blocks' = B2 /\ ip' = top.next
      /\ frames' = Append(Front(frames), Frame("else", top.fn, 0, top.join, ip, top.value))
  BY DEF IfElse
<1>2. /\ top.join \in 1..Len(blocks) /\ top.next \in 1..Len(blocks) /\ top.fn = CurrentFn
  BY <1>1, NestedFrames
<1>3. /\ blocks \in Seq(Blocks) /\ Len(blocks) \in Nat /\ ip \in 1..Len(blocks)
      /\ CurrentFn \in 0..MaxFns /\ {top.join} \in SUBSET (1..MaxBlocks)
  BY <1>1, <1>2, AtWork
<1>4. top.next # ip
  OBVIOUS
<1> HIDE DEF top
<1>5. /\ B1 \in Seq(Blocks) /\ Len(B1) = Len(blocks) /\ Ended(B1[ip], blocks[ip], {top.join})
      /\ \A b \in 1..Len(blocks) : b # ip => B1[b] = blocks[b]
  BY <1>3, TerminatedEnds
<1> HIDE DEF B1
<1>6. /\ Len(B2) = Len(blocks) /\ Joined(B2[top.next], B1[top.next], top.fn, B1[top.next].phi)
      /\ \A b \in 1..Len(blocks) : b # top.next => B2[b] = B1[b]
  <2>1. top.next \in 1..Len(B1) /\ top.fn \in 0..MaxFns
    BY <1>2, <1>3, <1>5
  <2>2. /\ Len(B2) = Len(B1) /\ B2[top.next].fn = top.fn
        /\ B2[top.next].label = B1[top.next].label /\ B2[top.next].terms = B1[top.next].terms
        /\ B2[top.next].phi = B1[top.next].phi
        /\ \A b \in 1..Len(B1) : b # top.next => B2[b] = B1[b]
    <3>1. B1 \in Seq(Blocks) /\ top.next \in 1..Len(B1) /\ B2 = Attached(B1, top.next, top.fn)
      BY <1>5, <2>1 DEF B2
    <3> HIDE DEF B2
    <3> QED
      BY <2>1, <3>1, AttachedOwned
  <2> QED
    BY <1>5, <2>2 DEF Joined
<1> HIDE DEF B2
<1>7. Joined(B2[top.next], blocks[top.next], top.fn, blocks[top.next].phi)
  BY <1>2, <1>4, <1>5, <1>6 DEF Joined
<1>8. Ended(B2[ip], blocks[ip], {top.join})
  BY <1>3, <1>4, <1>5, <1>6 DEF Ended
<1>9. \A b \in 1..Len(blocks) : b \notin {ip, top.next} => Like(B2[b], blocks[b])
  BY <1>5, <1>6 DEF Like
<1> QED
  BY <1>1, <1>6, <1>7, <1>8, <1>9 DEF BranchTurns, top

LEMMA IfMergeGraph ==
  ASSUME TypeOK, Placed, IfMerge, blocks[ip].terms = <<>>, Last(frames).join # ip
  PROVE  Stays \/ BranchesMeet
<1> DEFINE top == Last(frames)
           B1  == Terminated(blocks, ip, {top.join})
           B2  == Attached(B1, top.join, top.fn)
           B3  == [B2 EXCEPT ![top.join].phi = {top.from, ip}]
<1>1. CASE \E F : Stop(F)
  BY <1>1, StopGraph
<1>2. CASE ~\E F : Stop(F)
  <2>1. /\ frames # <<>> /\ top.kind = "else" /\ blocks' = B3 /\ ip' = top.join
        /\ frames' = Popped
    BY <1>2 DEF IfMerge
  <2>2. /\ top.join \in 1..Len(blocks) /\ top.from \in 1..Len(blocks) /\ top.fn = CurrentFn
        /\ Len(frames) >= 2
    BY <2>1, NestedFrames
  <2>3. /\ blocks \in Seq(Blocks) /\ Len(blocks) \in Nat /\ ip \in 1..Len(blocks)
        /\ CurrentFn \in 0..MaxFns /\ {top.join} \in SUBSET (1..MaxBlocks)
        /\ frames \in Seq(Frames)
    BY <2>1, <2>2, AtWork
  <2>4. top.join # ip /\ Alike(frames', Front(frames))
    BY <2>1, <2>2, <2>3, PoppedFrames
  <2> HIDE DEF top
  <2>5. /\ B1 \in Seq(Blocks) /\ Len(B1) = Len(blocks) /\ Ended(B1[ip], blocks[ip], {top.join})
        /\ \A b \in 1..Len(blocks) : b # ip => B1[b] = blocks[b]
    BY <2>3, TerminatedEnds
  <2> HIDE DEF B1
  <2>6. /\ B2 \in Seq(Blocks) /\ Len(B2) = Len(blocks)
        /\ Joined(B2[top.join], B1[top.join], top.fn, B1[top.join].phi)
        /\ \A b \in 1..Len(blocks) : b # top.join => B2[b] = B1[b]
    <3>1. top.join \in 1..Len(B1) /\ top.fn \in 0..MaxFns
      BY <2>2, <2>3, <2>5
    <3>2. /\ B2 \in Seq(Blocks) /\ Len(B2) = Len(B1) /\ B2[top.join].fn = top.fn
          /\ B2[top.join].label = B1[top.join].label /\ B2[top.join].terms = B1[top.join].terms
          /\ B2[top.join].phi = B1[top.join].phi
          /\ \A b \in 1..Len(B1) : b # top.join => B2[b] = B1[b]
      BY <2>5, <3>1, AttachedOwned
    <3> QED
      BY <2>5, <3>2 DEF Joined
  <2> HIDE DEF B2
  <2>7. /\ Len(B3) = Len(blocks)
        /\ Joined(B3[top.join], B2[top.join], top.fn, {top.from, ip})
        /\ \A b \in 1..Len(blocks) : b # top.join => B3[b] = B2[b]
    <3> DEFINE j == top.join
               P == {top.from, ip}
               new == [B2[j] EXCEPT !.phi = P]
    <3>1. B2[j] \in Blocks /\ B2[j].fn = top.fn /\ j \in 1..Len(B2)
      BY <2>2, <2>6 DEF Joined
    <3>2. Joined(new, B2[j], top.fn, P)
      <4> HIDE DEF P, j
      <4> QED
        BY <3>1 DEF Joined, Blocks
    <3>3. B3 = [B2 EXCEPT ![j] = new]
      OBVIOUS
    <3> HIDE DEF new, P, j, B3
    <3>4. /\ Len(B3) = Len(B2) /\ B3[j] = new
          /\ \A b \in 1..Len(B2) : b # j => B3[b] = B2[b]
      BY <2>6, <3>1, <3>3
    <3> QED
      BY <2>6, <3>2, <3>4 DEF j, P
  <2> HIDE DEF B3
  <2>8. Joined(B3[top.join], blocks[top.join], top.fn, {top.from, ip})
    BY <2>2, <2>4, <2>5, <2>6, <2>7 DEF Joined
  <2>9. Ended(B3[ip], blocks[ip], {top.join})
    BY <2>3, <2>4, <2>5, <2>6, <2>7 DEF Ended
  <2>10. \A b \in 1..Len(blocks) : b \notin {ip, top.join} => Like(B3[b], blocks[b])
    BY <2>5, <2>6, <2>7 DEF Like
  <2> QED
    BY <2>1, <2>4, <2>7, <2>8, <2>9, <2>10 DEF BranchesMeet, top
<1> QED
  BY <1>1, <1>2

LEMMA ForTailGraph ==
  ASSUME TypeOK, Placed, NEW e \in Exprs, ForTail(e), blocks[ip].terms = <<>>,
         Last(frames).next # ip,
         Last(frames).kind = "for" => blocks[Last(frames).next].terms = <<>>
  PROVE  Stays \/ LoopCloses
<1> DEFINE top == Last(frames)
           U   == Owners(symtab_stack, e) \cup {top.fn}
           B1  == Terminated(blocks, ip, {top.next})
           B2  == Using(B1, top.next, U)
           B3  == Terminated(B2, top.next, {top.from})
<1>1. CASE \E F : Stop(F)
  BY <1>1, StopGraph
<1>2. CASE ~\E F : Stop(F)
  <2>1. /\ frames # <<>> /\ top.kind = "for" /\ blocks' = B3 /\ ip' = top.join
        /\ frames' = Popped
    BY <1>2 DEF ForTail, BackEdge
  <2>2. /\ top.join \in 1..Len(blocks) /\ top.from \in 1..Len(blocks) /\ top.fn = CurrentFn
        /\ top.next \in 1..Len(blocks) /\ Len(frames) >= 2
    BY <2>1, NestedFrames
  <2>3. /\ blocks \in Seq(Blocks) /\ Len(blocks) \in Nat /\ ip \in 1..Len(blocks)
        /\ U \in SUBSET (1..MaxFns) /\ {top.next} \in SUBSET (1..MaxBlocks)
        /\ {top.from} \in SUBSET (1..MaxBlocks) /\ frames \in Seq(Frames)
    BY <2>1, <2>2, AtWork
  <2>4. /\ top.next # ip /\ Alike(frames', Front(frames)) /\ blocks[top.next].terms = <<>>
        /\ top.next \in 0..Len(blocks)
    BY <2>1, <2>2, <2>3, PoppedFrames
  <2> HIDE DEF top, U
  <2>5. /\ B1 \in Seq(Blocks) /\ Len(B1) = Len(blocks) /\ Ended(B1[ip], blocks[ip], {top.next})
        /\ \A b \in 1..Len(blocks) : b # ip => B1[b] = blocks[b]
    BY <2>3, TerminatedEnds
  <2> HIDE DEF B1
  <2>6. /\ B2 \in Seq(Blocks) /\ Len(B2) = Len(blocks)
        /\ \A b \in 1..Len(blocks) : Like(B2[b], B1[b])
    BY <2>3, <2>4, <2>5, UsingLike
  <2>7. B2[top.next].terms = <<>>
    BY <2>2, <2>4, <2>5, <2>6 DEF Like
  <2> HIDE DEF B2
  <2>8. /\ Len(B3) = Len(blocks) /\ Ended(B3[top.next], B2[top.next], {top.from})
        /\ \A b \in 1..Len(blocks) : b # top.next => B3[b] = B2[b]
    <3>1. top.next \in 1..Len(B2)
      BY <2>2, <2>6
    <3>2. /\ Len(B3) = Len(B2) /\ Ended(B3[top.next], B2[top.next], {top.from})
          /\ \A b \in 1..Len(B2) : b # top.next => B3[b] = B2[b]
      BY <2>3, <2>6, <2>7, <3>1, TerminatedEnds
    <3> QED
      BY <2>6, <3>2
  <2> HIDE DEF B3
  <2>9. Ended(B3[top.next], blocks[top.next], {top.from})
    BY <2>2, <2>4, <2>5, <2>6, <2>8 DEF Ended, Like
  <2>10. Ended(B3[ip], blocks[ip], {top.next})
    BY <2>3, <2>4, <2>5, <2>6, <2>8 DEF Ended, Like
  <2>11. \A b \in 1..Len(blocks) : b \notin {ip, top.next} => Like(B3[b], blocks[b])
    BY <2>5, <2>6, <2>8 DEF Like
  <2> QED
    BY <2>1, <2>4, <2>8, <2>9, <2>10, <2>11 DEF LoopCloses, top
<1> QED
  BY <1>1, <1>2

LEMMA BeginDefGraph ==
  ASSUME TypeOK, NEW f \in Funcs, NEW params \in ParamLists, BeginDef(f, params)
  PROVE  DefOpens
<1> DEFINE fn == Resolved(f, params)
           x  == [NewBlock(fn, "entry") EXCEPT !.uses = {fn}]
<1>1. /\ frames = <<>> /\ fn \in 1..MaxFns /\ blocks' = Append(blocks, x)
      /\ fns' = IF fn \in DOMAIN fns THEN [fns EXCEPT ![fn].state = "defined"]
                ELSE Append(fns, NewFn(f, params, "defined"))
      /\ ip' = Len(blocks) + 1 /\ frames' = <<Frame("func", fn, 0, 0, 0, "none")>>
  BY DEF BeginDef, EntryPoint
<1>2. fn \in 0..(Len(fns) + 1)
  BY ResolvedFn
<1> HIDE DEF fn
<1>3. fn \in 0..MaxFns
  BY <1>1, BoundsAssumption
<1>4. NewBlock(fn, "entry") \in Blocks /\ Made(NewBlock(fn, "entry"), fn, "entry", <<>>)
  BY <1>3, NewBlocks, NewMade
<1>5. x \in Blocks /\ Made(x, fn, "entry", <<>>)
  BY <1>1, <1>4 DEF Blocks, Made
<1> HIDE DEF x
<1>6. blocks \in Seq(Blocks) /\ fns \in Seq(Fns) /\ Len(fns) \in Nat
  BY DEF TypeOK
<1>7. /\ Len(blocks') = Len(blocks) + 1 /\ blocks'[Len(blocks) + 1] = x
      /\ \A b \in 1..Len(blocks) : blocks'[b] = blocks[b]
  BY <1>1, <1>5, <1>6, Appended
<1>8. \A b \in 1..Len(blocks) : Like(blocks'[b], blocks[b])
  BY <1>7 DEF Like
<1>9. fns'[fn].state = "defined"
  <2>1. CASE fn \in DOMAIN fns
    <3>1. fns[fn] \in Fns
      BY <1>6, <2>1
    <3>2. [fns[fn] EXCEPT !.state = "defined"].state = "defined"
      BY <3>1 DEF Fns
    <3>3. fns' = [fns EXCEPT ![fn] = [fns[fn] EXCEPT !.state = "defined"]]
      BY <1>1, <2>1
    <3> QED
      BY <2>1, <3>2, <3>3
  <2>2. CASE fn \notin DOMAIN fns
    <3>1. fn = Len(fns) + 1
      BY <1>1, <1>2, <1>6, <2>2
    <3>2. NewFn(f, params, "defined").state = "defined" /\ NewFn(f, params, "defined") \in Fns
      BY NewFns DEF NewFn
    <3>3. fns'[Len(fns) + 1] = NewFn(f, params, "defined")
      BY <1>1, <1>6, <2>2, <3>2, Appended
    <3> QED
      BY <3>1, <3>2, <3>3
  <2> QED
    BY <2>1, <2>2
<1> QED
  BY <1>1, <1>5, <1>7, <1>8, <1>9 DEF DefOpens

LEMMA EndDefGraph ==
  ASSUME TypeOK, Placed, EndDef, blocks[ip].terms = <<>>
  PROVE  DefCloses
<1>1. /\ Len(frames) = 1 /\ blocks' = Terminated(blocks, ip, {}) /\ frames' = <<>> /\ ip' = ip
  BY DEF EndDef
<1>2. frames # <<>>
  BY <1>1
<1>3. blocks \in Seq(Blocks) /\ ip \in 1..Len(blocks) /\ {} \in SUBSET (1..MaxBlocks)
  BY <1>2, AtWork
<1>4. /\ Len(blocks') = Len(blocks) /\ Ended(blocks'[ip], blocks[ip], {})
      /\ \A b \in 1..Len(blocks) : b # ip => blocks'[b] = blocks[b]
  BY <1>1, <1>3, TerminatedEnds
<1>5. \A b \in 1..Len(blocks) : b # ip => Like(blocks'[b], blocks[b])
  BY <1>4 DEF Like
<1> QED
  BY <1>1, <1>4, <1>5 DEF DefCloses

LEMMA EraseDefGraph ==
  ASSUME TypeOK, Placed, EraseDef
  PROVE  DefErased
<1> DEFINE fn == frames[1].fn
           Left(i) == [fns[i] EXCEPT !.users = @ \ {fn},
                                     !.state = IF i = fn THEN "erased" ELSE @]
<1>1. /\ Len(frames) = 1 /\ frames' = <<>> /\ blocks' = blocks /\ ip' = ip
      /\ fns' = [i \in DOMAIN fns |-> Left(i)]
  BY DEF EraseDef
<1>2. frames # <<>> /\ fns \in Seq(Fns) /\ Len(fns) \in Nat
  <2>1. Len(frames) = 1
    BY <1>1
  <2>2. frames # <<>>
    BY <2>1
  <2> QED
    BY <2>2 DEF TypeOK
<1>3. fn \in 1..MaxFns /\ fn <= Len(fns) /\ MaxFns \in Nat
  BY <1>2, CurrentIsFn, BoundsAssumption
<1>4. fn \in DOMAIN fns /\ fns[fn] \in Fns
  <2> HIDE DEF fn
  <2> QED
    BY <1>2, <1>3
<1>5. Left(fn).state = "erased"
  <2> HIDE DEF fn
  <2> QED
    BY <1>4 DEF Fns
<1> QED
  BY <1>1, <1>4, <1>5 DEF DefErased

(* Every step is one of these; the assumptions are part of the invariant   *)
(* below.                                                                  *)
GraphStep ==
  \/ Stays \/ Returned \/ BranchOpens \/ BranchTurns \/ BranchesMeet
  \/ LoopOpens \/ LoopCloses \/ DefOpens \/ DefCloses \/ DefErased

LEMMA StepsOnGraph ==
  ASSUME WellFormed, [Next]_vars,
         frames # <<>> => blocks[ip].terms = <<>>,
         frames # <<>> /\ Last(frames).kind # "func" =>
           Last(frames).next # ip /\ Last(frames).join # ip,
         frames # <<>> /\ Last(frames).kind = "for" =>
           blocks[Last(frames).next].terms = <<>>
  PROVE  GraphStep
<1>1. TypeOK /\ Placed
  BY DEF WellFormed
<1>2. Parsed \subseteq Exprs
  BY DEF Parsed
<1>3. ASSUME NEW e \in Parsed, ExprStmt(e) \/ IfSkipped(e)
      PROVE  GraphStep
  BY <1>1, <1>2, <1>3, StatementGraph DEF GraphStep
<1>4. ASSUME NEW e \in Parsed, RetStmt(e)
      PROVE  GraphStep
  <2>1. frames # <<>>
    BY <1>4 DEF RetStmt
  <2> QED
    BY <1>1, <1>2, <1>4, <2>1, RetStmtGraph DEF GraphStep
<1>5. ASSUME NEW e \in Parsed, IfCond(e)
      PROVE  GraphStep
  <2>1. frames # <<>>
    BY <1>5 DEF IfCond
  <2> QED
    BY <1>1, <1>2, <1>5, <2>1, IfCondGraph DEF GraphStep
<1>6. ASSUME NEW e \in Parsed, ForTail(e)
      PROVE  GraphStep
  <2>1. frames # <<>> /\ Last(frames).kind = "for"
    BY <1>6 DEF ForTail
  <2> QED
    BY <1>1, <1>2, <1>6, <2>1, ForTailGraph DEF GraphStep
<1>7. ASSUME NEW e \in Parsed, NEW n \in Idents, NEW type \in {"double", "int"},
             VarDecl(n, type, e)
      PROVE  GraphStep
  BY <1>1, <1>2, <1>7, VarDeclGraph DEF GraphStep
<1>8. ASSUME NEW e \in Parsed, NEW n \in Idents, NEW end \in Parsed, ForHead(n, e, end)
      PROVE  GraphStep
  <2>1. frames # <<>>
    BY <1>8 DEF ForHead
  <2> QED
    BY <1>1, <1>2, <1>8, <2>1, ForHeadGraph DEF GraphStep
<1>9. ASSUME IfElse
      PROVE  GraphStep
  <2>1. frames # <<>> /\ Last(frames).kind = "then"
    BY <1>9 DEF IfElse
  <2> QED
    BY <1>1, <1>9, <2>1, IfElseGraph DEF GraphStep
<1>10. ASSUME IfMerge
       PROVE  GraphStep
  <2>1. frames # <<>> /\ Last(frames).kind = "else"
    BY <1>10 DEF IfMerge
  <2> QED
    BY <1>1, <1>10, <2>1, IfMergeGraph DEF GraphStep
<1>11. ASSUME NEW f \in Funcs, NEW params \in ParamLists,
              RefusedDef(f, params) \/ ExternDef(f, params)
       PROVE  GraphStep
  BY <1>11 DEF RefusedDef, ExternDef, GraphStep, Stays, Alike, Like
<1>12. ASSUME NEW f \in Funcs, NEW params \in ParamLists, BeginDef(f, params)
       PROVE  GraphStep
  BY <1>1, <1>12, BeginDefGraph DEF GraphStep
<1>13. ASSUME EndDef \/ EraseDef
       PROVE  GraphStep
  <2>0. Len(frames) = 1
    BY <1>13 DEF EndDef, EraseDef
  <2>1. frames # <<>>
    BY <2>0
  <2> QED
    BY <1>1, <1>13, <2>1, EndDefGraph, EraseDefGraph DEF GraphStep
<1>14. ASSUME Finish \/ UNCHANGED vars
       PROVE  GraphStep
  BY <1>14 DEF Finish, vars, GraphStep, Stays, Alike, Like
<1> QED
  BY <1>3, <1>4, <1>5, <1>6, <1>7, <1>8, <1>9, <1>10, <1>11, <1>12, <1>13,
     <1>14 DEF Next, Stopped
-----------------------------------------------------------------------------
(* The invariant: the blocks to be filled are different ones, none of them *)
(* the builder's, and labelled for what they are made for; they have no    *)
(* terminator and belong to the function under way if to any; all others   *)
(* have one, unless they are what is left of an erased function, and       *)
(* branch only within their function.                                      *)
Underway ==
  frames # <<>> => ip \notin Waiting(frames) /\ fns[frames[1].fn].state = "defined"

Filling ==
  \A b \in Unfilled : blocks[b].terms = <<>> /\ blocks[b].fn \in {0, frames[1].fn}

Edges ==
  \A b \in 1..Len(blocks) :
    /\ blocks[b].fn = 0 => b \in Unfilled
    /\ blocks[b].terms = <<>> /\ b \notin Unfilled => fns[blocks[b].fn].state = "erased"
    /\ Len(blocks[b].terms) > 1 => blocks[b].label = "ret_enter"
    /\ \A c \in Targets(blocks[b]) :
         /\ c \in 1..Len(blocks)
         /\ \/ blocks[c].fn = blocks[b].fn
            \/ blocks[c].fn = 0 /\ frames # <<>> /\ blocks[b].fn = frames[1].fn

Flow == Distinct(frames) /\ Laid(frames, blocks) /\ Underway /\ Filling /\ Edges

(* A phi stands where two branches have met, and nowhere else.             *)
Phis ==
  \A b \in 1..Len(blocks) :
    IF blocks[b].label = "ifcont"
    THEN b \notin Waiting(frames) =>
           blocks[b].phi = Preds(blocks, b) /\ Cardinality(Preds(blocks, b)) = 2
    ELSE blocks[b].phi = {}

(* A step in terms of the blocks it may touch: those that were unfilled,   *)
(* and those it adds.  It works for function cur, and branches to no block *)
(* that is to get a phi but those in J.                                    *)
Touched == Unfilled \cup (Len(blocks) + 1)..Len(blocks')

Drawn(b, cur, J) ==
  /\ blocks'[b].fn \in {0, cur} /\ (blocks'[b].fn = 0 => b \in Unfilled')
  /\ b \in Unfilled' => blocks'[b].terms = <<>>
  /\ blocks'[b].terms = <<>> /\ b \notin Unfilled' => fns'[cur].state = "erased"
  /\ Len(blocks'[b].terms) > 1 => blocks'[b].label = "ret_enter"
  /\ \A c \in Targets(blocks'[b]) :
       /\ blocks'[b].fn = cur /\ c \in 1..Len(blocks') /\ blocks'[c].fn \in {0, cur}
       /\ blocks'[c].label = "ifcont" => b = ip /\ c \in J

Grows(cur, J) ==
  /\ Len(blocks) <= Len(blocks') /\ cur # 0
  /\ frames # <<>> => frames[1].fn = cur
  /\ frames' # <<>> => frames'[1].fn = cur
  /\ Unfilled' \subseteq Touched
  /\ \A b \in 1..Len(blocks) : b \notin Unfilled => Like(blocks'[b], blocks[b])
  /\ \A b \in Unfilled : /\ blocks'[b].label = blocks[b].label
                         /\ blocks[b].fn \in {0, blocks'[b].fn}
                         /\ b \notin J => blocks'[b].phi = blocks[b].phi
  /\ \A b \in Touched : Drawn(b, cur, J)
  /\ \A b \in (Len(blocks) + 1)..Len(blocks') :
       blocks'[b].phi = {} /\ (blocks'[b].label = "ifcont" => b \in Waiting(frames'))
  /\ \A b \in Waiting(frames) :
       blocks[b].label = "ifcont" /\ b \notin Waiting(frames') => b \in J
  /\ \A j \in J : j \in Waiting(frames) /\ j \in Targets(blocks'[ip])

(* Functions are added, those that are erased stay so, and the one under   *)
(* way is not erased before its end.                                       *)
FnsStand ==
  /\ Len(fns) <= Len(fns')
  /\ \A i \in 1..Len(fns) : fns[i].state = "erased" => fns'[i].state = "erased"
  /\ frames # <<>> /\ frames' # <<>> /\ fns[frames[1].fn].state = "defined"
       => fns'[frames[1].fn].state = "defined"

(* What a step leaves of the blocks that are there.                        *)
Steady ==
  /\ Len(blocks) <= Len(blocks')
  /\ \A b \in 1..Len(blocks) : /\ blocks'[b].label = blocks[b].label
                               /\ blocks[b].fn \in {0, blocks'[b].fn}
                               /\ b \notin Unfilled => Like(blocks'[b], blocks[b])

LEMMA PendingThere ==
  ASSUME NEW F \in Seq(Frames), NEW B \in Seq(Blocks), FramesPlaced(F, B), Laid(F, B)
  PROVE  Waiting(F) \subseteq 1..Len(B)
<1> SUFFICES ASSUME NEW i \in 1..Len(F) PROVE Pending(F[i]) \subseteq 1..Len(B)
  BY DEF Waiting
<1>1. F[i] \in Frames
  OBVIOUS
<1>2. F[i].kind \in {"func", "then", "else", "for"}
  BY <1>1 DEF Frames
<1>3. F[i].next = 0 \/ F[i].next \in 1..Len(B)
  BY <1>2 DEF FramesPlaced, Laid
<1>4. F[i].join = 0 \/ F[i].join \in 1..Len(B)
  BY <1>2 DEF FramesPlaced, Laid
<1> QED
  BY <1>3, <1>4 DEF Pending

LEMMA UnfilledThere ==
  ASSUME TypeOK, Placed, Laid(frames, blocks)
  PROVE  /\ Unfilled \subseteq 1..Len(blocks) /\ Waiting(frames) \subseteq 1..Len(blocks)
         /\ Waiting(frames) \subseteq Unfilled /\ (frames = <<>> => Unfilled = {})
         /\ frames # <<>> => ip \in Unfilled /\ Unfilled = {ip} \cup Waiting(frames)
<1>1. Waiting(frames) \subseteq 1..Len(blocks)
  BY PendingThere DEF TypeOK, Placed
<1>2. frames # <<>> => ip \in 1..Len(blocks)
  BY AtWork
<1>3. frames = <<>> => Waiting(frames) = {}
  BY DEF Waiting
<1> QED
  BY <1>1, <1>2, <1>3 DEF Unfilled

(* The edges after a step.                                                 *)
LEMMA EdgesStay ==
  ASSUME WellFormed, TypeOK', Placed', Flow, FnsStand, NEW cur, NEW J, Grows(cur, J)
  PROVE  Edges'
<1>1. TypeOK /\ Placed /\ Laid(frames, blocks) /\ Edges /\ Filling
  BY DEF WellFormed, Flow
<1>2. /\ Len(blocks) \in Nat /\ Len(blocks') \in Nat /\ Len(blocks) <= Len(blocks')
      /\ Len(fns) \in Nat /\ cur # 0
  BY <1>1 DEF TypeOK, Grows
<1>3. Unfilled \subseteq 1..Len(blocks) /\ (frames = <<>> => Unfilled = {})
  BY <1>1, UnfilledThere
<1>4. /\ frames # <<>> => frames[1].fn = cur
      /\ frames' # <<>> => frames'[1].fn = cur
      /\ Unfilled' \subseteq Touched
      /\ \A b \in 1..Len(blocks) : b \notin Unfilled => Like(blocks'[b], blocks[b])
      /\ \A b \in Unfilled : blocks[b].fn \in {0, blocks'[b].fn}
      /\ \A b \in Touched : Drawn(b, cur, J)
  BY DEF Grows
<1>5. \A b \in 1..Len(blocks') : b \in 1..Len(blocks) \/ b \in (Len(blocks) + 1)..Len(blocks')
  BY <1>2
<1>6. \A b \in 1..Len(blocks) : b \in 1..Len(blocks')
  BY <1>2
<1>7. frames' = <<>> => Unfilled' = {}
  BY DEF Unfilled
<1>8. \A b \in 1..Len(blocks) :
        /\ blocks[b].fn # 0 => blocks'[b].fn = blocks[b].fn
        /\ blocks[b].fn = 0 => b \in Unfilled
  BY <1>1, <1>4 DEF Like, Edges
<1> SUFFICES ASSUME NEW b \in 1..Len(blocks')
             PROVE  /\ blocks'[b].fn = 0 => b \in Unfilled'
                    /\ blocks'[b].terms = <<>> /\ b \notin Unfilled'
                         => fns'[blocks'[b].fn].state = "erased"
                    /\ Len(blocks'[b].terms) > 1 => blocks'[b].label = "ret_enter"
                    /\ \A c \in Targets(blocks'[b]) :
                         /\ c \in 1..Len(blocks')
                         /\ \/ blocks'[c].fn = blocks'[b].fn
                            \/ /\ blocks'[c].fn = 0 /\ frames' # <<>>
                               /\ blocks'[b].fn = frames'[1].fn
  BY DEF Edges, Targets
<1>9. CASE b \in Touched
  <2>1. Drawn(b, cur, J)
    BY <1>4, <1>9
  <2>2. blocks'[b].fn = 0 => b \in Unfilled'
    BY <2>1 DEF Drawn
  <2>3. ASSUME blocks'[b].terms = <<>>, b \notin Unfilled'
        PROVE  fns'[blocks'[b].fn].state = "erased"
    BY <2>1, <2>3 DEF Drawn
  <2>4. ASSUME NEW c \in Targets(blocks'[b])
        PROVE  /\ c \in 1..Len(blocks')
               /\ \/ blocks'[c].fn = blocks'[b].fn
                  \/ /\ blocks'[c].fn = 0 /\ frames' # <<>>
                     /\ blocks'[b].fn = frames'[1].fn
    <3>1. /\ blocks'[b].fn = cur /\ c \in 1..Len(blocks') /\ blocks'[c].fn \in {0, cur}
      BY <2>1, <2>4 DEF Drawn
    <3>2. ASSUME blocks'[c].fn = 0 PROVE frames' # <<>> /\ cur = frames'[1].fn
      <4>1. c \in Touched
        <5>1. CASE c \in 1..Len(blocks)
          <6>1. blocks[c].fn = 0
            BY <1>8, <3>2, <5>1
          <6> QED
            BY <1>8, <5>1, <6>1 DEF Touched
        <5>2. CASE c \notin 1..Len(blocks)
          BY <1>5, <3>1, <5>2 DEF Touched
        <5> QED
          BY <5>1, <5>2
      <4>2. c \in Unfilled'
        BY <1>4, <3>2, <4>1 DEF Drawn
      <4> QED
        BY <1>4, <1>7, <4>2
    <3> QED
      BY <3>1, <3>2
  <2>5. Len(blocks'[b].terms) > 1 => blocks'[b].label = "ret_enter"
    BY <2>1 DEF Drawn
  <2> QED
    BY <2>2, <2>3, <2>4, <2>5
<1>10. CASE b \notin Touched
  <2>1. b \in 1..Len(blocks) /\ b \notin Unfilled /\ Like(blocks'[b], blocks[b])
    BY <1>4, <1>5, <1>10 DEF Touched
  <2>2. b \notin Unfilled'
    BY <1>4, <1>10
  <2>3. blocks[b].fn # 0
    BY <1>8, <2>1
  <2>4. ASSUME blocks'[b].terms = <<>>
        PROVE  fns'[blocks'[b].fn].state = "erased"
    <3>1. fns[blocks[b].fn].state = "erased"
      BY <1>1, <2>1, <2>4 DEF Edges, Like
    <3>2. blocks[b].fn \in 1..Len(fns)
      <4>1. blocks[b] \in Blocks
        BY <1>1, <2>1 DEF TypeOK
      <4>2. blocks[b].fn \in 0..MaxFns /\ blocks[b].fn <= Len(fns) /\ MaxFns \in Nat
        BY <1>1, <2>1, <4>1, BoundsAssumption DEF Blocks, Placed
      <4> QED
        BY <1>2, <2>3, <4>2
    <3> QED
      BY <2>1, <3>1, <3>2 DEF FnsStand, Like
  <2>5. ASSUME NEW c \in Targets(blocks'[b])
        PROVE  /\ c \in 1..Len(blocks')
               /\ \/ blocks'[c].fn = blocks'[b].fn
                  \/ /\ blocks'[c].fn = 0 /\ frames' # <<>>
                     /\ blocks'[b].fn = frames'[1].fn
    <3>1. c \in Targets(blocks[b])
      BY <2>1, <2>5 DEF Like, Targets
    <3>2. /\ c \in 1..Len(blocks)
          /\ \/ blocks[c].fn = blocks[b].fn
             \/ blocks[c].fn = 0 /\ frames # <<>> /\ blocks[b].fn = frames[1].fn
      BY <1>1, <2>1, <3>1 DEF Edges
    <3>3. CASE blocks[c].fn = blocks[b].fn
      <4>1. c \in 1..Len(blocks') /\ blocks'[b].fn = blocks[b].fn
        BY <1>6, <2>1, <3>2 DEF Like
      <4>2. blocks'[c].fn = blocks[c].fn
        BY <1>8, <2>3, <3>2, <3>3
      <4> QED
        BY <3>3, <4>1, <4>2
    <3>4. CASE blocks[c].fn = 0 /\ frames # <<>> /\ blocks[b].fn = frames[1].fn
      <4>1. c \in Unfilled /\ blocks'[b].fn = cur
        BY <1>4, <1>8, <2>1, <3>2, <3>4 DEF Like
      <4>2. c \in Touched
        BY <4>1 DEF Touched
      <4>3. Drawn(c, cur, J)
        BY <1>4, <4>2
      <4>4. blocks'[c].fn \in {0, cur} /\ (blocks'[c].fn = 0 => c \in Unfilled')
        BY <4>3 DEF Drawn
      <4> QED
        BY <1>4, <1>6, <1>7, <3>2, <4>1, <4>4
    <3> QED
      BY <3>2, <3>3, <3>4
  <2> QED
    BY <1>8, <2>1, <2>2, <2>3, <2>4, <2>5, <1>1 DEF Like, Edges
<1> QED
  BY <1>9, <1>10

(* The blocks to fill after a step.                                        *)
LEMMA FillingStays ==
  ASSUME NEW cur, NEW J, Grows(cur, J)
  PROVE  Filling'
<1> SUFFICES ASSUME NEW b \in Unfilled'
             PROVE  blocks'[b].terms = <<>> /\ blocks'[b].fn \in {0, frames'[1].fn}
  BY DEF Filling
<1>1. b \in Touched /\ frames' # <<>>
  BY DEF Grows, Unfilled
<1>2. Drawn(b, cur, J) /\ frames'[1].fn = cur
  BY <1>1 DEF Grows
<1> QED
  BY <1>2 DEF Drawn

(* The blocks that branch to one that is to get a phi.                     *)
LEMMA PredsStay ==
  ASSUME WellFormed, Flow, NEW cur, NEW J, Grows(cur, J), TypeOK',
         NEW c \in 1..Len(blocks'), blocks'[c].label = "ifcont"
  PROVE  /\ c \in 1..Len(blocks) =>
              Preds(blocks', c) = Preds(blocks, c) \cup (IF c \in J THEN {ip} ELSE {})
         /\ c \notin 1..Len(blocks) => Preds(blocks', c) = {}
<1>1. TypeOK /\ Placed /\ Laid(frames, blocks) /\ Edges /\ Filling
  BY DEF WellFormed, Flow
<1>2. Len(blocks) \in Nat /\ Len(blocks') \in Nat /\ Len(blocks) <= Len(blocks')
  <2>1. Len(blocks) \in Nat /\ Len(blocks') \in Nat
    BY <1>1 DEF TypeOK
  <2>2. Len(blocks) <= Len(blocks')
    BY DEF Grows
  <2> QED
    BY <2>1, <2>2
<1>3. /\ Unfilled \subseteq 1..Len(blocks) /\ Waiting(frames) \subseteq 1..Len(blocks)
      /\ frames # <<>> => ip \in Unfilled
      /\ frames = <<>> => Unfilled = {} /\ Waiting(frames) = {}
  BY <1>1, UnfilledThere DEF Waiting
<1>4. /\ \A b \in 1..Len(blocks) : b \notin Unfilled => Like(blocks'[b], blocks[b])
      /\ \A b \in Touched : Drawn(b, cur, J)
      /\ \A j \in J : j \in Waiting(frames) /\ j \in Targets(blocks'[ip])
  BY DEF Grows
<1>5. \A b \in Unfilled : Targets(blocks[b]) = {}
  BY <1>1, TargetsFew DEF Filling
<1>6. ASSUME NEW b \in Touched, c \in Targets(blocks'[b]) PROVE b = ip /\ c \in J
  BY <1>4, <1>6 DEF Drawn
<1>7. ASSUME NEW b \in 1..Len(blocks'), b \notin Touched
      PROVE  b \in 1..Len(blocks) /\ Targets(blocks'[b]) = Targets(blocks[b])
  <2>1. b \in 1..Len(blocks) /\ b \notin Unfilled
    BY <1>2, <1>7 DEF Touched
  <2> QED
    BY <1>4, <2>1 DEF Like, Targets
<1>8. \A b \in 1..Len(blocks) : Targets(blocks[b]) \subseteq 1..Len(blocks)
  BY <1>1 DEF Edges
<1>9. \A b \in 1..Len(blocks) : b \in Touched => b \in Unfilled
  BY <1>2 DEF Touched
<1>10. c \in J => ip \in 1..Len(blocks) /\ ip \in 1..Len(blocks') /\ c \in 1..Len(blocks)
  <2> SUFFICES ASSUME c \in J
               PROVE  ip \in 1..Len(blocks) /\ ip \in 1..Len(blocks') /\ c \in 1..Len(blocks)
    OBVIOUS
  <2>1. c \in Waiting(frames)
    BY <1>4
  <2>2. c \in 1..Len(blocks)
    BY <1>3, <2>1
  <2>3. frames # <<>>
    BY <2>1 DEF Waiting
  <2>4. ip \in 1..Len(blocks)
    BY <1>3, <2>3
  <2> QED
    BY <1>2, <2>2, <2>4
<1>11. \A b \in 1..Len(blocks) : b \in 1..Len(blocks')
  BY <1>2
<1>12. CASE c \in 1..Len(blocks)
  <2>1. ASSUME NEW b \in Preds(blocks', c)
        PROVE  b \in Preds(blocks, c) \/ (b = ip /\ c \in J)
    BY <1>6, <1>7, <2>1 DEF Preds
  <2>2. ASSUME NEW b \in Preds(blocks, c) PROVE b \in Preds(blocks', c)
    <3>1. b \in 1..Len(blocks) /\ c \in Targets(blocks[b]) /\ b \notin Unfilled
      BY <1>5, <2>2 DEF Preds
    <3> QED
      BY <1>7, <1>9, <1>11, <3>1 DEF Preds
  <2>3. c \in J => ip \in Preds(blocks', c)
    BY <1>4, <1>10 DEF Preds
  <2> QED
    BY <1>12, <2>1, <2>2, <2>3
<1>13. CASE c \notin 1..Len(blocks)
  <2>1. ASSUME NEW b \in Preds(blocks', c) PROVE FALSE
    BY <1>6, <1>7, <1>8, <1>10, <1>13, <2>1 DEF Preds
  <2> QED
    BY <1>13, <2>1
<1> QED
  BY <1>12, <1>13

(* The phis after a step, if those in J that are done have got theirs.     *)
LEMMA PhisStay ==
  ASSUME WellFormed, Flow, Phis, NEW cur, NEW J, Grows(cur, J), TypeOK',
         \A j \in J : j \notin Waiting(frames') =>
           /\ blocks'[j].phi = Preds(blocks', j)
           /\ Cardinality(Preds(blocks', j)) = 2
         , \A j \in J : blocks[j].label = "ifcont"
         , \A j \in J : j \in Waiting(frames') => blocks'[j].phi = blocks[j].phi
  PROVE  Phis'
<1>1. TypeOK /\ Placed /\ Laid(frames, blocks)
  BY DEF WellFormed, Flow
<1>2. Len(blocks) \in Nat /\ Len(blocks') \in Nat /\ Len(blocks) <= Len(blocks')
  BY <1>1 DEF TypeOK, Grows
<1>3. Unfilled \subseteq 1..Len(blocks)
  BY <1>1, UnfilledThere
<1>4. /\ \A b \in 1..Len(blocks) : b \notin Unfilled => Like(blocks'[b], blocks[b])
      /\ \A b \in Unfilled : /\ blocks'[b].label = blocks[b].label
                             /\ b \notin J => blocks'[b].phi = blocks[b].phi
      /\ \A b \in (Len(blocks) + 1)..Len(blocks') :
           blocks'[b].phi = {} /\ (blocks'[b].label = "ifcont" => b \in Waiting(frames'))
      /\ \A b \in Waiting(frames) :
           blocks[b].label = "ifcont" /\ b \notin Waiting(frames') => b \in J
  BY DEF Grows
<1>5. \A b \in 1..Len(blocks) :
        /\ blocks'[b].label = blocks[b].label
        /\ b \notin J => blocks'[b].phi = blocks[b].phi
  BY <1>4 DEF Like
<1> SUFFICES ASSUME NEW b \in 1..Len(blocks')
             PROVE  IF blocks'[b].label = "ifcont"
                    THEN b \notin Waiting(frames') =>
                           /\ blocks'[b].phi = Preds(blocks', b)
                           /\ Cardinality(Preds(blocks', b)) = 2
                    ELSE blocks'[b].phi = {}
  BY DEF Phis, Preds, Waiting, Targets, Pending
<1>6. CASE b \notin 1..Len(blocks)
  <2>1. b \in (Len(blocks) + 1)..Len(blocks')
    BY <1>2, <1>6
  <2> QED
    BY <1>4, <2>1
<1>7. CASE b \in 1..Len(blocks) /\ blocks[b].label # "ifcont"
  <2>1. b \notin J /\ blocks[b].phi = {}
    BY <1>7 DEF Phis
  <2>2. blocks'[b].label # "ifcont" /\ blocks'[b].phi = {}
    BY <1>5, <1>7, <2>1
  <2> QED
    BY <2>2
<1>8. CASE b \in 1..Len(blocks) /\ blocks[b].label = "ifcont"
  <2> SUFFICES ASSUME b \notin Waiting(frames')
               PROVE  /\ blocks'[b].phi = Preds(blocks', b)
                      /\ Cardinality(Preds(blocks', b)) = 2
    <3>1. blocks'[b].label = "ifcont"
      BY <1>5, <1>8
    <3> QED
      BY <3>1
  <2>1. CASE b \in J
    BY <2>1
  <2>2. CASE b \notin J
    <3>1. b \notin Waiting(frames)
      BY <1>4, <1>8, <2>2
    <3>2. Preds(blocks', b) = Preds(blocks, b)
      <4>1. blocks'[b].label = "ifcont"
        BY <1>5, <1>8
      <4>2. Preds(blocks', b) = Preds(blocks, b) \cup (IF b \in J THEN {ip} ELSE {})
        BY <1>8, <4>1, PredsStay
      <4> QED
        BY <2>2, <4>2
    <3>3. blocks'[b].phi = blocks[b].phi
      BY <1>5, <1>8, <2>2
    <3>4. blocks[b].phi = Preds(blocks, b) /\ Cardinality(Preds(blocks, b)) = 2
      BY <1>8, <3>1 DEF Phis
    <3> QED
      BY <3>2, <3>3, <3>4
  <2> QED
    BY <2>1, <2>2
<1> QED
  BY <1>6, <1>7, <1>8

(* The blocks a step touches: those that go on waiting, those that get     *)
(* their terminator, and those that are made.                              *)
LEMMA WaitingDrawn ==
  ASSUME Filling, frames # <<>>, NEW cur, cur = frames[1].fn, NEW J, cur # 0,
         NEW b \in Unfilled, b \in Unfilled', Like(blocks'[b], blocks[b])
  PROVE  Drawn(b, cur, J)
<1>1. blocks'[b].terms = <<>> /\ blocks'[b].fn \in {0, cur}
  BY DEF Filling, Like
<1>2. Targets(blocks'[b]) = {} /\ Len(blocks'[b].terms) = 0
  BY <1>1, TargetsFew
<1> QED
  BY <1>1, <1>2 DEF Drawn

LEMMA MadeDrawn ==
  ASSUME NEW cur, cur # 0, NEW J, NEW b \in Unfilled', NEW label, NEW fn \in {0, cur},
         Made(blocks'[b], fn, label, <<>>)
  PROVE  Drawn(b, cur, J)
<1>1. blocks'[b].terms = <<>> /\ blocks'[b].fn \in {0, cur}
  BY DEF Made
<1>2. Targets(blocks'[b]) = {} /\ Len(blocks'[b].terms) = 0
  BY <1>1, TargetsFew
<1> QED
  BY <1>1, <1>2 DEF Drawn

LEMMA EndedDrawn ==
  ASSUME NEW cur, cur # 0, NEW J, NEW b, b \notin Unfilled', NEW S,
         blocks'[b].fn = cur, blocks'[b].terms = <<S>>,
         \A c \in S : /\ c \in 1..Len(blocks') /\ blocks'[c].fn \in {0, cur}
                      /\ blocks'[c].label = "ifcont" => b = ip /\ c \in J
  PROVE  Drawn(b, cur, J)
<1>1. Targets(blocks'[b]) = S /\ Len(blocks'[b].terms) = 1 /\ blocks'[b].terms # <<>>
  BY TargetsFew
<1> QED
  BY <1>1 DEF Drawn

(* What the frames ask of the blocks, when frames or blocks change.        *)
LEMMA LaidAlike ==
  ASSUME NEW F, NEW G, NEW B, Alike(G, F), Laid(F, B), Len(F) \in Nat
  PROVE  Laid(G, B)
<1>1. Len(G) = Len(F)
  BY DEF Alike
<1> SUFFICES ASSUME NEW i \in 1..Len(F)
             PROVE  /\ G[i].kind = "func" => G[i].next = 0 /\ G[i].join = 0
                    /\ G[i].kind = "then" => /\ B[G[i].next].label = "else"
                                             /\ B[G[i].join].label = "ifcont"
                                             /\ Preds(B, G[i].join) = {}
                    /\ G[i].kind = "else" => /\ G[i].next = 0
                                             /\ B[G[i].join].label = "ifcont"
                                             /\ Preds(B, G[i].join) = {G[i].from}
                    /\ G[i].kind = "for" => /\ B[G[i].next].label = "for.inc"
                                            /\ B[G[i].join].label = "for.exit"
                                            /\ B[G[i].from].label = "for.cond"
                                            /\ B[G[i].next].fn = G[1].fn
                                            /\ B[G[i].from].fn = G[1].fn
  BY <1>1 DEF Laid
<1>2. /\ G[i].kind = F[i].kind /\ G[i].next = F[i].next /\ G[i].join = F[i].join
      /\ G[i].from = F[i].from
  BY DEF Alike
<1>3. G[1].fn = F[1].fn
  <2>1. 1 \in 1..Len(F)
    OBVIOUS
  <2> QED
    BY <2>1 DEF Alike
<1> QED
  BY <1>2, <1>3 DEF Laid

LEMMA LaidFront ==
  ASSUME NEW F \in Seq(Frames), NEW B, Len(F) >= 2, Laid(F, B)
  PROVE  Laid(Front(F), B)
<1>1. /\ Len(F) \in Nat /\ Len(Front(F)) = Len(F) - 1
      /\ \A i \in 1..(Len(F) - 1) : Front(F)[i] = F[i]
  BY DEF Front
<1>2. \A i \in 1..(Len(F) - 1) : i \in 1..Len(F)
  BY <1>1
<1>3. 1 \in 1..(Len(F) - 1)
  BY <1>1
<1> DEFINE G == Front(F)
<1>4. /\ Len(G) = Len(F) - 1
      /\ \A i \in 1..Len(G) : i \in 1..Len(F) /\ G[i] = F[i]
  BY <1>1, <1>2
<1>0. G[1] = F[1]
  BY <1>1, <1>3
<1> HIDE DEF G
<1>5. SUFFICES Laid(G, B)
  BY DEF G
<1>6. ASSUME NEW i \in 1..Len(G)
      PROVE  /\ G[i].kind = "func" => G[i].next = 0 /\ G[i].join = 0
             /\ G[i].kind = "then" => /\ B[G[i].next].label = "else"
                                      /\ B[G[i].join].label = "ifcont"
                                      /\ Preds(B, G[i].join) = {}
             /\ G[i].kind = "else" => /\ G[i].next = 0
                                      /\ B[G[i].join].label = "ifcont"
                                      /\ Preds(B, G[i].join) = {G[i].from}
             /\ G[i].kind = "for" => /\ B[G[i].next].label = "for.inc"
                                     /\ B[G[i].join].label = "for.exit"
                                     /\ B[G[i].from].label = "for.cond"
                                     /\ B[G[i].next].fn = F[1].fn
                                     /\ B[G[i].from].fn = F[1].fn
  <2>1. i \in 1..Len(F) /\ G[i] = F[i]
    BY <1>4
  <2> QED
    BY <2>1 DEF Laid
<1> QED
  BY <1>0, <1>6 DEF Laid

LEMMA LaidNext ==
  ASSUME NEW F \in Seq(Frames), NEW B, NEW x \in Frames, Laid(F, B), F # <<>>,
         x.kind # "func",
         x.kind = "then" => /\ B[x.next].label = "else" /\ B[x.join].label = "ifcont"
                            /\ Preds(B, x.join) = {},
         x.kind = "else" => /\ x.next = 0 /\ B[x.join].label = "ifcont"
                            /\ Preds(B, x.join) = {x.from},
         x.kind = "for" => /\ B[x.next].label = "for.inc" /\ B[x.join].label = "for.exit"
                           /\ B[x.from].label = "for.cond"
                           /\ B[x.next].fn = F[1].fn /\ B[x.from].fn = F[1].fn
  PROVE  Laid(Append(F, x), B)
<1>1. /\ Len(F) \in Nat /\ Len(F) >= 1 /\ Len(Append(F, x)) = Len(F) + 1
      /\ \A i \in 1..Len(F) : Append(F, x)[i] = F[i]
      /\ Append(F, x)[Len(F) + 1] = x
  OBVIOUS
<1>2. \A i \in 1..(Len(F) + 1) : i \in 1..Len(F) \/ i = Len(F) + 1
  BY <1>1
<1> DEFINE G == Append(F, x)
<1>3. G[1] = F[1]
  BY <1>1
<1> HIDE DEF G
<1>4. ASSUME NEW i \in 1..Len(G)
      PROVE  /\ G[i].kind = "func" => G[i].next = 0 /\ G[i].join = 0
             /\ G[i].kind = "then" => /\ B[G[i].next].label = "else"
                                      /\ B[G[i].join].label = "ifcont"
                                      /\ Preds(B, G[i].join) = {}
             /\ G[i].kind = "else" => /\ G[i].next = 0
                                      /\ B[G[i].join].label = "ifcont"
                                      /\ Preds(B, G[i].join) = {G[i].from}
             /\ G[i].kind = "for" => /\ B[G[i].next].label = "for.inc"
                                     /\ B[G[i].join].label = "for.exit"
                                     /\ B[G[i].from].label = "for.cond"
                                     /\ B[G[i].next].fn = G[1].fn
                                     /\ B[G[i].from].fn = G[1].fn
  <2>1. CASE i \in 1..Len(F)
    <3>1. G[i] = F[i]
      BY <1>1, <2>1 DEF G
    <3> QED
      BY <1>3, <2>1, <3>1 DEF Laid
  <2>2. CASE i = Len(F) + 1
    <3>1. G[i] = x
      BY <1>1, <2>2 DEF G
    <3> QED
      BY <1>3, <3>1
  <2> QED
    BY <1>1, <1>2, <2>1, <2>2 DEF G
<1> QED
  BY <1>4 DEF Laid, G

LEMMA LaidStays ==
  ASSUME WellFormed, Flow, TypeOK', NEW cur, NEW J, Grows(cur, J),
         NEW F \in Seq(Frames), FramesPlaced(F, blocks), Laid(F, blocks),
         F # <<>> => F[1].fn = cur,
         \A i \in 1..Len(F) : F[i].kind \in {"then", "else"} => F[i].join \notin J
  PROVE  Laid(F, blocks')
<1>1. TypeOK /\ Placed /\ Laid(frames, blocks)
  BY DEF WellFormed, Flow
<1>2. Len(blocks) \in Nat /\ Len(blocks') \in Nat /\ Len(blocks) <= Len(blocks') /\ cur # 0
  BY <1>1 DEF TypeOK, Grows
<1>3. \A b \in 1..Len(blocks) : b \in 1..Len(blocks')
  BY <1>2
<1>4. \A b \in 1..Len(blocks) :
        /\ blocks'[b].label = blocks[b].label
        /\ blocks[b].fn # 0 => blocks'[b].fn = blocks[b].fn
  BY DEF Grows, Like
<1> SUFFICES ASSUME NEW i \in 1..Len(F)
             PROVE  /\ F[i].kind = "func" => F[i].next = 0 /\ F[i].join = 0
                    /\ F[i].kind = "then" => /\ blocks'[F[i].next].label = "else"
                                             /\ blocks'[F[i].join].label = "ifcont"
                                             /\ Preds(blocks', F[i].join) = {}
                    /\ F[i].kind = "else" => /\ F[i].next = 0
                                             /\ blocks'[F[i].join].label = "ifcont"
                                             /\ Preds(blocks', F[i].join) = {F[i].from}
                    /\ F[i].kind = "for" => /\ blocks'[F[i].next].label = "for.inc"
                                            /\ blocks'[F[i].join].label = "for.exit"
                                            /\ blocks'[F[i].from].label = "for.cond"
                                            /\ blocks'[F[i].next].fn = F[1].fn
                                            /\ blocks'[F[i].from].fn = F[1].fn
  BY DEF Laid
<1>5. F[1].fn = cur
  <2>1. F # <<>>
    OBVIOUS
  <2> QED
    BY <2>1
<1>6. CASE F[i].kind = "func"
  BY <1>6 DEF Laid
<1>7. CASE F[i].kind = "for"
  <2>1. /\ F[i].next \in 1..Len(blocks) /\ F[i].join \in 1..Len(blocks)
        /\ F[i].from \in 1..Len(blocks)
    BY <1>7 DEF FramesPlaced
  <2>2. /\ blocks[F[i].next].label = "for.inc" /\ blocks[F[i].join].label = "for.exit"
        /\ blocks[F[i].from].label = "for.cond"
        /\ blocks[F[i].next].fn = cur /\ blocks[F[i].from].fn = cur
    BY <1>5, <1>7 DEF Laid
  <2> QED
    BY <1>2, <1>4, <1>5, <1>7, <2>1, <2>2
<1>8. CASE F[i].kind \in {"then", "else"}
  <2>1. F[i].join \in 1..Len(blocks) /\ F[i].join \notin J
    BY <1>8 DEF FramesPlaced
  <2>2. blocks[F[i].join].label = "ifcont"
    BY <1>8 DEF Laid
  <2>3. blocks'[F[i].join].label = "ifcont" /\ F[i].join \in 1..Len(blocks')
    BY <1>3, <1>4, <2>1, <2>2
  <2>4. Preds(blocks', F[i].join) = Preds(blocks, F[i].join) \cup {}
    BY <2>1, <2>3, PredsStay
  <2>5. CASE F[i].kind = "then"
    <3>1. /\ F[i].next \in 1..Len(blocks) /\ blocks[F[i].next].label = "else"
          /\ Preds(blocks, F[i].join) = {}
      BY <2>5 DEF FramesPlaced, Laid
    <3> QED
      BY <1>4, <2>3, <2>4, <2>5, <3>1
  <2>6. CASE F[i].kind = "else"
    <3>1. F[i].next = 0 /\ Preds(blocks, F[i].join) = {F[i].from}
      BY <2>6 DEF Laid
    <3> QED
      BY <2>3, <2>4, <2>6, <3>1
  <2> QED
    BY <1>8, <2>5, <2>6
<1>9. F[i].kind \in {"func", "then", "else", "for"}
  <2>1. F[i] \in Frames
    OBVIOUS
  <2> QED
    BY <2>1 DEF Frames
<1> QED
  BY <1>6, <1>7, <1>8, <1>9

LEMMA FlowStays ==
  ASSUME WellFormed, TypeOK', Placed', Flow, Phis, FnsStand, NEW cur, NEW J, Grows(cur, J),
         Distinct(frames'), Laid(frames', blocks'), frames' # <<>> => ip' \notin Waiting(frames'),
         frames = <<>> /\ frames' # <<>> => fns'[cur].state = "defined",
         \A j \in J : j \notin Waiting(frames') =>
           /\ blocks'[j].phi = Preds(blocks', j)
           /\ Cardinality(Preds(blocks', j)) = 2,
         \A j \in J : blocks[j].label = "ifcont",
         \A j \in J : j \in Waiting(frames') => blocks'[j].phi = blocks[j].phi
  PROVE  Flow' /\ Phis' /\ Steady
<1>1. Edges'
  BY EdgesStay
<1>2. Filling'
  BY FillingStays
<1>3. Phis'
  BY PhisStay
<1>4. Underway'
  <2> SUFFICES ASSUME frames' # <<>>
               PROVE  ip' \notin Waiting(frames') /\ fns'[frames'[1].fn].state = "defined"
    BY DEF Underway, Waiting, Pending
  <2>1. /\ frames'[1].fn = cur
        /\ frames # <<>> => frames[1].fn = cur
    BY DEF Grows
  <2> QED
    BY <2>1 DEF Flow, Underway, FnsStand
<1>5. Distinct(frames)' /\ Laid(frames, blocks)'
  BY DEF Distinct, Laid, Preds, Targets, Pending
<1>6. Steady
  <2>1. Len(blocks) <= Len(blocks')
    BY DEF Grows
  <2>2. \A b \in 1..Len(blocks) : b \notin Unfilled => Like(blocks'[b], blocks[b])
    BY DEF Grows
  <2>3. \A b \in Unfilled : /\ blocks'[b].label = blocks[b].label
                            /\ blocks[b].fn \in {0, blocks'[b].fn}
    BY DEF Grows
  <2> QED
    BY <2>1, <2>2, <2>3 DEF Steady, Like
<1> QED
  BY <1>1, <1>2, <1>3, <1>4, <1>5, <1>6 DEF Flow

LEMMA StaysFlow ==
  ASSUME WellFormed, TypeOK', Placed', Flow, Phis, FnsStand, Stays
  PROVE  Flow' /\ Phis' /\ Steady
<1> DEFINE n == Len(blocks)
           cur == IF frames = <<>> THEN 1 ELSE frames[1].fn
<1>1. TypeOK /\ Placed /\ Distinct(frames) /\ Laid(frames, blocks) /\ Underway /\ Filling
  BY DEF WellFormed, Flow
<1>2. /\ Len(blocks') = n /\ ip' = ip /\ Alike(frames', frames)
      /\ \A b \in 1..n : Like(blocks'[b], blocks[b])
  BY DEF Stays
<1>3. n \in Nat /\ frames \in Seq(Frames) /\ blocks \in Seq(Blocks) /\ Len(frames) \in Nat
      /\ frames' \in Seq(Frames)
  BY <1>1 DEF TypeOK
<1>4. Unfilled \subseteq 1..n
  BY <1>1, UnfilledThere
<1>5. Waiting(frames') = Waiting(frames) /\ Distinct(frames') /\ Laid(frames', blocks)
  BY <1>1, <1>2, <1>3, WaitingSame, LaidAlike
<1>6. (frames' = <<>>) = (frames = <<>>)
  BY <1>2, <1>3 DEF Alike
<1>7. Unfilled' = Unfilled
  BY <1>2, <1>5, <1>6 DEF Unfilled, Waiting, Pending
<1>8. Touched = Unfilled
  BY <1>2, <1>3 DEF Touched
<1>9. /\ cur # 0
      /\ frames # <<>> => frames[1].fn = cur /\ frames'[1].fn = cur
  <2>1. ASSUME frames # <<>> PROVE cur = frames[1].fn /\ cur # 0 /\ frames'[1].fn = cur
    <3>1. CurrentFn \in 1..MaxFns /\ CurrentFn = frames[1].fn /\ MaxFns \in Nat
      BY <1>1, <2>1, AtWork, BoundsAssumption
    <3>2. 1 \in 1..Len(frames)
      BY <1>3, <2>1
    <3> QED
      BY <1>2, <2>1, <3>1, <3>2 DEF Alike
  <2> QED
    BY <2>1
<1> HIDE DEF cur
<1>10. \A b \in Touched : Drawn(b, cur, {})
  <2> SUFFICES ASSUME NEW b \in Touched PROVE Drawn(b, cur, {})
    OBVIOUS
  <2>1. frames # <<>> /\ b \in Unfilled /\ b \in Unfilled' /\ Like(blocks'[b], blocks[b])
    BY <1>2, <1>4, <1>7, <1>8 DEF Unfilled
  <2> QED
    BY <1>1, <1>9, <2>1, WaitingDrawn
<1>11. (n + 1)..Len(blocks') = {} /\ n <= Len(blocks')
  BY <1>2, <1>3
<1>12. Grows(cur, {})
  <2>1. \A b \in Unfilled : /\ blocks'[b].label = blocks[b].label
                            /\ blocks[b].fn \in {0, blocks'[b].fn}
                            /\ blocks'[b].phi = blocks[b].phi
    BY <1>2, <1>4 DEF Like
  <2> QED
    BY <1>2, <1>5, <1>6, <1>7, <1>8, <1>9, <1>10, <1>11, <2>1 DEF Grows
<1>13. Laid(frames', blocks')
  <2>1. \A j \in 1..Len(frames) : frames[j].join \notin {}
    OBVIOUS
  <2>2. Laid(frames, blocks')
    BY <1>1, <1>3, <1>9, <1>12, <2>1, LaidStays DEF Placed
  <2> QED
    BY <1>2, <1>3, <2>2, LaidAlike
<1>14. frames' # <<>> => ip' \notin Waiting(frames')
  BY <1>1, <1>2, <1>5, <1>6 DEF Underway
<1>15. frames = <<>> /\ frames' # <<>> => fns'[cur].state = "defined"
  BY <1>6
<1> QED
  BY <1>5, <1>12, <1>13, <1>14, <1>15, FlowStays

LEMMA ReturnedFlow ==
  ASSUME WellFormed, TypeOK', Placed', Flow, Phis, FnsStand, Returned
  PROVE  Flow' /\ Phis' /\ Steady
<1> DEFINE n == Len(blocks)
           cur == frames[1].fn
           W == Waiting(frames)
<1>1. TypeOK /\ Placed /\ Distinct(frames) /\ Laid(frames, blocks) /\ Underway /\ Filling
  BY DEF WellFormed, Flow
<1>2. /\ frames # <<>> /\ Len(blocks') = n + 2 /\ ip' = n + 2 /\ Alike(frames', frames)
      /\ Ended(blocks'[ip], blocks[ip], {n + 1})
      /\ Made(blocks'[n + 1], CurrentFn, "ret_enter", <<{}, {n + 2}>>)
      /\ Made(blocks'[n + 2], CurrentFn, "ret_exit", <<>>)
      /\ \A b \in 1..n : b # ip => Like(blocks'[b], blocks[b])
  BY DEF Returned
<1>3. /\ n \in Nat /\ frames \in Seq(Frames) /\ ip \in 1..n /\ Len(frames) \in Nat
      /\ CurrentFn = cur /\ cur # 0 /\ blocks[ip].fn = cur /\ frames' \in Seq(Frames)
  <2>1. frames' \in Seq(Frames)
    BY DEF TypeOK
  <2>2. /\ n \in Nat /\ frames \in Seq(Frames) /\ ip \in 1..n
        /\ CurrentFn = cur /\ blocks[ip].fn = cur /\ CurrentFn \in 1..MaxFns
    BY <1>1, <1>2, AtWork
  <2> HIDE DEF n, cur
  <2>3. cur # 0
    BY <2>2, BoundsAssumption
  <2> QED
    BY <2>1, <2>2, <2>3
<1>4. W \subseteq 1..n /\ Unfilled = {ip} \cup W /\ ip \notin W
  BY <1>1, <1>2, UnfilledThere DEF Underway
<1>5. Waiting(frames') = W /\ Distinct(frames')
  BY <1>1, <1>2, <1>3, WaitingSame
<1>6. frames' # <<>> /\ frames'[1].fn = cur
  BY <1>2, <1>3 DEF Alike
<1>7. Unfilled' = {n + 2} \cup W
  BY <1>2, <1>5, <1>6 DEF Unfilled, Waiting, Pending
<1>8. Touched = {ip, n + 1, n + 2} \cup W
  <2>1. (n + 1)..(n + 2) = {n + 1, n + 2}
    BY <1>3
  <2> QED
    BY <1>2, <1>4, <2>1 DEF Touched
<1>9. /\ ip \notin {n + 1, n + 2} /\ n + 1 # n + 2 /\ n + 1 \notin W /\ n + 2 \notin W
      /\ n + 1 \in 1..(n + 2) /\ n + 2 \in 1..(n + 2) /\ (n + 1)..(n + 2) = {n + 1, n + 2}
      /\ n <= n + 2
  BY <1>3, <1>4
<1> HIDE DEF n, cur, W
<1>10. Drawn(ip, cur, {})
  <2>1. /\ blocks'[ip].fn = cur /\ blocks'[ip].terms = <<{n + 1}>> /\ ip \notin Unfilled'
    BY <1>2, <1>3, <1>4, <1>7, <1>9 DEF Ended
  <2>2. \A c \in {n + 1} : /\ c \in 1..Len(blocks') /\ blocks'[c].fn \in {0, cur}
                           /\ blocks'[c].label # "ifcont"
    BY <1>2, <1>3, <1>9 DEF Made
  <2> QED
    BY <1>3, <2>1, <2>2, EndedDrawn
<1>11. Drawn(n + 1, cur, {})
  <2>1. Targets(blocks'[n + 1]) = {} \cup {n + 2}
    BY <1>2, TargetsFew DEF Made
  <2>2. n + 1 \notin Unfilled'
    BY <1>7, <1>9
  <2>3. /\ blocks'[n + 1].fn = cur /\ blocks'[n + 1].label = "ret_enter"
        /\ blocks'[n + 1].terms = <<{}, {n + 2}>>
        /\ blocks'[n + 2].fn = cur /\ blocks'[n + 2].label = "ret_exit"
    BY <1>2, <1>3 DEF Made
  <2> QED
    BY <1>2, <1>3, <1>9, <2>1, <2>2, <2>3 DEF Drawn
<1>12. Drawn(n + 2, cur, {})
  BY <1>2, <1>3, <1>7, MadeDrawn
<1>13. \A b \in W : Drawn(b, cur, {})
  <2> SUFFICES ASSUME NEW b \in W PROVE Drawn(b, cur, {})
    OBVIOUS
  <2>1. b \in Unfilled /\ b \in Unfilled' /\ Like(blocks'[b], blocks[b])
    BY <1>2, <1>4, <1>7
  <2> QED
    BY <1>1, <1>2, <1>3, <2>1, WaitingDrawn DEF cur
<1>14. Grows(cur, {})
  <2>1. \A b \in Unfilled : /\ blocks'[b].label = blocks[b].label
                            /\ blocks[b].fn \in {0, blocks'[b].fn}
                            /\ blocks'[b].phi = blocks[b].phi
    BY <1>2, <1>4 DEF Like, Ended
  <2>2. \A b \in Touched : Drawn(b, cur, {})
    BY <1>8, <1>10, <1>11, <1>12, <1>13
  <2>3. \A b \in (Len(blocks) + 1)..Len(blocks') :
          blocks'[b].phi = {} /\ blocks'[b].label # "ifcont"
    BY <1>2, <1>9 DEF Made, n
  <2>4. \A b \in 1..Len(blocks) : b \notin Unfilled => Like(blocks'[b], blocks[b])
    BY <1>2, <1>4 DEF n
  <2>5. Unfilled' \subseteq Touched
    BY <1>7, <1>8
  <2>6. frames[1].fn = cur /\ Len(blocks) <= Len(blocks')
    BY <1>2, <1>9 DEF cur, n
  <2> QED
    BY <1>3, <1>5, <1>6, <2>1, <2>2, <2>3, <2>4, <2>5, <2>6 DEF Grows, W
<1>15. Laid(frames', blocks')
  <2>1. \A j \in 1..Len(frames) : frames[j].join \notin {}
    OBVIOUS
  <2>2. Laid(frames, blocks')
    BY <1>1, <1>3, <1>14, <2>1, LaidStays DEF Placed, cur
  <2> QED
    BY <1>2, <1>3, <2>2, LaidAlike
<1>16. ip' \notin Waiting(frames')
  BY <1>2, <1>5, <1>9
<1> QED
  BY <1>2, <1>5, <1>14, <1>15, <1>16, FlowStays

LEMMA BranchOpensFlow ==
  ASSUME WellFormed, TypeOK', Placed', Flow, Phis, FnsStand, BranchOpens
  PROVE  Flow' /\ Phis' /\ Steady
<1> DEFINE n == Len(blocks)
           cur == frames[1].fn
           W == Waiting(frames)
           x == Frame("then", CurrentFn, n + 2, n + 3, 0, "none")
<1>1. TypeOK /\ Placed /\ Distinct(frames) /\ Laid(frames, blocks) /\ Underway /\ Filling
  BY DEF WellFormed, Flow
<1>2. /\ frames # <<>> /\ Len(blocks') = n + 3 /\ n + 3 <= MaxBlocks /\ ip' = n + 1
      /\ frames' = Append(frames, x)
      /\ Ended(blocks'[ip], blocks[ip], {n + 1, n + 2})
      /\ Made(blocks'[n + 1], CurrentFn, "then", <<>>)
      /\ Made(blocks'[n + 2], 0, "else", <<>>)
      /\ Made(blocks'[n + 3], 0, "ifcont", <<>>)
      /\ \A b \in 1..n : b # ip => Like(blocks'[b], blocks[b])
  BY DEF BranchOpens
<1>3. /\ n \in Nat /\ frames \in Seq(Frames) /\ ip \in 1..n /\ Len(frames) \in Nat
      /\ CurrentFn = cur /\ cur # 0 /\ blocks[ip].fn = cur /\ CurrentFn \in 1..MaxFns
      /\ MaxBlocks \in Nat
  <2>1. /\ n \in Nat /\ frames \in Seq(Frames) /\ ip \in 1..n /\ MaxBlocks \in Nat
        /\ CurrentFn = cur /\ blocks[ip].fn = cur /\ CurrentFn \in 1..MaxFns
    BY <1>1, <1>2, AtWork
  <2> HIDE DEF n, cur
  <2>2. cur # 0
    BY <2>1, BoundsAssumption
  <2> QED
    BY <2>1, <2>2
<1>4. W \subseteq 1..n /\ Unfilled = {ip} \cup W /\ ip \notin W
  BY <1>1, <1>2, UnfilledThere DEF Underway
<1>5. x \in Frames /\ x.kind = "then" /\ x.next = n + 2 /\ x.join = n + 3
  <2>1. 0 \in 0..MaxBlocks /\ n + 2 \in 0..MaxBlocks /\ n + 3 \in 0..MaxBlocks
    BY <1>2, <1>3
  <2>2. CurrentFn \in 1..MaxFns
    BY <1>3
  <2> HIDE DEF n
  <2> QED
    BY <2>1, <2>2 DEF Frame, Frames
<1>6. Pending(x) = {n + 2, n + 3}
  BY <1>3, <1>5 DEF Pending
<1> HIDE DEF x
<1>7. Pending(x) \cap W = {}
  BY <1>3, <1>4, <1>6
<1>8. Waiting(frames') = W \cup {n + 2, n + 3} /\ Distinct(frames')
  BY <1>1, <1>2, <1>3, <1>5, <1>6, <1>7, WaitingNext
<1>9. frames' # <<>> /\ frames'[1].fn = cur
  <2>1. /\ frames' = Append(frames, x) /\ frames \in Seq(Frames)
        /\ Len(frames) \in Nat /\ frames # <<>>
    BY <1>2, <1>3
  <2>2. frames' # <<>> /\ frames'[1] = frames[1]
    BY ONLY <2>1
  <2> QED
    BY <2>2
<1>10. Unfilled' = {n + 1, n + 2, n + 3} \cup W
  BY <1>2, <1>8, <1>9 DEF Unfilled, Waiting, Pending
<1>11. Touched = {ip, n + 1, n + 2, n + 3} \cup W
  <2>1. (n + 1)..(n + 3) = {n + 1, n + 2, n + 3}
    BY <1>3
  <2> QED
    BY <1>2, <1>4, <2>1 DEF Touched
<1>12. /\ ip \notin {n + 1, n + 2, n + 3} /\ n + 1 # n + 2 /\ n + 1 # n + 3 /\ n + 2 # n + 3
       /\ n + 1 \notin W /\ n + 2 \notin W /\ n + 3 \notin W /\ n + 3 \notin 1..n
       /\ n + 1 \in 1..(n + 3) /\ n + 2 \in 1..(n + 3) /\ n + 3 \in 1..(n + 3)
       /\ (n + 1)..(n + 3) = {n + 1, n + 2, n + 3} /\ n <= n + 3
  BY <1>3, <1>4
<1> HIDE DEF n, cur, W
<1>13. Drawn(ip, cur, {})
  <2>1. /\ blocks'[ip].fn = cur /\ blocks'[ip].terms = <<{n + 1, n + 2}>> /\ ip \notin Unfilled'
    BY <1>2, <1>3, <1>4, <1>10, <1>12 DEF Ended
  <2>2. \A c \in {n + 1, n + 2} : /\ c \in 1..Len(blocks') /\ blocks'[c].fn \in {0, cur}
                                  /\ blocks'[c].label # "ifcont"
    BY <1>2, <1>3, <1>12 DEF Made
  <2> DEFINE S == {n + 1, n + 2}
  <2>3. PICK b : b = ip
    OBVIOUS
  <2>4. /\ blocks'[b].fn = cur /\ blocks'[b].terms = <<S>> /\ b \notin Unfilled'
        /\ cur # 0
    BY <1>3, <2>1, <2>3
  <2>5. \A c \in S : /\ c \in 1..Len(blocks') /\ blocks'[c].fn \in {0, cur}
                     /\ blocks'[c].label = "ifcont" => b = ip /\ c \in {}
    BY <2>2
  <2> HIDE DEF S
  <2>6. Drawn(b, cur, {})
    BY <2>4, <2>5, EndedDrawn
  <2> QED
    BY <2>3, <2>6
<1>14. Drawn(n + 1, cur, {}) /\ Drawn(n + 2, cur, {}) /\ Drawn(n + 3, cur, {})
  <2>1. n + 1 \in Unfilled' /\ n + 2 \in Unfilled' /\ n + 3 \in Unfilled'
    BY <1>10
  <2> QED
    BY <1>2, <1>3, <2>1, MadeDrawn
<1>15. \A b \in W : Drawn(b, cur, {})
  <2> SUFFICES ASSUME NEW b \in W PROVE Drawn(b, cur, {})
    OBVIOUS
  <2>1. b \in Unfilled /\ b \in Unfilled' /\ Like(blocks'[b], blocks[b])
    BY <1>2, <1>4, <1>10
  <2> QED
    BY <1>1, <1>2, <1>3, <2>1, WaitingDrawn DEF cur
<1>16. Grows(cur, {})
  <2>1. \A b \in Unfilled : /\ blocks'[b].label = blocks[b].label
                            /\ blocks[b].fn \in {0, blocks'[b].fn}
                            /\ blocks'[b].phi = blocks[b].phi
    BY <1>2, <1>4 DEF Like, Ended
  <2>2. \A b \in Touched : Drawn(b, cur, {})
    BY <1>11, <1>13, <1>14, <1>15
  <2>3. \A b \in (Len(blocks) + 1)..Len(blocks') :
          blocks'[b].phi = {} /\ (blocks'[b].label = "ifcont" => b \in Waiting(frames'))
    BY <1>2, <1>8, <1>12 DEF Made, n
  <2>4. \A b \in 1..Len(blocks) : b \notin Unfilled => Like(blocks'[b], blocks[b])
    BY <1>2, <1>4 DEF n
  <2>5. Unfilled' \subseteq Touched
    BY <1>10, <1>11
  <2>6. frames[1].fn = cur /\ Len(blocks) <= Len(blocks')
    BY <1>2, <1>12 DEF cur, n
  <2>7. \A b \in Waiting(frames) : b \in Waiting(frames')
    BY <1>8 DEF W
  <2> QED
    BY <1>3, <1>9, <2>1, <2>2, <2>3, <2>4, <2>5, <2>6, <2>7 DEF Grows
<1>17. Laid(frames', blocks')
  <2>1. \A j \in 1..Len(frames) : frames[j].join \notin {}
    OBVIOUS
  <2>2. Laid(frames, blocks')
    BY <1>1, <1>3, <1>16, <2>1, LaidStays DEF Placed, cur
  <2>3. blocks'[n + 2].label = "else" /\ blocks'[n + 3].label = "ifcont"
    BY <1>2 DEF Made
  <2>4. n + 3 \in 1..Len(blocks') /\ n + 3 \notin 1..Len(blocks)
    BY <1>2, <1>12 DEF n
  <2>5. Preds(blocks', n + 3) = {}
    <3> DEFINE c == n + 3
    <3>1. c \in 1..Len(blocks') /\ c \notin 1..Len(blocks) /\ blocks'[c].label = "ifcont"
      BY <2>3, <2>4
    <3> HIDE DEF c
    <3>2. Preds(blocks', c) = {}
      BY <1>16, <3>1, PredsStay
    <3> QED
      BY <3>2 DEF c
  <2> QED
    BY <1>2, <1>3, <1>5, <2>2, <2>3, <2>5, LaidNext
<1>18. ip' \notin Waiting(frames')
  BY <1>2, <1>8, <1>12
<1> QED
  BY <1>2, <1>8, <1>16, <1>17, <1>18, FlowStays

LEMMA LoopOpensFlow ==
  ASSUME WellFormed, TypeOK', Placed', Flow, Phis, FnsStand, LoopOpens
  PROVE  Flow' /\ Phis' /\ Steady
<1> DEFINE n == Len(blocks)
           cur == frames[1].fn
           W == Waiting(frames)
           x == Frame("for", CurrentFn, n + 3, n + 4, n + 1, "none")
<1>1. TypeOK /\ Placed /\ Distinct(frames) /\ Laid(frames, blocks) /\ Underway /\ Filling
  BY DEF WellFormed, Flow
<1>2. /\ frames # <<>> /\ Len(blocks') = n + 4 /\ n + 4 <= MaxBlocks /\ ip' = n + 2
      /\ frames' = Append(frames, x)
      /\ Ended(blocks'[ip], blocks[ip], {n + 1})
      /\ Made(blocks'[n + 1], CurrentFn, "for.cond", <<{n + 2, n + 4}>>)
      /\ Made(blocks'[n + 2], CurrentFn, "for.body", <<>>)
      /\ Made(blocks'[n + 3], CurrentFn, "for.inc", <<>>)
      /\ Made(blocks'[n + 4], CurrentFn, "for.exit", <<>>)
      /\ \A b \in 1..n : b # ip => Like(blocks'[b], blocks[b])
  BY DEF LoopOpens
<1>3. /\ n \in Nat /\ frames \in Seq(Frames) /\ ip \in 1..n /\ Len(frames) \in Nat
      /\ CurrentFn = cur /\ cur # 0 /\ blocks[ip].fn = cur /\ CurrentFn \in 1..MaxFns
      /\ MaxBlocks \in Nat
  <2>1. /\ n \in Nat /\ frames \in Seq(Frames) /\ ip \in 1..n /\ MaxBlocks \in Nat
        /\ CurrentFn = cur /\ blocks[ip].fn = cur /\ CurrentFn \in 1..MaxFns
    BY <1>1, <1>2, AtWork
  <2> HIDE DEF n, cur
  <2>2. cur # 0
    BY <2>1, BoundsAssumption
  <2> QED
    BY <2>1, <2>2
<1>4. W \subseteq 1..n /\ Unfilled = {ip} \cup W /\ ip \notin W
  BY <1>1, <1>2, UnfilledThere DEF Underway
<1>5. /\ x \in Frames /\ x.kind = "for" /\ x.next = n + 3 /\ x.join = n + 4
      /\ x.from = n + 1
  <2>1. n + 3 \in 0..MaxBlocks /\ n + 4 \in 0..MaxBlocks /\ n + 1 \in 0..MaxBlocks
    BY <1>2, <1>3
  <2> HIDE DEF n
  <2> QED
    BY <1>3, <2>1 DEF Frame, Frames
<1>6. Pending(x) = {n + 3, n + 4}
  BY <1>3, <1>5 DEF Pending
<1> HIDE DEF x
<1>7. Pending(x) \cap W = {}
  BY <1>3, <1>4, <1>6
<1>8. Waiting(frames') = W \cup {n + 3, n + 4} /\ Distinct(frames')
  BY <1>1, <1>2, <1>3, <1>5, <1>6, <1>7, WaitingNext
<1>9. frames' # <<>> /\ frames'[1].fn = cur
  <2>1. /\ frames' = Append(frames, x) /\ frames \in Seq(Frames)
        /\ Len(frames) \in Nat /\ frames # <<>>
    BY <1>2, <1>3
  <2>2. frames' # <<>> /\ frames'[1] = frames[1]
    BY ONLY <2>1
  <2> QED
    BY <2>2
<1>10. Unfilled' = {n + 2, n + 3, n + 4} \cup W
  BY <1>2, <1>8, <1>9 DEF Unfilled, Waiting, Pending
<1>11. Touched = {ip, n + 1, n + 2, n + 3, n + 4} \cup W
  <2>1. (n + 1)..(n + 4) = {n + 1, n + 2, n + 3, n + 4}
    <3>1. n \in Nat
      BY <1>3
    <3> HIDE DEF n
    <3> QED
      BY ONLY <3>1
  <2> QED
    BY <1>2, <1>4, <2>1 DEF Touched
<1>12. /\ ip \notin {n + 1, n + 2, n + 3, n + 4}
       /\ n + 1 \notin {n + 2, n + 3, n + 4} /\ n + 2 \notin {n + 3, n + 4}
       /\ n + 1 \notin W /\ n + 2 \notin W
       /\ n + 1 \in 1..(n + 4) /\ n + 2 \in 1..(n + 4) /\ n + 4 \in 1..(n + 4)
       /\ (n + 1)..(n + 4) = {n + 1, n + 2, n + 3, n + 4} /\ n <= n + 4
  <2> HIDE DEF n
  <2>1. \A i \in 1..4 : n + i \notin 1..n /\ n + i \in 1..(n + 4)
    BY <1>3
  <2>2. 1 \in 1..4 /\ 2 \in 1..4 /\ 3 \in 1..4 /\ 4 \in 1..4
    OBVIOUS
  <2>3. /\ ip # n + 1 /\ ip # n + 2 /\ ip # n + 3 /\ ip # n + 4
        /\ n + 1 \notin W /\ n + 2 \notin W
    BY <1>3, <1>4, <2>1, <2>2
  <2>4. n + 1 \notin {n + 2, n + 3, n + 4} /\ n + 2 \notin {n + 3, n + 4} /\ n <= n + 4
    BY <1>3
  <2>5. (n + 1)..(n + 4) = {n + 1, n + 2, n + 3, n + 4}
    BY <1>3
  <2> QED
    BY <2>1, <2>2, <2>3, <2>4, <2>5
<1> HIDE DEF n, cur, W
<1>13. Drawn(ip, cur, {})
  <2>1. /\ blocks'[ip].fn = cur /\ blocks'[ip].terms = <<{n + 1}>> /\ ip \notin Unfilled'
    BY <1>2, <1>3, <1>4, <1>10, <1>12 DEF Ended
  <2>2. \A c \in {n + 1} : /\ c \in 1..Len(blocks') /\ blocks'[c].fn \in {0, cur}
                           /\ blocks'[c].label # "ifcont"
    BY <1>2, <1>3, <1>12 DEF Made
  <2> QED
    BY <1>3, <2>1, <2>2, EndedDrawn
<1>14. Drawn(n + 1, cur, {})
  <2>1. /\ blocks'[n + 1].fn = cur /\ blocks'[n + 1].terms = <<{n + 2, n + 4}>>
        /\ n + 1 \notin Unfilled'
    BY <1>2, <1>3, <1>10, <1>12 DEF Made
  <2>2. \A c \in {n + 2, n + 4} : /\ c \in 1..Len(blocks') /\ blocks'[c].fn \in {0, cur}
                                  /\ blocks'[c].label # "ifcont"
    BY <1>2, <1>3, <1>12 DEF Made
  <2> DEFINE k == n + 1
             S == {n + 2, n + 4}
  <2>3. /\ k \notin Unfilled' /\ blocks'[k].fn = cur /\ blocks'[k].terms = <<S>>
        /\ \A c \in S : /\ c \in 1..Len(blocks') /\ blocks'[c].fn \in {0, cur}
                        /\ blocks'[c].label # "ifcont"
    BY <2>1, <2>2
  <2> HIDE DEF k, S
  <2>4. Drawn(k, cur, {})
    BY <1>3, <2>3, EndedDrawn
  <2> QED
    BY <2>4 DEF k
<1>15. Drawn(n + 2, cur, {}) /\ Drawn(n + 3, cur, {}) /\ Drawn(n + 4, cur, {})
  <2>1. n + 2 \in Unfilled' /\ n + 3 \in Unfilled' /\ n + 4 \in Unfilled'
    BY <1>10
  <2> QED
    BY <1>2, <1>3, <2>1, MadeDrawn
<1>16. \A b \in W : Drawn(b, cur, {})
  <2> SUFFICES ASSUME NEW b \in W PROVE Drawn(b, cur, {})
    OBVIOUS
  <2>1. b \in Unfilled /\ b \in Unfilled' /\ Like(blocks'[b], blocks[b])
    BY <1>2, <1>4, <1>10
  <2> QED
    BY <1>1, <1>2, <1>3, <2>1, WaitingDrawn DEF cur
<1>17. Grows(cur, {})
  <2>1. \A b \in Unfilled : /\ blocks'[b].label = blocks[b].label
                            /\ blocks[b].fn \in {0, blocks'[b].fn}
                            /\ blocks'[b].phi = blocks[b].phi
    BY <1>2, <1>4 DEF Like, Ended
  <2>2. \A b \in Touched : Drawn(b, cur, {})
    BY <1>11, <1>13, <1>14, <1>15, <1>16
  <2>3. \A b \in (Len(blocks) + 1)..Len(blocks') :
          blocks'[b].phi = {} /\ blocks'[b].label # "ifcont"
    BY <1>2, <1>12 DEF Made, n
  <2>4. \A b \in 1..Len(blocks) : b \notin Unfilled => Like(blocks'[b], blocks[b])
    BY <1>2, <1>4 DEF n
  <2>5. Unfilled' \subseteq Touched
    BY <1>10, <1>11
  <2>6. frames[1].fn = cur /\ Len(blocks) <= Len(blocks')
    BY <1>2, <1>12 DEF cur, n
  <2>7. \A b \in Waiting(frames) : b \in Waiting(frames')
    BY <1>8 DEF W
  <2> QED
    BY <1>3, <1>9, <2>1, <2>2, <2>3, <2>4, <2>5, <2>6, <2>7 DEF Grows
<1>18. Laid(frames', blocks')
  <2>1. \A j \in 1..Len(frames) : frames[j].join \notin {}
    OBVIOUS
  <2>2. Laid(frames, blocks')
    BY <1>1, <1>3, <1>17, <2>1, LaidStays DEF Placed, cur
  <2>3. /\ blocks'[n + 3].label = "for.inc" /\ blocks'[n + 4].label = "for.exit"
        /\ blocks'[n + 1].label = "for.cond"
        /\ blocks'[n + 3].fn = frames[1].fn /\ blocks'[n + 1].fn = frames[1].fn
    BY <1>2, <1>3 DEF Made, cur
  <2> QED
    BY <1>2, <1>3, <1>5, <2>2, <2>3, LaidNext
<1>19. ip' \notin Waiting(frames')
  BY <1>2, <1>3, <1>8, <1>12
<1> QED
  BY <1>2, <1>8, <1>17, <1>18, <1>19, FlowStays

(* The frame of a branch or loop that ends, and those below it.            *)
LEMMA LastFrame ==
  ASSUME WellFormed, Flow, frames # <<>>, Last(frames).kind # "func",
         NEW F, F = Front(frames), NEW top, top = Last(frames)
  PROVE  /\ Len(frames) >= 2 /\ top \in Frames /\ top.fn = frames[1].fn
         /\ F \in Seq(Frames) /\ F # <<>> /\ F[1] = frames[1] /\ Len(F) \in Nat
         /\ FramesPlaced(F, blocks) /\ Laid(F, blocks) /\ Distinct(F)
         /\ Waiting(frames) = Waiting(F) \cup Pending(top)
         /\ Waiting(F) \cap Pending(top) = {}
         /\ \A i \in 1..Len(F) : F[i].kind \in {"then", "else"} => F[i].join \in Waiting(F)
<1>1. TypeOK /\ Placed /\ Distinct(frames) /\ Laid(frames, blocks)
  BY DEF WellFormed, Flow
<1>2. Len(frames) >= 2 /\ top \in Frames /\ top.fn = frames[1].fn
  BY <1>1, NestedFrames, AtWork
<1>3. frames \in Seq(Frames) /\ blocks \in Seq(Blocks) /\ Len(blocks) \in Nat
  BY <1>1 DEF TypeOK
<1>4. F \in Seq(Frames) /\ F # <<>> /\ F[1] = frames[1] /\ FramesPlaced(F, blocks)
  BY <1>1, <1>2, <1>3, PlacedWithout DEF Placed
<1>5. Laid(F, blocks)
  BY <1>1, <1>2, <1>3, LaidFront
<1>6. /\ Distinct(F) /\ Waiting(frames) = Waiting(F) \cup Pending(top)
      /\ Waiting(F) \cap Pending(top) = {}
  BY <1>1, <1>3, WaitingLast
<1>7. ASSUME NEW i \in 1..Len(F), F[i].kind \in {"then", "else"}
      PROVE  F[i].join \in Waiting(F)
  <2>1. F[i].join \in 1..Len(blocks)
    BY <1>4, <1>7 DEF FramesPlaced
  <2>2. F[i].join \in Pending(F[i])
    BY <1>3, <2>1 DEF Pending
  <2> QED
    BY <2>2 DEF Waiting
<1>8. Len(F) \in Nat
  BY <1>4
<1> QED
  BY <1>2, <1>4, <1>5, <1>6, <1>7, <1>8

LEMMA LastIsLaid ==
  ASSUME WellFormed, Flow, frames # <<>>, NEW top, top = Last(frames)
  PROVE  /\ top.kind = "then" => /\ blocks[top.next].label = "else"
                                 /\ blocks[top.join].label = "ifcont"
                                 /\ Preds(blocks, top.join) = {}
         /\ top.kind = "else" => /\ top.next = 0
                                 /\ blocks[top.join].label = "ifcont"
                                 /\ Preds(blocks, top.join) = {top.from}
         /\ top.kind = "for" => /\ blocks[top.next].label = "for.inc"
                                /\ blocks[top.join].label = "for.exit"
                                /\ blocks[top.from].label = "for.cond"
                                /\ blocks[top.next].fn = frames[1].fn
                                /\ blocks[top.from].fn = frames[1].fn
<1>1. frames \in Seq(Frames)
  BY DEF WellFormed, TypeOK
<1>2. Len(frames) \in 1..Len(frames) /\ top = frames[Len(frames)]
  BY <1>1 DEF Last
<1> QED
  BY <1>2 DEF Flow, Laid

LEMMA BranchTurnsFlow ==
  ASSUME WellFormed, TypeOK', Placed', Flow, Phis, FnsStand, BranchTurns
  PROVE  Flow' /\ Phis' /\ Steady
<1> DEFINE n == Len(blocks)
           cur == frames[1].fn
           top == Last(frames)
           F == Front(frames)
           x == Frame("else", top.fn, 0, top.join, ip, top.value)
<1>1. TypeOK /\ Placed /\ Distinct(frames) /\ Laid(frames, blocks) /\ Underway /\ Filling
  BY DEF WellFormed, Flow
<1>2. /\ frames # <<>> /\ top.kind = "then"
      /\ Len(blocks') = n /\ ip' = top.next /\ frames' = Append(F, x)
      /\ Ended(blocks'[ip], blocks[ip], {top.join})
      /\ Joined(blocks'[top.next], blocks[top.next], top.fn, blocks[top.next].phi)
      /\ \A b \in 1..n : b \notin {ip, top.next} => Like(blocks'[b], blocks[b])
  BY DEF BranchTurns
<1>3. /\ n \in Nat /\ frames \in Seq(Frames) /\ ip \in 1..n
      /\ cur # 0 /\ blocks[ip].fn = cur /\ cur \in 1..MaxFns
      /\ MaxBlocks \in Nat /\ n <= MaxBlocks
  BY <1>1, <1>2, AtWork, BoundsAssumption
<1>4. /\ top \in Frames /\ top.fn = cur /\ F \in Seq(Frames) /\ F # <<>> /\ F[1] = frames[1]
      /\ FramesPlaced(F, blocks) /\ Laid(F, blocks) /\ Distinct(F) /\ Len(F) \in Nat
      /\ Waiting(frames) = Waiting(F) \cup Pending(top)
      /\ Waiting(F) \cap Pending(top) = {}
      /\ \A i \in 1..Len(F) : F[i].kind \in {"then", "else"} => F[i].join \in Waiting(F)
  BY <1>2, LastFrame
<1>5. /\ blocks[top.next].label = "else" /\ blocks[top.join].label = "ifcont"
      /\ Preds(blocks, top.join) = {}
  BY <1>2, LastIsLaid
<1>6. top.next \in 1..n /\ top.join \in 1..n
  BY <1>1, <1>2, NestedFrames
<1>7. Pending(top) = {top.next, top.join} /\ top.next # top.join
  BY <1>3, <1>5, <1>6 DEF Pending
<1> HIDE DEF top, F
<1>8. /\ Waiting(frames) \subseteq 1..n /\ Unfilled = {ip} \cup Waiting(frames)
      /\ ip \notin Waiting(frames)
  BY <1>1, <1>2, UnfilledThere DEF Underway
<1>9. /\ x \in Frames /\ x.kind = "else" /\ x.next = 0 /\ x.join = top.join
      /\ x.from = ip
  <2>1. 0 \in 0..MaxBlocks /\ top.join \in 0..MaxBlocks /\ ip \in 0..MaxBlocks
    BY <1>3, <1>6
  <2>2. top.fn \in 1..MaxFns /\ top.value \in {"none", "some"}
    BY <1>4 DEF Frames
  <2> QED
    BY <2>1, <2>2 DEF Frame, Frames
<1>10. Pending(x) = {top.join}
  BY <1>3, <1>6, <1>9 DEF Pending
<1> HIDE DEF x
<1>11. Waiting(frames') = Waiting(F) \cup {top.join} /\ Distinct(frames')
  <2>1. Pending(x) \cap Waiting(F) = {}
    BY <1>4, <1>7, <1>10
  <2> QED
    BY <1>2, <1>4, <1>9, <1>10, <2>1, WaitingNext
<1>12. frames' # <<>> /\ frames'[1].fn = cur
  <2>1. Len(F) >= 1
    BY <1>4
  <2> QED
    BY <1>2, <1>4, <1>9, <2>1
<1>13. Unfilled' = Waiting(frames)
  <2>1. Unfilled' = {ip'} \cup Waiting(frames')
    BY <1>12 DEF Unfilled, Waiting, Pending
  <2> QED
    BY <1>2, <1>4, <1>7, <1>11, <2>1
<1>14. Touched = {ip} \cup Waiting(frames)
  <2>1. (n + 1)..n = {}
    BY <1>3
  <2> QED
    BY <1>2, <1>8, <2>1 DEF Touched
<1>15. top.next \in Waiting(frames) /\ top.join \in Waiting(frames)
  BY <1>4, <1>7
<1>16. blocks[top.next].terms = <<>> /\ blocks[top.next].fn \in {0, cur}
  BY <1>1, <1>8, <1>15 DEF Filling
<1>17. Like(blocks'[top.join], blocks[top.join]) /\ top.join # ip /\ top.next # ip
  BY <1>2, <1>6, <1>7, <1>8, <1>15
<1>18. \A b \in Waiting(frames) : Drawn(b, cur, {top.join})
  <2> SUFFICES ASSUME NEW b \in Waiting(frames) PROVE Drawn(b, cur, {top.join})
    OBVIOUS
  <2>1. b \in Unfilled /\ b \in Unfilled'
    BY <1>8, <1>13
  <2>2. CASE b = top.next
    <3>1. /\ blocks'[b].terms = <<>> /\ blocks'[b].fn = cur
      BY <1>2, <1>4, <1>16, <2>2 DEF Joined
    <3>2. Targets(blocks'[b]) = {} /\ Len(blocks'[b].terms) = 0
      BY <3>1, TargetsFew
    <3> QED
      BY <1>3, <2>1, <3>1, <3>2 DEF Drawn
  <2>3. CASE b # top.next
    <3>1. Like(blocks'[b], blocks[b])
      BY <1>2, <1>8, <2>3
    <3> QED
      BY <1>1, <1>2, <1>3, <2>1, <3>1, WaitingDrawn
  <2> QED
    BY <2>2, <2>3
<1>19. Drawn(ip, cur, {top.join})
  <2>1. /\ blocks'[ip].fn = cur /\ blocks'[ip].terms = <<{top.join}>> /\ ip \notin Unfilled'
    BY <1>2, <1>3, <1>8, <1>13 DEF Ended
  <2>2. Drawn(top.join, cur, {top.join})
    BY <1>15, <1>18
  <2>3. \A c \in {top.join} : c \in 1..Len(blocks') /\ blocks'[c].fn \in {0, cur}
    BY <1>2, <1>6, <2>2 DEF Drawn
  <2> QED
    BY <1>3, <2>1, <2>3, EndedDrawn
<1>20. Grows(cur, {top.join})
  <2>1. \A b \in Unfilled : /\ blocks'[b].label = blocks[b].label
                            /\ blocks[b].fn \in {0, blocks'[b].fn}
                            /\ blocks'[b].phi = blocks[b].phi
    <3> SUFFICES ASSUME NEW b \in Unfilled
                 PROVE  /\ blocks'[b].label = blocks[b].label
                        /\ blocks[b].fn \in {0, blocks'[b].fn}
                        /\ blocks'[b].phi = blocks[b].phi
      OBVIOUS
    <3>1. CASE b = top.next
      BY <1>2, <1>4, <1>16, <3>1 DEF Joined
    <3>2. CASE b = ip
      BY <1>2, <3>2 DEF Ended
    <3>3. CASE b \notin {ip, top.next}
      <4>1. b \in 1..n
        BY <1>3, <1>8
      <4> QED
        BY <1>2, <3>3, <4>1 DEF Like
    <3> QED
      BY <3>1, <3>2, <3>3
  <2>2. \A b \in Touched : Drawn(b, cur, {top.join})
    BY <1>14, <1>18, <1>19
  <2>3. (Len(blocks) + 1)..Len(blocks') = {} /\ Len(blocks) <= Len(blocks')
    BY <1>2, <1>3
  <2>4. \A b \in 1..Len(blocks) : b \notin Unfilled => Like(blocks'[b], blocks[b])
    BY <1>2, <1>8, <1>15
  <2>5. Unfilled' \subseteq Touched
    BY <1>13, <1>14
  <2>6. \A b \in Waiting(frames) :
          blocks[b].label = "ifcont" /\ b \notin Waiting(frames') => b \in {top.join}
    BY <1>4, <1>5, <1>7, <1>11
  <2>7. top.join \in Targets(blocks'[ip])
    <3>1. blocks'[ip].terms = <<{top.join}>>
      BY <1>2 DEF Ended
    <3>2. Targets(blocks'[ip]) = {top.join}
      BY <3>1, TargetsFew
    <3> QED
      BY <3>2
  <2> QED
    BY <1>3, <1>12, <1>15, <2>1, <2>2, <2>3, <2>4, <2>5, <2>6, <2>7 DEF Grows
<1>21. Laid(frames', blocks')
  <2>1. \A i \in 1..Len(F) : F[i].kind \in {"then", "else"} => F[i].join \notin {top.join}
    BY <1>4, <1>7
  <2>2. Laid(F, blocks')
    BY <1>4, <1>20, <2>1, LaidStays
  <2>3. blocks'[top.join].label = "ifcont" /\ top.join \in 1..Len(blocks')
    BY <1>2, <1>5, <1>6, <1>17 DEF Like
  <2>4. Preds(blocks', top.join) = {ip}
    BY <1>5, <1>6, <1>20, <2>3, PredsStay
  <2> QED
    BY <1>2, <1>4, <1>9, <2>2, <2>3, <2>4, LaidNext
<1>22. ip' \notin Waiting(frames')
  BY <1>2, <1>4, <1>7, <1>11
<1>23. blocks'[top.join].phi = blocks[top.join].phi /\ top.join \in Waiting(frames')
  BY <1>11, <1>17 DEF Like
<1> QED
  BY <1>2, <1>5, <1>11, <1>20, <1>21, <1>22, <1>23, FlowStays

LEMMA BranchesMeetFlow ==
  ASSUME WellFormed, TypeOK', Placed', Flow, Phis, FnsStand, BranchesMeet
  PROVE  Flow' /\ Phis' /\ Steady
<1> DEFINE n == Len(blocks)
           cur == frames[1].fn
           top == Last(frames)
           F == Front(frames)
<1>1. TypeOK /\ Placed /\ Distinct(frames) /\ Laid(frames, blocks) /\ Underway /\ Filling
  BY DEF WellFormed, Flow
<1>2. /\ frames # <<>> /\ top.kind = "else"
      /\ Len(blocks') = n /\ ip' = top.join /\ Alike(frames', F)
      /\ Ended(blocks'[ip], blocks[ip], {top.join})
      /\ Joined(blocks'[top.join], blocks[top.join], top.fn, {top.from, ip})
      /\ \A b \in 1..n : b \notin {ip, top.join} => Like(blocks'[b], blocks[b])
  BY DEF BranchesMeet
<1>3. /\ n \in Nat /\ frames \in Seq(Frames) /\ ip \in 1..n
      /\ cur # 0 /\ blocks[ip].fn = cur /\ cur \in 1..MaxFns
      /\ frames' \in Seq(Frames)
  <2>1. frames' \in Seq(Frames)
    BY DEF TypeOK
  <2>2. /\ n \in Nat /\ frames \in Seq(Frames) /\ ip \in 1..n
        /\ blocks[ip].fn = cur /\ cur \in 1..MaxFns
    BY <1>1, <1>2, AtWork
  <2> HIDE DEF n, cur
  <2>3. cur # 0
    BY <2>2, BoundsAssumption
  <2> QED
    BY <2>1, <2>2, <2>3
<1>4. /\ top \in Frames /\ top.fn = cur /\ F \in Seq(Frames) /\ F # <<>> /\ F[1] = frames[1]
      /\ FramesPlaced(F, blocks) /\ Laid(F, blocks) /\ Distinct(F) /\ Len(F) \in Nat
      /\ Waiting(frames) = Waiting(F) \cup Pending(top)
      /\ Waiting(F) \cap Pending(top) = {}
      /\ \A i \in 1..Len(F) : F[i].kind \in {"then", "else"} => F[i].join \in Waiting(F)
  BY <1>2, LastFrame
<1>5. /\ top.next = 0 /\ blocks[top.join].label = "ifcont"
      /\ Preds(blocks, top.join) = {top.from}
  BY <1>2, LastIsLaid
<1>6. top.join \in 1..n
  BY <1>1, <1>2, NestedFrames
<1>7. Pending(top) = {top.join}
  BY <1>3, <1>5, <1>6 DEF Pending
<1> HIDE DEF top, F
<1>8. /\ Waiting(frames) \subseteq 1..n /\ Unfilled = {ip} \cup Waiting(frames)
      /\ ip \notin Waiting(frames)
  BY <1>1, <1>2, UnfilledThere DEF Underway
<1>9. Waiting(frames') = Waiting(F) /\ Distinct(frames')
  BY <1>2, <1>4, WaitingSame
<1>10. frames' # <<>> /\ frames'[1].fn = cur
  <2>1. Len(F) >= 1
    BY <1>4
  <2>2. Len(frames') >= 1 /\ frames'[1].fn = F[1].fn
    BY <1>2, <1>4, <2>1 DEF Alike
  <2> QED
    BY <1>4, <2>2
<1>11. Unfilled' = Waiting(frames)
  <2>1. Unfilled' = {ip'} \cup Waiting(frames')
    BY <1>10 DEF Unfilled, Waiting, Pending
  <2> QED
    BY <1>2, <1>4, <1>7, <1>9, <2>1
<1>12. Touched = {ip} \cup Waiting(frames)
  <2>1. (n + 1)..n = {}
    BY <1>3
  <2> QED
    BY <1>2, <1>8, <2>1 DEF Touched
<1>13. top.join \in Waiting(frames) /\ top.join \notin Waiting(F) /\ top.join # ip
  BY <1>4, <1>7, <1>8
<1>14. blocks[top.join].terms = <<>> /\ blocks[top.join].fn \in {0, cur} /\ blocks[ip].terms = <<>>
  BY <1>1, <1>8, <1>13 DEF Filling
<1>15. \A b \in Waiting(frames) : Drawn(b, cur, {top.join})
  <2> SUFFICES ASSUME NEW b \in Waiting(frames) PROVE Drawn(b, cur, {top.join})
    OBVIOUS
  <2>1. b \in Unfilled /\ b \in Unfilled'
    BY <1>8, <1>11
  <2>2. CASE b = top.join
    <3>1. /\ blocks'[b].terms = <<>> /\ blocks'[b].fn = cur
      BY <1>2, <1>4, <1>14, <2>2 DEF Joined
    <3>2. Targets(blocks'[b]) = {} /\ Len(blocks'[b].terms) = 0
      BY <3>1, TargetsFew
    <3> QED
      BY <1>3, <2>1, <3>1, <3>2 DEF Drawn
  <2>3. CASE b # top.join
    <3>1. Like(blocks'[b], blocks[b])
      BY <1>2, <1>8, <2>3
    <3> QED
      BY <1>1, <1>2, <1>3, <2>1, <3>1, WaitingDrawn
  <2> QED
    BY <2>2, <2>3
<1>16. Drawn(ip, cur, {top.join})
  <2>1. /\ blocks'[ip].fn = cur /\ blocks'[ip].terms = <<{top.join}>> /\ ip \notin Unfilled'
    BY <1>2, <1>3, <1>8, <1>11 DEF Ended
  <2>2. Drawn(top.join, cur, {top.join})
    BY <1>13, <1>15
  <2>3. \A c \in {top.join} : c \in 1..Len(blocks') /\ blocks'[c].fn \in {0, cur}
    BY <1>2, <1>6, <2>2 DEF Drawn
  <2> QED
    BY <1>3, <2>1, <2>3, EndedDrawn
<1>17. Grows(cur, {top.join})
  <2>1. \A b \in Unfilled : /\ blocks'[b].label = blocks[b].label
                            /\ blocks[b].fn \in {0, blocks'[b].fn}
                            /\ b \notin {top.join} => blocks'[b].phi = blocks[b].phi
    <3> SUFFICES ASSUME NEW b \in Unfilled
                 PROVE  /\ blocks'[b].label = blocks[b].label
                        /\ blocks[b].fn \in {0, blocks'[b].fn}
                        /\ b # top.join => blocks'[b].phi = blocks[b].phi
      OBVIOUS
    <3>1. CASE b = top.join
      BY <1>2, <1>4, <1>14, <3>1 DEF Joined
    <3>2. CASE b = ip
      BY <1>2, <3>2 DEF Ended
    <3>3. CASE b \notin {ip, top.join}
      <4>1. b \in 1..n
        BY <1>3, <1>8
      <4> QED
        BY <1>2, <3>3, <4>1 DEF Like
    <3> QED
      BY <3>1, <3>2, <3>3
  <2>2. \A b \in Touched : Drawn(b, cur, {top.join})
    BY <1>12, <1>15, <1>16
  <2>3. (Len(blocks) + 1)..Len(blocks') = {} /\ Len(blocks) <= Len(blocks')
    BY <1>2, <1>3
  <2>4. \A b \in 1..Len(blocks) : b \notin Unfilled => Like(blocks'[b], blocks[b])
    BY <1>2, <1>8, <1>13
  <2>5. Unfilled' \subseteq Touched
    BY <1>11, <1>12
  <2>6. \A b \in Waiting(frames) :
          blocks[b].label = "ifcont" /\ b \notin Waiting(frames') => b \in {top.join}
    BY <1>4, <1>7, <1>9
  <2>7. top.join \in Targets(blocks'[ip])
    <3>1. blocks'[ip].terms = <<{top.join}>>
      BY <1>2 DEF Ended
    <3>2. Targets(blocks'[ip]) = {top.join}
      BY <3>1, TargetsFew
    <3> QED
      BY <3>2
  <2> QED
    BY <1>3, <1>10, <1>13, <2>1, <2>2, <2>3, <2>4, <2>5, <2>6, <2>7 DEF Grows
<1>18. Laid(frames', blocks')
  <2>1. \A i \in 1..Len(F) : F[i].kind \in {"then", "else"} => F[i].join \notin {top.join}
    BY <1>4, <1>13
  <2>2. Laid(F, blocks')
    BY <1>4, <1>17, <2>1, LaidStays
  <2> QED
    BY <1>2, <1>4, <2>2, LaidAlike
<1>19. blocks'[top.join].phi = Preds(blocks', top.join) /\ Cardinality(Preds(blocks', top.join)) = 2
  <2>1. blocks'[top.join].label = "ifcont" /\ top.join \in 1..Len(blocks')
    BY <1>2, <1>5, <1>6 DEF Joined
  <2>2. Preds(blocks', top.join) = {top.from, ip}
    BY <1>5, <1>6, <1>17, <2>1, PredsStay
  <2>3. top.from # ip
    <3>1. top.join \in Targets(blocks[top.from])
      BY <1>5 DEF Preds
    <3>2. Targets(blocks[ip]) = {}
      BY <1>14, TargetsFew
    <3> QED
      BY <3>1, <3>2
  <2>4. Cardinality({top.from, ip}) = 2
    <3>1. Cardinality({top.from}) = 1 /\ IsFiniteSet({top.from})
      BY FS_Singleton
    <3>2. {top.from, ip} = {top.from} \cup {ip} /\ ip \notin {top.from}
      BY <2>3
    <3> QED
      BY <3>1, <3>2, FS_AddElement
  <2> QED
    BY <1>2, <2>2, <2>4 DEF Joined
<1>20. ip' \notin Waiting(frames')
  BY <1>2, <1>9, <1>13
<1>21. top.join \notin Waiting(frames')
  BY <1>9, <1>13
<1> QED
  BY <1>2, <1>5, <1>9, <1>17, <1>18, <1>19, <1>20, <1>21, FlowStays

LEMMA LoopClosesFlow ==
  ASSUME WellFormed, TypeOK', Placed', Flow, Phis, FnsStand, LoopCloses
  PROVE  Flow' /\ Phis' /\ Steady
<1> DEFINE n == Len(blocks)
           cur == frames[1].fn
           top == Last(frames)
           F == Front(frames)
<1>1. TypeOK /\ Placed /\ Distinct(frames) /\ Laid(frames, blocks) /\ Underway /\ Filling
  BY DEF WellFormed, Flow
<1>2. /\ frames # <<>> /\ top.kind = "for"
      /\ Len(blocks') = n /\ ip' = top.join /\ Alike(frames', F)
      /\ Ended(blocks'[ip], blocks[ip], {top.next})
      /\ Ended(blocks'[top.next], blocks[top.next], {top.from})
      /\ \A b \in 1..n : b \notin {ip, top.next} => Like(blocks'[b], blocks[b])
  BY DEF LoopCloses
<1>3. /\ n \in Nat /\ frames \in Seq(Frames) /\ ip \in 1..n
      /\ cur # 0 /\ blocks[ip].fn = cur /\ cur \in 1..MaxFns
      /\ frames' \in Seq(Frames)
  <2>1. frames' \in Seq(Frames)
    BY DEF TypeOK
  <2>2. /\ n \in Nat /\ frames \in Seq(Frames) /\ ip \in 1..n
        /\ blocks[ip].fn = cur /\ cur \in 1..MaxFns
    BY <1>1, <1>2, AtWork
  <2> HIDE DEF n, cur
  <2>3. cur # 0
    BY <2>2, BoundsAssumption
  <2> QED
    BY <2>1, <2>2, <2>3
<1>4. /\ top \in Frames /\ top.fn = cur /\ F \in Seq(Frames) /\ F # <<>> /\ F[1] = frames[1]
      /\ FramesPlaced(F, blocks) /\ Laid(F, blocks) /\ Distinct(F) /\ Len(F) \in Nat
      /\ Waiting(frames) = Waiting(F) \cup Pending(top)
      /\ Waiting(F) \cap Pending(top) = {}
      /\ \A i \in 1..Len(F) : F[i].kind \in {"then", "else"} => F[i].join \in Waiting(F)
  BY <1>2, LastFrame
<1>5. /\ blocks[top.next].label = "for.inc" /\ blocks[top.join].label = "for.exit"
      /\ blocks[top.from].label = "for.cond"
      /\ blocks[top.next].fn = cur /\ blocks[top.from].fn = cur
  BY <1>2, LastIsLaid
<1>6. top.join \in 1..n /\ top.next \in 1..n /\ top.from \in 1..n
  BY <1>1, <1>2, NestedFrames
<1>7. Pending(top) = {top.next, top.join} /\ top.next # top.join
  BY <1>3, <1>5, <1>6 DEF Pending
<1> HIDE DEF top, F
<1>8. /\ Waiting(frames) \subseteq 1..n /\ Unfilled = {ip} \cup Waiting(frames)
      /\ ip \notin Waiting(frames)
  BY <1>1, <1>2, UnfilledThere DEF Underway
<1>9. Waiting(frames') = Waiting(F) /\ Distinct(frames')
  BY <1>2, <1>4, WaitingSame
<1>10. frames' # <<>> /\ frames'[1].fn = cur
  <2>1. Len(F) >= 1
    BY <1>4
  <2>2. Len(frames') >= 1 /\ frames'[1].fn = F[1].fn
    BY <1>2, <1>4, <2>1 DEF Alike
  <2> QED
    BY <1>4, <2>2
<1>11. Unfilled' = Waiting(frames) \ {top.next}
  <2>1. Unfilled' = {ip'} \cup Waiting(frames')
    BY <1>10 DEF Unfilled, Waiting, Pending
  <2>2. top.next \notin Waiting(F)
    BY <1>4, <1>7
  <2> QED
    BY <1>2, <1>4, <1>7, <1>9, <2>1, <2>2
<1>12. Touched = {ip} \cup Waiting(frames)
  <2>1. (n + 1)..n = {}
    BY <1>3
  <2> QED
    BY <1>2, <1>8, <2>1 DEF Touched
<1>13. /\ top.next \in Waiting(frames) /\ top.join \in Waiting(frames)
       /\ top.join \notin Waiting(F) /\ top.next # ip /\ top.join # ip
  BY <1>4, <1>7, <1>8
<1>14. /\ blocks'[top.next].fn = cur /\ blocks'[top.next].label = "for.inc"
       /\ blocks'[top.next].terms = <<{top.from}>>
  BY <1>2, <1>5 DEF Ended
<1>15. blocks'[top.from].fn = cur /\ blocks'[top.from].label = "for.cond"
  <2>1. top.from # top.next
    BY <1>5
  <2>2. CASE top.from = ip
    BY <1>2, <1>5, <2>2 DEF Ended
  <2>3. CASE top.from # ip
    BY <1>2, <1>5, <1>6, <2>1, <2>3 DEF Like
  <2> QED
    BY <2>2, <2>3
<1>16. \A b \in Waiting(frames) : b # top.next => Drawn(b, cur, {})
  <2> SUFFICES ASSUME NEW b \in Waiting(frames), b # top.next PROVE Drawn(b, cur, {})
    OBVIOUS
  <2>1. b \in Unfilled /\ b \in Unfilled' /\ Like(blocks'[b], blocks[b])
    BY <1>2, <1>8, <1>11
  <2> QED
    BY <1>1, <1>2, <1>3, <2>1, WaitingDrawn
<1>17. Drawn(ip, cur, {})
  <2>1. /\ blocks'[ip].fn = cur /\ blocks'[ip].terms = <<{top.next}>> /\ ip \notin Unfilled'
    BY <1>2, <1>3, <1>8, <1>11 DEF Ended
  <2>2. \A c \in {top.next} : /\ c \in 1..Len(blocks') /\ blocks'[c].fn \in {0, cur}
                              /\ blocks'[c].label # "ifcont"
    BY <1>2, <1>6, <1>14
  <2> QED
    BY <1>3, <2>1, <2>2, EndedDrawn
<1>18. Drawn(top.next, cur, {})
  <2> DEFINE k == top.next
             S == {top.from}
  <2>1. k \notin Unfilled' /\ blocks'[k].fn = cur /\ blocks'[k].terms = <<S>>
    BY <1>11, <1>14
  <2>2. \A c \in S : /\ c \in 1..Len(blocks') /\ blocks'[c].fn \in {0, cur}
                     /\ blocks'[c].label # "ifcont"
    BY <1>2, <1>6, <1>15
  <2>3. Drawn(k, cur, {})
    <3> HIDE DEF k, S
    <3> QED
      BY <1>3, <2>1, <2>2, EndedDrawn
  <2> QED
    BY <2>3
<1>19. Grows(cur, {})
  <2>1. \A b \in Unfilled : /\ blocks'[b].label = blocks[b].label
                            /\ blocks[b].fn \in {0, blocks'[b].fn}
                            /\ blocks'[b].phi = blocks[b].phi
    <3> SUFFICES ASSUME NEW b \in Unfilled
                 PROVE  /\ blocks'[b].label = blocks[b].label
                        /\ blocks[b].fn \in {0, blocks'[b].fn}
                        /\ blocks'[b].phi = blocks[b].phi
      OBVIOUS
    <3>1. CASE b \in {ip, top.next}
      BY <1>2, <3>1 DEF Ended
    <3>2. CASE b \notin {ip, top.next}
      <4>1. b \in 1..n
        BY <1>3, <1>8
      <4> QED
        BY <1>2, <3>2, <4>1 DEF Like
    <3> QED
      BY <3>1, <3>2
  <2>2. \A b \in Touched : Drawn(b, cur, {})
    BY <1>12, <1>16, <1>17, <1>18
  <2>3. (Len(blocks) + 1)..Len(blocks') = {} /\ Len(blocks) <= Len(blocks')
    BY <1>2, <1>3
  <2>4. \A b \in 1..Len(blocks) : b \notin Unfilled => Like(blocks'[b], blocks[b])
    BY <1>2, <1>8, <1>13
  <2>5. Unfilled' \subseteq Touched
    BY <1>11, <1>12
  <2>6. \A b \in Waiting(frames) :
          blocks[b].label = "ifcont" /\ b \notin Waiting(frames') => b \in {}
    BY <1>4, <1>5, <1>7, <1>9
  <2> QED
    BY <1>3, <1>10, <2>1, <2>2, <2>3, <2>4, <2>5, <2>6 DEF Grows
<1>20. Laid(frames', blocks')
  <2>1. \A i \in 1..Len(F) : F[i].join \notin {}
    OBVIOUS
  <2>2. Laid(F, blocks')
    BY <1>4, <1>19, <2>1, LaidStays
  <2> QED
    BY <1>2, <1>4, <2>2, LaidAlike
<1>21. ip' \notin Waiting(frames')
  BY <1>2, <1>9, <1>13
<1> QED
  BY <1>2, <1>9, <1>19, <1>20, <1>21, FlowStays

LEMMA DefOpensFlow ==
  ASSUME WellFormed, TypeOK', Placed', Flow, Phis, FnsStand, DefOpens
  PROVE  Flow' /\ Phis' /\ Steady
<1> DEFINE n == Len(blocks)
<1>1. TypeOK /\ Placed /\ Laid(frames, blocks)
  BY DEF WellFormed, Flow
<1>2. /\ frames = <<>> /\ Len(blocks') = n + 1 /\ ip' = n + 1
      /\ \A b \in 1..n : Like(blocks'[b], blocks[b])
  BY DEF DefOpens
<1>3. PICK fn \in 1..MaxFns : /\ frames' = <<Frame("func", fn, 0, 0, 0, "none")>>
                              /\ Made(blocks'[n + 1], fn, "entry", <<>>)
                              /\ fns'[fn].state = "defined"
  BY DEF DefOpens
<1>4. n \in Nat /\ MaxFns \in Nat
  BY <1>1, BoundsAssumption DEF TypeOK
<1>5. /\ Len(frames') = 1 /\ frames' # <<>> /\ frames'[1].fn = fn
      /\ frames'[1].kind = "func" /\ frames'[1].next = 0 /\ frames'[1].join = 0
  BY <1>3 DEF Frame
<1>6. 1..Len(frames') = {1} /\ 1..(1 - 1) = {}
  BY <1>5
<1>7. Waiting(frames') = {} /\ Distinct(frames') /\ Laid(frames', blocks')
  <2>1. Pending(frames'[1]) = {}
    BY <1>5 DEF Pending
  <2>2. Waiting(frames') = {}
    BY <1>6, <2>1 DEF Waiting
  <2>3. Distinct(frames')
    BY <1>6 DEF Distinct
  <2>4. Laid(frames', blocks')
    BY <1>5, <1>6 DEF Laid
  <2> QED
    BY <2>2, <2>3, <2>4
<1>8. Unfilled = {} /\ Waiting(frames) = {}
  BY <1>1, <1>2, UnfilledThere
<1>9. Unfilled' = {n + 1}
  <2>1. Unfilled' = {ip'} \cup Waiting(frames')
    BY <1>5 DEF Unfilled, Waiting, Pending
  <2> QED
    BY <1>2, <1>7, <2>1
<1>10. (n + 1)..Len(blocks') = {n + 1} /\ Touched = {n + 1}
  <2>1. (n + 1)..(n + 1) = {n + 1}
    BY <1>4
  <2> QED
    BY <1>2, <1>8, <2>1 DEF Touched
<1>11. fn # 0 /\ fn \in {0, fn}
  BY <1>3, <1>4
<1>12. Drawn(n + 1, fn, {})
  BY <1>3, <1>9, <1>11, MadeDrawn
<1>13. Grows(fn, {})
  <2>1. blocks'[n + 1].phi = {} /\ blocks'[n + 1].label # "ifcont"
    BY <1>3 DEF Made
  <2>2. Len(blocks) <= Len(blocks')
    BY <1>2, <1>4
  <2> QED
    BY <1>2, <1>5, <1>8, <1>9, <1>10, <1>11, <1>12, <2>1, <2>2 DEF Grows
<1> QED
  BY <1>2, <1>3, <1>7, <1>13, FlowStays

(* The body is left: its frame awaits nothing, so every block has its end  *)
(* or belongs to a function that is gone.                                  *)
LEMMA BodyAlone ==
  ASSUME WellFormed, Flow, Len(frames) = 1
  PROVE  /\ frames # <<>> /\ Waiting(frames) = {} /\ Unfilled = {ip}
         /\ ip \in 1..Len(blocks) /\ Len(blocks) \in Nat
         /\ frames[1].fn # 0 /\ blocks[ip].fn = frames[1].fn
<1>1. frames # <<>>
  BY ONLY Len(frames) = 1
<1>2. TypeOK /\ Placed /\ Laid(frames, blocks)
  BY DEF WellFormed, Flow
<1>3. frames[1].kind = "func" /\ 1..Len(frames) = {1}
  BY <1>1, <1>2 DEF Placed, FramesPlaced
<1>4. Pending(frames[1]) = {}
  BY <1>2, <1>3 DEF Laid, Pending
<1>5. Waiting(frames) = {}
  BY <1>3, <1>4 DEF Waiting
<1>6. Unfilled = {ip}
  BY <1>1, <1>5 DEF Unfilled
<1> QED
  BY <1>1, <1>2, <1>5, <1>6, AtWork, BoundsAssumption

LEMMA NothingAwaited ==
  ASSUME NEW B
  PROVE  Waiting(<<>>) = {} /\ Distinct(<<>>) /\ Laid(<<>>, B)
<1>1. 1..Len(<<>>) = {}
  OBVIOUS
<1> QED
  BY <1>1 DEF Waiting, Distinct, Laid

LEMMA DefClosesFlow ==
  ASSUME WellFormed, TypeOK', Placed', Flow, Phis, FnsStand, DefCloses
  PROVE  Flow' /\ Phis' /\ Steady
<1> DEFINE n == Len(blocks)
           cur == frames[1].fn
<1>1. /\ frames' = <<>> /\ Len(blocks') = n /\ ip' = ip
      /\ Ended(blocks'[ip], blocks[ip], {})
      /\ \A b \in 1..n : b # ip => Like(blocks'[b], blocks[b])
      /\ Len(frames) = 1
  BY DEF DefCloses
<1>2. /\ frames # <<>> /\ Waiting(frames) = {} /\ Unfilled = {ip}
      /\ ip \in 1..n /\ n \in Nat /\ cur # 0 /\ blocks[ip].fn = cur
  BY <1>1, BodyAlone
<1>3. Waiting(frames') = {} /\ Distinct(frames') /\ Laid(frames', blocks')
  BY <1>1, NothingAwaited
<1>4. Unfilled' = {}
  BY <1>1 DEF Unfilled
<1>5. (n + 1)..Len(blocks') = {} /\ Touched = {ip} /\ n <= Len(blocks')
  <2>1. (n + 1)..n = {} /\ n <= n
    BY <1>2
  <2> QED
    BY <1>1, <1>2, <2>1 DEF Touched
<1>6. Drawn(ip, cur, {})
  BY <1>1, <1>2, <1>4, EndedDrawn DEF Ended
<1>7. Grows(cur, {})
  BY <1>1, <1>2, <1>4, <1>5, <1>6 DEF Grows, Ended
<1> QED
  BY <1>1, <1>3, <1>7, FlowStays

LEMMA DefErasedFlow ==
  ASSUME WellFormed, TypeOK', Placed', Flow, Phis, FnsStand, DefErased
  PROVE  Flow' /\ Phis' /\ Steady
<1> DEFINE n == Len(blocks)
           cur == frames[1].fn
<1>1. /\ frames' = <<>> /\ blocks' = blocks /\ ip' = ip /\ fns'[cur].state = "erased"
      /\ Len(frames) = 1
  BY DEF DefErased
<1>2. /\ frames # <<>> /\ Waiting(frames) = {} /\ Unfilled = {ip}
      /\ ip \in 1..n /\ n \in Nat /\ cur # 0 /\ blocks[ip].fn = cur
  BY <1>1, BodyAlone
<1>3. Waiting(frames') = {} /\ Distinct(frames') /\ Laid(frames', blocks')
  BY <1>1, NothingAwaited
<1>4. Unfilled' = {}
  BY <1>1 DEF Unfilled
<1>5. (n + 1)..Len(blocks') = {} /\ Touched = {ip} /\ n <= Len(blocks')
  <2>1. (n + 1)..n = {} /\ n <= n
    BY <1>2
  <2> QED
    BY <1>1, <1>2, <2>1 DEF Touched
<1>6. Drawn(ip, cur, {})
  <2>1. blocks'[ip].terms = <<>> /\ blocks'[ip].fn = cur
    BY <1>1, <1>2 DEF Flow, Filling
  <2>2. Targets(blocks'[ip]) = {} /\ Len(blocks'[ip].terms) = 0
    BY <2>1, TargetsFew
  <2> QED
    BY <1>1, <1>2, <1>4, <2>1, <2>2 DEF Drawn
<1>7. Grows(cur, {})
  BY <1>1, <1>2, <1>4, <1>5, <1>6 DEF Grows, Like
<1> QED
  BY <1>1, <1>3, <1>7, FlowStays

(* Functions are as the blocks need them to be.                            *)
LEMMA FnsAreThere ==
  ASSUME WellFormed, Naming, [Next]_vars
  PROVE  FnsStand
<1>1. TypeOK /\ Placed /\ TypeOK' /\ FnStep /\ Naming'
  BY NextSteps, StepsOnFns, NamingStays DEF WellFormed
<1>2. /\ Len(fns) \in Nat /\ Len(fns') \in Nat
      /\ \A i \in 1..Len(fns) : /\ i \in 1..Len(fns')
                                /\ fns[i].state = "erased" => fns'[i].state = "erased"
  <2>1. Len(fns) \in Nat /\ Len(fns') \in Nat
    BY <1>1 DEF TypeOK
  <2> QED
    BY <1>1, <2>1, ErasedStays
<1>3. Len(fns) <= Len(fns')
  <2>1. Len(fns) = 0 \/ Len(fns) \in 1..Len(fns)
    BY <1>2
  <2> QED
    BY <1>2, <2>1
<1>4. frames # <<>> /\ frames' # <<>> => fns'[frames[1].fn].state = "defined"
  BY <1>1, SameFunction DEF Naming, Live
<1> QED
  BY <1>2, <1>3, <1>4 DEF FnsStand

LEMMA FlowStarts ==
  Init => Flow /\ Phis
<1> SUFFICES ASSUME Init PROVE Flow /\ Phis
  OBVIOUS
<1>1. frames = <<>> /\ blocks = <<>>
  BY DEF Init
<1>2. Distinct(frames) /\ Laid(frames, blocks) /\ Unfilled = {}
  BY <1>1, NothingAwaited DEF Unfilled
<1>3. 1..Len(blocks) = {}
  BY <1>1
<1> QED
  BY <1>1, <1>2, <1>3 DEF Flow, Underway, Filling, Edges, Phis

LEMMA FlowGoesOn ==
  ASSUME WellFormed, Naming, Flow, Phis, [Next]_vars
  PROVE  Flow' /\ Phis' /\ Steady /\ GraphStep
<1>1. TypeOK /\ Placed /\ TypeOK' /\ Placed' /\ FnsStand
  BY NextSteps, FnsAreThere DEF WellFormed
<1>2. /\ frames # <<>> => ip \in Unfilled /\ Unfilled = {ip} \cup Waiting(frames)
      /\ Waiting(frames) \subseteq Unfilled
  BY <1>1, UnfilledThere DEF Flow
<1>3. frames # <<>> => blocks[ip].terms = <<>>
  BY <1>2 DEF Flow, Filling
<1>4. ASSUME frames # <<>>, Last(frames).kind # "func"
      PROVE  /\ Last(frames).next # ip /\ Last(frames).join # ip
             /\ Last(frames).kind = "for" => blocks[Last(frames).next].terms = <<>>
  <2> DEFINE top == Last(frames)
  <2>1. Pending(top) \subseteq Waiting(frames) /\ ip \notin Waiting(frames)
    BY <1>4, LastFrame DEF Flow, Underway
  <2>2. ip # 0 /\ Pending(top) = {top.next, top.join} \ {0}
    BY <1>1, <1>4, CurrentIsFn DEF Pending
  <2>3. top.kind = "for" => top.next \in Waiting(frames)
    <3>1. top.kind = "for" => top.next \in 1..Len(blocks)
      BY <1>1, <1>4, NestedFrames
    <3> HIDE DEF top
    <3> QED
      BY <2>1, <2>2, <3>1
  <2> HIDE DEF top
  <2>4. top.next # ip /\ top.join # ip
    BY <2>1, <2>2
  <2>5. top.kind = "for" => blocks[top.next].terms = <<>>
    BY <1>2, <2>3 DEF Flow, Filling
  <2> QED
    BY <2>4, <2>5 DEF top
<1>5. GraphStep
  BY <1>3, <1>4, StepsOnGraph
<1> QED
  BY <1>1, <1>5, StaysFlow, ReturnedFlow, BranchOpensFlow, BranchTurnsFlow,
     BranchesMeetFlow, LoopOpensFlow, LoopClosesFlow, DefOpensFlow, DefClosesFlow,
     DefErasedFlow DEF GraphStep

LEMMA FlowAlways ==
  Spec => [](WellFormed /\ Naming /\ Flow /\ Phis)
<1>1. Init => WellFormed /\ Naming /\ Flow /\ Phis
  BY InitWellFormed, NamingStarts, FlowStarts
<1>2. WellFormed /\ Naming /\ Flow /\ Phis /\ [Next]_vars
        => (WellFormed /\ Naming /\ Flow /\ Phis)'
  BY WellFormedStays, NamingStays, FlowGoesOn
<1> QED
  BY <1>1, <1>2, PTL DEF Spec

LEMMA OpenFromFlow ==
  ASSUME WellFormed, Flow
  PROVE  InsertionOpen
<1>1. /\ TypeOK /\ Placed /\ Distinct(frames) /\ Laid(frames, blocks)
      /\ frames \in Seq(Frames)
  BY DEF WellFormed, Flow, TypeOK
<1>0. DOMAIN frames = 1..Len(frames)
  BY <1>1
<1> SUFFICES ASSUME frames # <<>>
             PROVE  /\ blocks[ip].fn = frames[1].fn
                    /\ blocks[ip].terms = <<>>
                    /\ \A i \in 1..Len(frames) :
                         /\ frames[i].fn = frames[1].fn
                         /\ \A b \in Pending(frames[i]) : b # ip /\ blocks[b].terms = <<>>
                         /\ \A j \in 1..(i - 1) : Pending(frames[i]) \cap Pending(frames[j]) = {}
  BY <1>0 DEF InsertionOpen
<1>2. ip \in Unfilled /\ Waiting(frames) \subseteq Unfilled /\ ip \notin Waiting(frames)
  BY <1>1, UnfilledThere DEF Flow, Underway
<1>3. \A b \in Unfilled : blocks[b].terms = <<>>
  BY DEF Flow, Filling
<1>4. blocks[ip].fn = frames[1].fn
  BY <1>1, AtWork
<1>5. \A i \in 1..Len(frames) : Pending(frames[i]) \subseteq Waiting(frames)
  BY DEF Waiting
<1>6. \A i \in 1..Len(frames) : frames[i].fn = frames[1].fn
  BY <1>1 DEF Placed, FramesPlaced
<1> QED
  BY <1>1, <1>2, <1>3, <1>4, <1>5, <1>6 DEF Distinct

(* The builder never stands behind a terminator while a body is generated, *)
(* and the blocks the codegen() calls under way hold for later are open    *)
(* and theirs alone (ifstmt.cc, forstmt.cc).                               *)
THEOREM InsertionStaysOpen ==
  Spec => []InsertionOpen
  BY FlowAlways, OpenFromFlow, PTL

LEMMA FinishedAreFilled ==
  ASSUME WellFormed, Flow
  PROVE  \A b \in Finished : /\ b \in 1..Len(blocks) /\ b \notin Unfilled
                             /\ blocks[b].fn # 0 /\ fns[blocks[b].fn].state = "defined"
<1>1. TypeOK /\ Placed
  BY DEF WellFormed
<1> SUFFICES ASSUME NEW b \in Finished
             PROVE  /\ b \in 1..Len(blocks) /\ b \notin Unfilled
                    /\ blocks[b].fn # 0 /\ fns[blocks[b].fn].state = "defined"
  OBVIOUS
<1>2. /\ b \in 1..Len(blocks)
      /\ frames = <<>> \/ blocks[b].fn \notin {0, frames[1].fn}
      /\ blocks[b].fn # 0 => fns[blocks[b].fn].state = "defined"
  BY <1>1 DEF Finished, TypeOK
<1>3. b \notin Unfilled
  BY <1>2 DEF Unfilled, Flow, Filling
<1> QED
  BY <1>2, <1>3 DEF Flow, Edges

LEMMA CFGFromFlow ==
  ASSUME WellFormed, Flow
  PROVE  FinishedCFG
<1> SUFFICES ASSUME NEW b \in Finished
             PROVE  /\ blocks[b].fn # 0
                    /\ blocks[b].terms # <<>>
                    /\ Len(blocks[b].terms) > 1 => blocks[b].label = "ret_enter"
                    /\ \A c \in Successors(b) : blocks[c].fn = blocks[b].fn
  BY DEF FinishedCFG
<1>1. /\ b \in 1..Len(blocks) /\ b \notin Unfilled
      /\ blocks[b].fn # 0 /\ fns[blocks[b].fn].state = "defined"
  BY FinishedAreFilled
<1>2. frames # <<>> => blocks[b].fn # frames[1].fn
  BY DEF Finished
<1>3. Successors(b) = Targets(blocks[b])
  BY DEF Successors, Targets
<1> QED
  BY <1>1, <1>2, <1>3 DEF Flow, Edges

(* Every block of a finished function ends, in one terminator unless it    *)
(* returns, and branches within its function.                              *)
THEOREM FinishedIsCFG ==
  Spec => []FinishedCFG
  BY FlowAlways, CFGFromFlow, PTL

LEMMA PhiFromPhis ==
  ASSUME WellFormed, Flow, Phis
  PROVE  PhiMatchesPreds
<1> SUFFICES ASSUME NEW b \in Finished
             PROVE  LET preds == {c \in DOMAIN blocks : b \in Successors(c)} IN
                    IF blocks[b].label = "ifcont"
                    THEN blocks[b].phi = preds /\ Cardinality(preds) = 2
                    ELSE blocks[b].phi = {}
  BY DEF PhiMatchesPreds
<1>1. b \in 1..Len(blocks) /\ b \notin Unfilled
  BY FinishedAreFilled
<1>2. {c \in DOMAIN blocks : b \in Successors(c)} = Preds(blocks, b)
  <2>1. DOMAIN blocks = 1..Len(blocks)
    BY DEF WellFormed, TypeOK
  <2> QED
    BY <2>1 DEF Preds, Targets, Successors
<1>3. b \notin Waiting(frames)
  BY <1>1, UnfilledThere DEF WellFormed, Flow
<1> QED
  BY <1>1, <1>2, <1>3 DEF Phis

(* The phi of a merge block names the two blocks that branch there, not    *)
(* those its branches began in.                                            *)
THEOREM PhisMatchPreds ==
  Spec => []PhiMatchesPreds
  BY FlowAlways, PhiFromPhis, PTL

(* Nothing is added to a function once its body is complete.               *)
THEOREM FinishedBlocksStand ==
  Spec => FinishedStand
<1>1. ASSUME WellFormed, Naming, Flow, Phis, [Next]_vars, NEW b \in Finished
      PROVE  /\ blocks'[b].fn = blocks[b].fn
             /\ blocks'[b].terms = blocks[b].terms
             /\ blocks'[b].phi = blocks[b].phi
  <2>1. b \in 1..Len(blocks) /\ b \notin Unfilled /\ Steady
    BY <1>1, FinishedAreFilled, FlowGoesOn
  <2> QED
    BY <2>1 DEF Steady, Like
<1>2. WellFormed /\ Naming /\ Flow /\ Phis /\ [Next]_vars =>
        [\A b \in Finished : /\ blocks'[b].fn = blocks[b].fn
                             /\ blocks'[b].terms = blocks[b].terms
                             /\ blocks'[b].phi = blocks[b].phi]_vars
  BY <1>1
<1> QED
  BY FlowAlways, <1>2, PTL DEF Spec, FinishedStand

-----------------------------------------------------------------------------
(* Reaching a return.  A trap is a set of blocks that control never leaves *)
(* and in which it never returns.  A block that is still open is in none,  *)
(* and no step closes one: the builder's block leads to an open one, or    *)
(* through the increment and the condition of a loop to its open exit.     *)
Trap(S, B) ==
  /\ S # {} /\ S \subseteq 1..Len(B)
  /\ \A b \in S : /\ B[b].terms # <<>>
                  /\ B[b].terms[1] # {} /\ B[b].terms[1] \subseteq S

Trapless == \A S : ~Trap(S, blocks)

(* The condition of a loop under way branches to its exit.                 *)
Exits(F, B) ==
  \A i \in 1..Len(F) : F[i].kind = "for" =>
    /\ F[i].from \in 1..Len(B) /\ B[F[i].from].terms # <<>>
    /\ F[i].join \in B[F[i].from].terms[1]

Escapes == Trapless /\ Exits(frames, blocks)

LEMMA ExitsKept ==
  ASSUME NEW F, NEW G, NEW A, NEW B, Exits(F, A), Alike(G, F),
         Len(A) \in Nat, Len(B) \in Nat, Len(A) <= Len(B),
         \A b \in 1..Len(A) : A[b].terms # <<>> => B[b].terms = A[b].terms
  PROVE  Exits(G, B)
<1> SUFFICES ASSUME NEW i \in 1..Len(G), G[i].kind = "for"
             PROVE  /\ G[i].from \in 1..Len(B) /\ B[G[i].from].terms # <<>>
                    /\ G[i].join \in B[G[i].from].terms[1]
  BY DEF Exits
<1>1. /\ i \in 1..Len(F) /\ F[i].kind = "for"
      /\ G[i].from = F[i].from /\ G[i].join = F[i].join
  BY DEF Alike
<1>2. /\ F[i].from \in 1..Len(A) /\ A[F[i].from].terms # <<>>
      /\ F[i].join \in A[F[i].from].terms[1]
  BY <1>1 DEF Exits
<1>3. 1..Len(A) \subseteq 1..Len(B)
  OBVIOUS
<1> QED
  BY <1>1, <1>2, <1>3

LEMMA ExitsNext ==
  ASSUME NEW F \in Seq(Frames), NEW x \in Frames, NEW B, Exits(F, B),
         x.kind = "for" => /\ x.from \in 1..Len(B) /\ B[x.from].terms # <<>>
                           /\ x.join \in B[x.from].terms[1]
  PROVE  Exits(Append(F, x), B)
<1>1. /\ Len(F) \in Nat /\ Len(Append(F, x)) = Len(F) + 1
      /\ \A i \in 1..Len(F) : Append(F, x)[i] = F[i]
      /\ Append(F, x)[Len(F) + 1] = x
  OBVIOUS
<1>2. \A i \in 1..(Len(F) + 1) : i \in 1..Len(F) \/ i = Len(F) + 1
  BY <1>1
<1> QED
  BY <1>1, <1>2 DEF Exits

LEMMA ExitsFront ==
  ASSUME NEW F \in Seq(Frames), F # <<>>, NEW B, Exits(F, B)
  PROVE  Exits(Front(F), B)
<1>0. Len(F) \in Nat \ {0}
  OBVIOUS
<1>1. /\ Len(Front(F)) = Len(F) - 1 /\ Len(F) \in Nat
      /\ \A i \in 1..(Len(F) - 1) : Front(F)[i] = F[i]
  <2>1. Len(Front(F)) = Len(F) - 1
    <3>1. CASE Len(F) = 1
      <4>1. Front(F) = SubSeq(F, 1, 0) /\ Len(SubSeq(F, 1, 0)) = 0
        BY <3>1 DEF Front
      <4> QED
        BY <3>1, <4>1
    <3>2. CASE Len(F) >= 2
      BY <3>2 DEF Front
    <3>3. PICK m \in Nat \ {0} : m = Len(F)
      BY <1>0
    <3> QED
      BY <3>1, <3>2, <3>3
  <2>2. \A i \in 1..(Len(F) - 1) : Front(F)[i] = F[i]
    BY <1>0 DEF Front
  <2> QED
    BY <1>0, <2>1, <2>2
<1>2. \A i \in 1..(Len(F) - 1) : i \in 1..Len(F)
  BY <1>1
<1> QED
  BY <1>1, <1>2 DEF Exits

LEMMA EscapesStay ==
  ASSUME WellFormed, WellFormed', Flow, Flow', Steady, GraphStep, Escapes
  PROVE  Escapes'
<1> DEFINE n == Len(blocks)
           C == blocks'
           top == Last(frames)
           F == Front(frames)
           Old(b) == b \in 1..n /\ blocks[b].terms # <<>>
<1>1. /\ TypeOK /\ TypeOK' /\ Placed /\ Laid(frames, blocks) /\ Exits(frames, blocks)
      /\ n \in Nat /\ Len(C) \in Nat /\ n <= Len(C)
      /\ frames \in Seq(Frames) /\ frames' \in Seq(Frames)
  BY DEF WellFormed, TypeOK, Flow, Steady, Escapes
<1>2. \A b \in Unfilled : blocks[b].terms = <<>>
  BY DEF Flow, Filling
<1>3. \A b \in 1..n : blocks[b].terms # <<>> => C[b].terms = blocks[b].terms
  BY <1>2 DEF Steady, Like
<1>4. frames' # <<>> => C[ip'].terms = <<>> /\ \A b \in Waiting(frames') : C[b].terms = <<>>
  BY DEF Flow, Filling, Unfilled
<1>5. ASSUME \A S : Trap(S, C) => \A b \in S : Old(b)
      PROVE  Trapless'
  <2> SUFFICES ASSUME NEW S, Trap(S, C) PROVE FALSE
    BY DEF Trapless
  <2>1. S \subseteq 1..n /\ \A b \in S : C[b].terms = blocks[b].terms
    BY <1>3, <1>5
  <2>2. Trap(S, blocks)
    BY <2>1 DEF Trap
  <2> QED
    BY <2>2 DEF Escapes, Trapless
<1>6. ASSUME NEW G, Alike(G, frames) PROVE Exits(G, C)
  BY <1>1, <1>3, <1>6, ExitsKept
<1>7. ASSUME NEW G, frames # <<>>, Alike(G, F) PROVE Exits(G, C)
  <2>1. Exits(F, blocks)
    BY <1>1, <1>7, ExitsFront
  <2> HIDE DEF F
  <2> QED
    BY <1>1, <1>3, <1>7, <2>1, ExitsKept
<1>8. Alike(frames, frames) /\ Alike(F, F)
  BY DEF Alike
<1>9. ASSUME NEW S, Trap(S, C)
      PROVE  /\ S \subseteq 1..Len(C)
             /\ \A b \in S : C[b].terms # <<>> /\ C[b].terms[1] # {} /\ C[b].terms[1] \subseteq S
  BY <1>9 DEF Trap
<1>10. ASSUME NEW c, NEW T, C[c].terms = <<T>> PROVE C[c].terms[1] = T
  BY <1>10
<1>11. \A b \in 1..n : C[b].terms = blocks[b].terms /\ C[b].terms # <<>> => Old(b)
  OBVIOUS
<1> HIDE DEF C, F, top, Old
<1>12. CASE Stays \/ DefErased
  <2>1. Len(C) = n /\ \A b \in 1..n : C[b].terms = blocks[b].terms
    BY <1>12 DEF Stays, DefErased, Like, C
  <2>2. \A S : Trap(S, C) => \A b \in S : Old(b)
    BY <1>9, <1>11, <2>1
  <2>3. Exits(frames', C)
    <3>1. CASE Stays
      BY <1>6, <3>1 DEF Stays
    <3>2. CASE DefErased
      <4>1. frames' = <<>> /\ Len(<<>>) = 0
        BY <3>2 DEF DefErased
      <4> QED
        BY <4>1 DEF Exits
    <3> QED
      BY <1>12, <3>1, <3>2
  <2> QED
    BY <1>5, <2>2, <2>3 DEF Escapes, C
<1>13. CASE Returned
  <2>1. /\ frames # <<>> /\ Len(C) = n + 2 /\ Alike(frames', frames)
        /\ C[ip].terms = <<{n + 1}>> /\ C[n + 1].terms = <<{}, {n + 2}>>
        /\ C[n + 2].terms = <<>>
        /\ \A b \in 1..n : b # ip => C[b].terms = blocks[b].terms
    BY <1>13 DEF Returned, Ended, Made, Like, C
  <2>2. <<{}, {n + 2}>>[1] = {}
    OBVIOUS
  <2>3. ASSUME NEW S, Trap(S, C), NEW b \in S PROVE Old(b)
    <3>1. n + 1 \notin S /\ n + 2 \notin S
      BY <1>9, <2>1, <2>2, <2>3
    <3>2. ip \notin S
      <4>1. C[ip].terms[1] = {n + 1}
        BY <1>10, <2>1
      <4> QED
        BY <1>9, <2>3, <3>1, <4>1
    <3>3. b \in 1..n /\ b # ip
      <4>1. b \in 1..(n + 2) /\ b \notin {n + 1, n + 2, ip}
        BY <1>9, <2>1, <2>3, <3>1, <3>2
      <4> HIDE DEF n
      <4> QED
        BY <1>1, <4>1
    <3> QED
      BY <1>9, <1>11, <2>1, <2>3, <3>3
  <2> QED
    BY <1>5, <1>6, <2>1, <2>3 DEF Escapes, C
<1>14. CASE BranchOpens
  <2> DEFINE x == Frame("then", CurrentFn, n + 2, n + 3, 0, "none")
  <2>1. /\ frames # <<>> /\ Len(C) = n + 3 /\ frames' = Append(frames, x)
        /\ C[ip].terms = <<{n + 1, n + 2}>> /\ C[n + 1].terms = <<>>
        /\ C[n + 2].terms = <<>> /\ C[n + 3].terms = <<>>
        /\ \A b \in 1..n : b # ip => C[b].terms = blocks[b].terms
    BY <1>14 DEF BranchOpens, Ended, Made, Like, C
  <2>2. ASSUME NEW S, Trap(S, C), NEW b \in S PROVE Old(b)
    <3>1. n + 1 \notin S /\ n + 2 \notin S /\ n + 3 \notin S
      BY <1>9, <2>1, <2>2
    <3>2. ip \notin S
      <4>1. C[ip].terms[1] = {n + 1, n + 2}
        BY <1>10, <2>1
      <4> QED
        BY <1>9, <2>2, <3>1, <4>1
    <3>3. b \in 1..n /\ b # ip
      <4>1. b \in 1..(n + 3) /\ b \notin {n + 1, n + 2, n + 3, ip}
        BY <1>9, <2>1, <2>2, <3>1, <3>2
      <4> HIDE DEF n
      <4> QED
        BY <1>1, <4>1
    <3> QED
      BY <1>9, <1>11, <2>1, <2>2, <3>3
  <2>3. Exits(frames', C)
    <3>1. x.kind = "then"
      BY DEF Frame
    <3>2. frames'[Len(frames')] = x /\ Len(frames') = Len(frames) + 1 /\ Len(frames) \in Nat
      <4> HIDE DEF x
      <4> QED
        BY <1>1, <2>1
    <3>3. x \in Frames
      BY <1>1, <3>2
    <3> HIDE DEF x
    <3> QED
      BY <1>1, <1>6, <1>8, <2>1, <3>1, <3>3, ExitsNext
  <2> QED
    BY <1>5, <2>2, <2>3 DEF Escapes, C
<1>15. CASE BranchTurns
  <2> DEFINE x == Frame("else", top.fn, 0, top.join, ip, top.value)
  <2>1. /\ frames # <<>> /\ top.kind = "then" /\ Len(C) = n /\ frames' = Append(F, x)
        /\ C[ip].terms = <<{top.join}>> /\ C[top.next].terms = blocks[top.next].terms
        /\ \A b \in 1..n : b \notin {ip, top.next} => C[b].terms = blocks[b].terms
    BY <1>15 DEF BranchTurns, Ended, Joined, Like, C, F, top
  <2>2. F \in Seq(Frames) /\ top \in Frames /\ top.join \in 1..n
    BY <1>1, <2>1, LastFrame, NestedFrames DEF F, top
  <2>3. x.kind = "else" /\ x.join = top.join
    BY DEF Frame
  <2>4. frames'[Len(frames')] = x /\ Len(frames') = Len(F) + 1 /\ Len(F) \in Nat
    <3> HIDE DEF x
    <3> QED
      BY <1>1, <2>1, <2>2
  <2>5. x \in Frames
    BY <1>1, <2>4
  <2> HIDE DEF x
  <2>6. top.join \in Waiting(frames') /\ frames' # <<>>
    <3>1. top.join \in Pending(x)
      BY <2>2, <2>3 DEF Pending
    <3>2. Len(frames') \in 1..Len(frames')
      BY <2>4
    <3> QED
      BY <2>4, <3>1, <3>2 DEF Waiting
  <2>7. C[top.join].terms = <<>>
    BY <1>4, <2>6
  <2>8. ASSUME NEW S, Trap(S, C), NEW b \in S PROVE Old(b)
    <3>1. top.join \notin S
      BY <1>9, <2>7, <2>8
    <3>2. ip \notin S
      <4>1. C[ip].terms[1] = {top.join}
        BY <1>10, <2>1
      <4> QED
        BY <1>9, <2>8, <3>1, <4>1
    <3>3. b \in 1..n /\ b # ip
      BY <1>1, <1>9, <2>1, <2>8, <3>2
    <3> QED
      BY <1>9, <1>11, <2>1, <2>8, <3>3
  <2>9. Exits(frames', C)
    BY <1>7, <1>8, <2>1, <2>2, <2>3, <2>5, ExitsNext
  <2> QED
    BY <1>5, <2>8, <2>9 DEF Escapes, C
<1>16. CASE BranchesMeet
  <2>1. /\ frames # <<>> /\ top.kind = "else" /\ Len(C) = n /\ ip' = top.join
        /\ Alike(frames', F)
        /\ C[ip].terms = <<{top.join}>> /\ C[top.join].terms = blocks[top.join].terms
        /\ \A b \in 1..n : b \notin {ip, top.join} => C[b].terms = blocks[b].terms
    BY <1>16 DEF BranchesMeet, Ended, Joined, Like, C, F, top
  <2>2. frames' # <<>>
    <3>1. F \in Seq(Frames) /\ F # <<>>
      BY <2>1, LastFrame DEF F, top
    <3>2. Len(F) # 0 /\ Len(frames') = Len(F)
      BY <2>1, <3>1 DEF Alike
    <3> QED
      BY <3>2
  <2>3. C[top.join].terms = <<>>
    BY <1>4, <2>1, <2>2
  <2>4. ASSUME NEW S, Trap(S, C), NEW b \in S PROVE Old(b)
    <3>1. top.join \notin S
      BY <1>9, <2>3, <2>4
    <3>2. ip \notin S
      <4>1. C[ip].terms[1] = {top.join}
        BY <1>10, <2>1
      <4> QED
        BY <1>9, <2>4, <3>1, <4>1
    <3>3. b \in 1..n /\ b # ip
      BY <1>1, <1>9, <2>1, <2>4, <3>2
    <3> QED
      BY <1>9, <1>11, <2>1, <2>4, <3>3
  <2> QED
    BY <1>5, <1>7, <2>1, <2>4 DEF Escapes, C
<1>17. CASE LoopOpens
  <2> DEFINE x == Frame("for", CurrentFn, n + 3, n + 4, n + 1, "none")
  <2>1. /\ frames # <<>> /\ Len(C) = n + 4 /\ frames' = Append(frames, x)
        /\ C[ip].terms = <<{n + 1}>> /\ C[n + 1].terms = <<{n + 2, n + 4}>>
        /\ C[n + 2].terms = <<>> /\ C[n + 3].terms = <<>> /\ C[n + 4].terms = <<>>
        /\ \A b \in 1..n : b # ip => C[b].terms = blocks[b].terms
    BY <1>17 DEF LoopOpens, Ended, Made, Like, C
  <2>2. ASSUME NEW S, Trap(S, C), NEW b \in S PROVE Old(b)
    <3>1. n + 2 \notin S /\ n + 3 \notin S /\ n + 4 \notin S
      BY <1>9, <2>1, <2>2
    <3>2. n + 1 \notin S
      <4>1. C[n + 1].terms[1] = {n + 2, n + 4}
        BY <1>10, <2>1
      <4> QED
        BY <1>9, <2>2, <3>1, <4>1
    <3>3. ip \notin S
      <4>1. C[ip].terms[1] = {n + 1}
        BY <1>10, <2>1
      <4> QED
        BY <1>9, <2>2, <3>2, <4>1
    <3>4. b \in 1..n /\ b # ip
      <4>1. b \in 1..(n + 4) /\ b \notin {n + 1, n + 2, n + 3, n + 4, ip}
        BY <1>9, <2>1, <2>2, <3>1, <3>2, <3>3
      <4> HIDE DEF n
      <4> QED
        BY <1>1, <4>1
    <3> QED
      BY <1>9, <1>11, <2>1, <2>2, <3>4
  <2>3. Exits(frames', C)
    <3>1. x.kind = "for" /\ x.from = n + 1 /\ x.join = n + 4
      BY DEF Frame
    <3>2. frames'[Len(frames')] = x /\ Len(frames') = Len(frames) + 1 /\ Len(frames) \in Nat
      <4> HIDE DEF x
      <4> QED
        BY <1>1, <2>1
    <3>3. x \in Frames
      BY <1>1, <3>2
    <3>4. n + 1 \in 1..Len(C) /\ C[n + 1].terms # <<>> /\ n + 4 \in C[n + 1].terms[1]
      <4>1. <<{n + 2, n + 4}>> # <<>>
        OBVIOUS
      <4>2. C[n + 1].terms[1] = {n + 2, n + 4}
        BY <1>10, <2>1
      <4> QED
        BY <1>1, <2>1, <4>1, <4>2
    <3> HIDE DEF x
    <3> QED
      BY <1>1, <1>6, <1>8, <2>1, <3>1, <3>3, <3>4, ExitsNext
  <2> QED
    BY <1>5, <2>2, <2>3 DEF Escapes, C
<1>18. CASE LoopCloses
  <2>1. /\ frames # <<>> /\ top.kind = "for" /\ Len(C) = n /\ ip' = top.join
        /\ Alike(frames', F)
        /\ C[ip].terms = <<{top.next}>> /\ C[top.next].terms = <<{top.from}>>
        /\ \A b \in 1..n : b \notin {ip, top.next} => C[b].terms = blocks[b].terms
    BY <1>18 DEF LoopCloses, Ended, Like, C, F, top
  <2>2. frames' # <<>>
    <3>1. F \in Seq(Frames) /\ F # <<>>
      BY <2>1, LastFrame DEF F, top
    <3>2. Len(F) # 0 /\ Len(frames') = Len(F)
      BY <2>1, <3>1 DEF Alike
    <3> QED
      BY <3>2
  <2>3. C[top.join].terms = <<>>
    BY <1>4, <2>1, <2>2
  <2>4. C[top.from].terms # <<>> /\ top.join \in C[top.from].terms[1]
    <3>1. Len(frames) \in 1..Len(frames) /\ top = frames[Len(frames)]
      BY <1>1, <2>1 DEF Last, top
    <3>2. /\ top.from \in 1..n /\ blocks[top.from].terms # <<>>
          /\ top.join \in blocks[top.from].terms[1]
      BY <1>1, <2>1, <3>1 DEF Exits
    <3> QED
      BY <1>3, <3>2
  <2>5. ASSUME NEW S, Trap(S, C), NEW b \in S PROVE Old(b)
    <3>1. top.join \notin S
      BY <1>9, <2>3, <2>5
    <3>2. top.from \notin S
      BY <1>9, <2>4, <2>5, <3>1
    <3>3. top.next \notin S
      <4>1. C[top.next].terms[1] = {top.from}
        BY <1>10, <2>1
      <4> QED
        BY <1>9, <2>5, <3>2, <4>1
    <3>4. ip \notin S
      <4>1. C[ip].terms[1] = {top.next}
        BY <1>10, <2>1
      <4> QED
        BY <1>9, <2>5, <3>3, <4>1
    <3>5. b \in 1..n /\ b \notin {ip, top.next}
      BY <1>1, <1>9, <2>1, <2>5, <3>3, <3>4
    <3> QED
      BY <1>9, <1>11, <2>1, <2>5, <3>5
  <2> QED
    BY <1>5, <1>7, <2>1, <2>5 DEF Escapes, C
<1>19. CASE DefOpens
  <2>1. /\ frames = <<>> /\ Len(C) = n + 1 /\ C[n + 1].terms = <<>>
        /\ \A b \in 1..n : C[b].terms = blocks[b].terms
        /\ \E fn \in 1..MaxFns : frames' = <<Frame("func", fn, 0, 0, 0, "none")>>
    BY <1>19 DEF DefOpens, Made, Like, C
  <2>2. ASSUME NEW S, Trap(S, C), NEW b \in S PROVE Old(b)
    <3>1. b \in 1..n
      BY <1>1, <1>9, <2>1, <2>2
    <3> QED
      BY <1>9, <1>11, <2>1, <2>2, <3>1
  <2>3. Exits(frames', C)
    <3>1. PICK fn \in 1..MaxFns : frames' = <<Frame("func", fn, 0, 0, 0, "none")>>
      BY <2>1
    <3>2. Frame("func", fn, 0, 0, 0, "none").kind = "func"
      BY DEF Frame
    <3>3. Len(frames') = 1 /\ frames'[1].kind = "func"
      BY <3>1, <3>2
    <3> QED
      BY <3>3 DEF Exits
  <2> QED
    BY <1>5, <2>2, <2>3 DEF Escapes, C
<1>20. CASE DefCloses
  <2>1. /\ frames' = <<>> /\ Len(C) = n /\ C[ip].terms = <<{}>>
        /\ \A b \in 1..n : b # ip => C[b].terms = blocks[b].terms
    BY <1>20 DEF DefCloses, Ended, Like, C
  <2>2. ASSUME NEW S, Trap(S, C), NEW b \in S PROVE Old(b)
    <3>0. C[ip].terms[1] = {}
      BY <1>10, <2>1
    <3>1. ip \notin S
      BY <1>9, <2>2, <3>0
    <3>2. b \in 1..n /\ b # ip
      BY <1>9, <2>1, <2>2, <3>1
    <3> QED
      BY <1>9, <1>11, <2>1, <2>2, <3>2
  <2>3. Len(<<>>) = 0
    OBVIOUS
  <2> QED
    BY <1>5, <2>1, <2>2, <2>3 DEF Escapes, Exits, C
<1> QED
  BY <1>12, <1>13, <1>14, <1>15, <1>16, <1>17, <1>18, <1>19, <1>20 DEF GraphStep

LEMMA EscapesStart ==
  Init => Escapes
<1> SUFFICES ASSUME Init PROVE Escapes
  OBVIOUS
<1>1. frames = <<>> /\ blocks = <<>> /\ Len(<<>>) = 0 /\ 1..0 = {}
  BY DEF Init
<1>2. Len(blocks) = 0 /\ Len(frames) = 0 /\ 1..Len(blocks) = {} /\ 1..Len(frames) = {}
  BY <1>1
<1> QED
  BY <1>2 DEF Escapes, Trapless, Trap, Exits

LEMMA ReturnsFromEscapes ==
  ASSUME WellFormed, Flow, Escapes
  PROVE  EveryBlockReturns
<1> SUFFICES ASSUME NEW S \in (SUBSET Finished) \ {{}},
                    \A b \in S : ~(/\ blocks[b].terms # <<>>
                                   /\ \/ blocks[b].terms[1] = {}
                                      \/ ~(blocks[b].terms[1] \subseteq S))
             PROVE  FALSE
  BY DEF EveryBlockReturns
<1>1. FinishedCFG
  BY CFGFromFlow
<1>2. S # {} /\ S \subseteq 1..Len(blocks) /\ \A b \in S : blocks[b].terms # <<>>
  BY <1>1, FinishedAreFilled DEF FinishedCFG
<1>3. Trap(S, blocks)
  BY <1>2 DEF Trap
<1> QED
  BY <1>3 DEF Escapes, Trapless

(* Wherever a finished function is, a return can be reached: no nesting of *)
(* branches, loops and returns leaves blocks that lead round for ever      *)
(* (forstmt.cc, ifstmt.cc, retstmt.cc).                                    *)
THEOREM ReturnsAreReached ==
  Spec => []EveryBlockReturns
<1>1. WellFormed /\ Naming /\ Flow /\ Phis /\ [Next]_vars => Steady /\ GraphStep
  BY FlowGoesOn
<1>2. WellFormed /\ WellFormed' /\ Flow /\ Flow' /\ Steady /\ GraphStep /\ Escapes => Escapes'
  BY EscapesStay
<1>3. WellFormed /\ Flow /\ Escapes => EveryBlockReturns
  BY ReturnsFromEscapes
<1> QED
  BY FlowAlways, EscapesStart, <1>1, <1>2, <1>3, PTL DEF Spec
-----------------------------------------------------------------------------
(* No function is without its entry block once its definition has begun.   *)
Entries ==
  \A i \in 1..Len(fns) : fns[i].state = "defined" =>
    \E b \in 1..Len(blocks) : blocks[b].fn = i /\ blocks[b].label = "entry"

LEMMA EntriesStay ==
  ASSUME WellFormed, Naming, Flow, Phis, Entries, [Next]_vars
  PROVE  Entries'
<1>1. TypeOK /\ Placed /\ TypeOK' /\ FnStep /\ Steady /\ GraphStep
  BY NextSteps, StepsOnFns, FlowGoesOn DEF WellFormed
<1>4. /\ Len(fns) \in Nat /\ Len(blocks) \in Nat /\ Len(blocks') \in Nat
      /\ Len(frames) \in Nat
  BY <1>1 DEF TypeOK
<1>2. ASSUME NEW i \in 1..Len(fns), fns[i].state = "defined"
      PROVE  \E b \in 1..Len(blocks') : blocks'[b].fn = i /\ blocks'[b].label = "entry"
  <2>1. PICK b \in 1..Len(blocks) : blocks[b].fn = i /\ blocks[b].label = "entry"
    BY <1>2 DEF Entries
  <2>2. b \in 1..Len(blocks') /\ blocks'[b].label = "entry" /\ blocks'[b].fn = i
    BY <1>1, <1>4, <2>1 DEF Steady
  <2> QED
    BY <2>2
<1>3. ASSUME NEW i \in 1..Len(fns'), fns'[i].state = "defined",
             i \in 1..Len(fns) => fns[i].state # "defined"
      PROVE  \E b \in 1..Len(blocks') : blocks'[b].fn = i /\ blocks'[b].label = "entry"
  <2>1. FnGained
    BY <1>1, <1>3 DEF FnStep, FnsUsed, Same, FnRefused, FnLost
  <2>2. PICK f \in Funcs, params \in ParamLists, k \in 1..MaxFns : Gains(f, params, k)
    BY <2>1 DEF FnGained
  <2>3. i = k /\ frames = <<>> /\ frames' # <<>> /\ frames'[1].fn = i
    BY <1>3, <2>2 DEF Gains
  <2>4. DefOpens
    <3>1. frames' \in Seq(Frames) /\ frames \in Seq(Frames)
      BY <1>1 DEF TypeOK
    <3>2. ~Alike(frames', frames)
      BY <2>3, <3>1 DEF Alike
    <3>3. Len(frames) # 1
      BY <2>3
    <3> QED
      BY <1>1, <2>3, <3>2, <3>3 DEF GraphStep, Stays, Returned, BranchOpens, BranchTurns,
         BranchesMeet, LoopOpens, LoopCloses, DefCloses, DefErased
  <2>5. PICK m \in 1..MaxFns : /\ frames' = <<Frame("func", m, 0, 0, 0, "none")>>
                               /\ Made(blocks'[Len(blocks) + 1], m, "entry", <<>>)
    BY <2>4 DEF DefOpens
  <2>6. m = i
    BY <2>3, <2>5 DEF Frame
  <2>7. Len(blocks) + 1 \in 1..Len(blocks')
    BY <1>4, <2>4 DEF DefOpens
  <2> QED
    BY <2>5, <2>6, <2>7 DEF Made
<1> QED
  BY <1>2, <1>3 DEF Entries

LEMMA NamesFromNaming ==
  ASSUME WellFormed, Naming, Entries
  PROVE  OneFunctionPerName
<1>1. TypeOK /\ Len(fns) \in Nat /\ DOMAIN fns = 1..Len(fns) /\ DOMAIN blocks = 1..Len(blocks)
  BY DEF WellFormed, TypeOK
<1> SUFFICES ASSUME NEW i \in 1..Len(fns)
             PROVE  /\ (fns[i].state = "erased") = (module[fns[i].name] # i)
                    /\ fns[i].state # "declared" => fns[i].state = "erased" \/
                         \E b \in 1..Len(blocks) : blocks[b].fn = i /\ blocks[b].label = "entry"
  BY <1>1 DEF OneFunctionPerName
<1>2. fns[i].name \in Funcs /\ fns[i].state \in {"declared", "defined", "erased"}
  BY <1>1, FnsTyped
<1>3. fns[i].state # "erased" => module[fns[i].name] = i
  BY DEF Naming, Known
<1>4. fns[i].state = "erased" => module[fns[i].name] # i
  BY <1>1, <1>2 DEF Naming, Known
<1>5. (fns[i].state = "erased") = (module[fns[i].name] # i)
  BY <1>3, <1>4
<1> QED
  BY <1>2, <1>5 DEF Entries

(* A name is that of one live function, and the module finds it.           *)
THEOREM NamesAreUnique ==
  Spec => []OneFunctionPerName
<1>1. Init => Entries
  BY DEF Init, Entries
<1>2. WellFormed /\ Naming /\ Flow /\ Phis /\ Entries /\ [Next]_vars => Entries'
  BY EntriesStay
<1>3. WellFormed /\ Naming /\ Entries => OneFunctionPerName
  BY NamesFromNaming
<1> QED
  BY FlowAlways, <1>1, <1>2, <1>3, PTL DEF Spec

(* No body is under way once an instruction had no block to go to.         *)
Calm == frames # <<>> => status \notin {"noblock", "dangling"}

(* Of the blocks of which it becomes true that an instruction is behind    *)
(* their terminator.                                                       *)
ReturnsOnly ==
  \A b \in stray' \ stray : b \notin DOMAIN blocks /\ blocks'[b].label = "ret_enter"

LEMMA ReturnPlaced ==
  ASSUME WellFormed, Flow, StrayIn(ip, TRUE) = stray, StrayIn(ip, FALSE) = stray,
         blocks[ip].terms = <<>>, NEW e \in Parsed, RetStmt(e), ~\E F : Stop(F)
  PROVE  ReturnsOnly
<1>1. /\ frames # <<>> /\ ip' = Len(blocks) + 2
      /\ stray' = StrayIn(ip, Emits(symtab_stack, e)) \cup {Len(blocks) + 1}
  BY DEF RetStmt
<1>2. StrayIn(ip, Emits(symtab_stack, e)) = stray
  BY DEF StrayIn
<1>3. TypeOK /\ Placed /\ e \in Exprs
  BY DEF WellFormed, Parsed
<1>4. blocks \in Seq(Blocks) /\ Len(blocks) \in Nat /\ ip \in 1..Len(blocks)
  BY <1>1, <1>3, AtWork
<1>5. ~Stays
  BY <1>1, <1>4 DEF Stays
<1>6. Returned
  BY <1>3, <1>5, RetStmtGraph
<1>7. blocks'[Len(blocks) + 1].label = "ret_enter" /\ Len(blocks) + 1 \notin DOMAIN blocks
  BY <1>4, <1>6 DEF Returned, Made
<1> QED
  BY <1>1, <1>2, <1>7 DEF ReturnsOnly

LEMMA InstructionsPlaced ==
  ASSUME WellFormed, Naming, Flow, Calm, [Next]_vars, frames # <<>>
  PROVE  status' \notin {"noblock", "dangling"} /\ ReturnsOnly
<1> DEFINE Goal == status' \notin {"noblock", "dangling"} /\ ReturnsOnly
<1>0. stray' = stray => ReturnsOnly
  BY DEF ReturnsOnly
<1>1. TypeOK /\ Placed
  BY DEF WellFormed
<1>2. status \notin {"noblock", "dangling"}
  BY DEF Calm
<1>3. ip # 0 /\ ~Freed
  BY <1>1, CurrentIsFn DEF Naming, Live, Freed
<1>4. \A emits : StrayIn(ip, emits) = stray
  <2>1. ip \in Unfilled
    BY <1>1, UnfilledThere DEF Flow
  <2>2. blocks[ip].terms = <<>>
    BY <2>1 DEF Flow, Filling
  <2> QED
    BY <2>2 DEF StrayIn
<1>5. \A stk, e, use : FaultsOf(stk, e, use) \cap {"noblock", "dangling"} = {}
  BY <1>3 DEF FaultsOf
<1>6. ASSUME NEW e \in Parsed,
             ExprStmt(e) \/ IfSkipped(e) \/ IfCond(e) \/ ForTail(e)
      PROVE  Goal
  <2>1. status' \notin {"noblock", "dangling"} /\ stray' = stray
    BY <1>2, <1>4, <1>5, <1>6 DEF ExprStmt, IfSkipped, IfCond, ForTail, Stop
  <2> QED
    BY <1>0, <2>1
<1>11. ASSUME NEW e \in Parsed, RetStmt(e) PROVE Goal
  <2>1. CASE \E F : Stop(F)
    <3>1. stray' = stray
      BY <2>1 DEF Stop
    <3>2. status' \in FaultsOf(symtab_stack, e, "value") \/ status' = status
      BY <1>11 DEF RetStmt, Stop
    <3> QED
      BY <1>0, <1>2, <1>5, <3>1, <3>2
  <2>2. CASE ~\E F : Stop(F)
    <3>1. status' = status
      BY <1>11, <2>2 DEF RetStmt
    <3>2. blocks[ip].terms = <<>>
      <4>1. ip \in Unfilled
        BY <1>1, UnfilledThere DEF Flow
      <4> QED
        BY <4>1 DEF Flow, Filling
    <3>3. ReturnsOnly
      BY <1>4, <1>11, <2>2, <3>2, ReturnPlaced
    <3> QED
      BY <1>2, <3>1, <3>3
  <2> QED
    BY <2>1, <2>2
<1>7. ASSUME NEW e \in Parsed, NEW n \in Idents, NEW type \in {"double", "int"},
             VarDecl(n, type, e)
      PROVE  Goal
  <2>1. \/ /\ status' \in {"storetype"} \cup FaultsOf(symtab_stack, e, "operand")
           /\ stray' = stray
        \/ status' = status /\ stray' = StrayIn(ip, TRUE)
    BY <1>3, <1>7 DEF VarDecl, Stop
  <2> QED
    BY <1>0, <1>2, <1>4, <1>5, <2>1
<1>8. ASSUME NEW e \in Parsed, NEW n \in Idents, NEW end \in Parsed, ForHead(n, e, end)
      PROVE  Goal
  <2>1. \/ /\ \E stk, x : x \in {e, end} /\ status' \in FaultsOf(stk, x, "operand")
           /\ stray' = stray
        \/ status' = status /\ stray' = StrayIn(ip, TRUE)
    BY <1>8 DEF ForHead, Stop
  <2> QED
    BY <1>0, <1>2, <1>4, <1>5, <2>1
<1>9. CASE IfElse \/ IfMerge \/ EndDef \/ EraseDef \/ Finish \/ Stopped \/ UNCHANGED vars
  BY <1>0, <1>2, <1>9 DEF IfElse, IfMerge, EndDef, EraseDef, Finish, Stopped, Stop, vars
<1>10. ASSUME NEW f \in Funcs, NEW params \in ParamLists,
              RefusedDef(f, params) \/ ExternDef(f, params) \/ BeginDef(f, params)
       PROVE  Goal
  BY <1>10 DEF RefusedDef, ExternDef, BeginDef
<1> QED
  BY <1>6, <1>7, <1>8, <1>9, <1>10, <1>11 DEF Next

LEMMA BodiesStartCalm ==
  ASSUME [Next]_vars, frames = <<>>, frames' # <<>>
  PROVE  status' = "running"
<1>1. ASSUME NEW e, NEW n, NEW end, NEW type,
             \/ ExprStmt(e) \/ RetStmt(e) \/ IfSkipped(e) \/ IfCond(e) \/ ForTail(e)
             \/ VarDecl(n, type, e) \/ ForHead(n, e, end)
      PROVE  FALSE
  BY <1>1 DEF ExprStmt, RetStmt, IfSkipped, IfCond, ForTail, VarDecl, ForHead, Valued, Stop
<1>2. ASSUME NEW f \in Funcs, NEW params \in ParamLists,
             RefusedDef(f, params) \/ ExternDef(f, params)
      PROVE  FALSE
  BY <1>2 DEF RefusedDef, ExternDef
<1>3. ASSUME NEW f \in Funcs, NEW params \in ParamLists, BeginDef(f, params)
      PROVE  status' = "running"
  BY <1>3 DEF BeginDef, Running
<1>4. CASE IfElse \/ IfMerge \/ EndDef \/ EraseDef \/ Finish \/ Stopped \/ UNCHANGED vars
  BY <1>4 DEF IfElse, IfMerge, EndDef, EraseDef, Finish, Stopped, vars
<1> QED
  BY <1>1, <1>2, <1>3, <1>4 DEF Next

(* While a body is generated no instruction is without a block, in a freed *)
(* one or behind a terminator, but for the branch behind a return.         *)
THEOREM MisplacedAreTopLevel ==
  Spec => MisplacedOnlyTopLevel
<1>1. Init => Calm
  BY DEF Init, Calm
<1>2. WellFormed /\ Naming /\ Flow /\ Calm /\ [Next]_vars => Calm'
  BY InstructionsPlaced, BodiesStartCalm DEF Calm
<1>3. WellFormed /\ Naming /\ Flow /\ Calm /\ [Next]_vars =>
        [frames # <<>> =>
           /\ status' \notin {"noblock", "dangling"}
           /\ \A b \in stray' \ stray : b \notin DOMAIN blocks /\ blocks'[b].label = "ret_enter"]_vars
  BY InstructionsPlaced DEF ReturnsOnly
<1> QED
  BY FlowAlways, <1>1, <1>2, <1>3, PTL DEF Spec, MisplacedOnlyTopLevel
-----------------------------------------------------------------------------
(* Uses of another function's stack slot.  What is bound is a local of the *)
(* function under way or was declared at the top level, and a block uses   *)
(* the slots of its own function but for the latter (T is their owners);   *)
(* one that no function has got yet uses no others, whoever gets it.       *)
Home(B, T) == \A b \in 1..Len(B) : B[b].uses \subseteq {B[b].fn} \cup T

TopAmong(stk) ==
  {u \in 1..MaxFns : \E i \in 1..Len(stk), n \in Idents :
     TopAt(stk, i, n) /\ stk[i]["variable"][n].fn = u}

Homely == Home(blocks, TopAmong(symtab_stack))

OwnedBy(stk, fn, T) ==
  \A i \in 1..Len(stk), n \in Idents :
    stk[i]["variable"][n] # Null => stk[i]["variable"][n].fn \in {fn} \cup T

LEMMA OwnersHome ==
  ASSUME NEW stk, Len(stk) \in Nat, NEW e \in Exprs, NEW fn, NEW T, OwnedBy(stk, fn, T)
  PROVE  Owners(stk, e) \subseteq {fn} \cup T
<1>1. Names(e) \subseteq Idents
  BY ExprsAssumption DEF Names
<1>2. ASSUME NEW n \in Idents, Bound(stk, n)
      PROVE  Find(stk, "variable", n).fn \in {fn} \cup T
  <2> DEFINE H == Holders(stk, Len(stk), "variable", n)
  <2>1. H \subseteq 1..Len(stk)
    BY DEF Holders
  <2>2. H # {} /\ Find(stk, "variable", n) = stk[Max(H)]["variable"][n]
    BY <1>2 DEF Bound, Find, FindFrom
  <2> HIDE DEF H
  <2>3. Max(H) \in 1..Len(stk)
    BY <2>1, <2>2, Highest
  <2> QED
    BY <1>2, <2>2, <2>3 DEF OwnedBy, Bound
<1> QED
  BY <1>1, <1>2 DEF Owners

LEMMA UsingHome ==
  ASSUME NEW T, NEW B \in Seq(Blocks), Home(B, T), NEW b \in 0..Len(B),
         NEW U \in SUBSET (1..MaxFns), b # 0 => U \subseteq {B[b].fn} \cup T
  PROVE  Home(Using(B, b, U), T)
<1>1. CASE b = 0
  BY <1>1 DEF Using
<1>2. CASE b # 0
  <2> DEFINE new == [B[b] EXCEPT !.uses = @ \cup U]
  <2>1. B[b] \in Blocks /\ b \in 1..Len(B)
    BY <1>2
  <2>2. new.fn = B[b].fn /\ new.uses = B[b].uses \cup U
    BY <2>1 DEF Blocks
  <2>3. Using(B, b, U) = [B EXCEPT ![b] = new]
    BY <1>2 DEF Using
  <2> HIDE DEF new
  <2>4. /\ Len(Using(B, b, U)) = Len(B) /\ Using(B, b, U)[b] = new
        /\ \A c \in 1..Len(B) : c # b => Using(B, b, U)[c] = B[c]
    BY <2>1, <2>3
  <2> QED
    BY <1>2, <2>1, <2>2, <2>4 DEF Home
<1> QED
  BY <1>1, <1>2

LEMMA TerminatedHome ==
  ASSUME NEW T, NEW B \in Seq(Blocks), Home(B, T), NEW b \in 1..Len(B), NEW S
  PROVE  Home(Terminated(B, b, S), T)
<1> DEFINE new == [B[b] EXCEPT !.terms = Append(@, S)]
<1>1. B[b] \in Blocks
  OBVIOUS
<1>2. new.fn = B[b].fn /\ new.uses = B[b].uses
  BY <1>1 DEF Blocks
<1>3. Terminated(B, b, S) = [B EXCEPT ![b] = new]
  BY DEF Terminated
<1> HIDE DEF new
<1>4. /\ Len(Terminated(B, b, S)) = Len(B) /\ Terminated(B, b, S)[b] = new
      /\ \A c \in 1..Len(B) : c # b => Terminated(B, b, S)[c] = B[c]
  BY <1>3
<1> QED
  BY <1>2, <1>4 DEF Home

LEMMA AttachedHome ==
  ASSUME NEW T, NEW B \in Seq(Blocks), Home(B, T), NEW b \in 1..Len(B),
         NEW fn \in 0..MaxFns, B[b].fn \in {0, fn}
  PROVE  Home(Attached(B, b, fn), T)
<1> DEFINE new == [B[b] EXCEPT !.fn = fn]
<1>1. B[b] \in Blocks
  OBVIOUS
<1>2. new.fn = fn /\ new.uses = B[b].uses /\ 0 \notin B[b].uses
  BY <1>1, BoundsAssumption DEF Blocks
<1>3. Attached(B, b, fn) = [B EXCEPT ![b] = new]
  BY DEF Attached
<1> HIDE DEF new
<1>4. /\ Len(Attached(B, b, fn)) = Len(B) /\ Attached(B, b, fn)[b] = new
      /\ \A c \in 1..Len(B) : c # b => Attached(B, b, fn)[c] = B[c]
  BY <1>3
<1>5. B[b].uses \subseteq {fn} \cup T
  BY <1>2 DEF Home
<1> QED
  BY <1>2, <1>4, <1>5 DEF Home

LEMMA JoinedHome ==
  ASSUME NEW T, NEW B \in Seq(Blocks), NEW N \in Seq(Blocks), Home(B, T),
         \A i \in 1..Len(N) : N[i].uses = {}
  PROVE  Home(B \o N, T)
<1>1. /\ Len(B) \in Nat /\ Len(N) \in Nat
      /\ Len(B \o N) = Len(B) + Len(N)
      /\ \A i \in 1..Len(B) : (B \o N)[i] = B[i]
      /\ \A i \in (Len(B) + 1)..(Len(B) + Len(N)) : (B \o N)[i] = N[i - Len(B)]
  OBVIOUS
<1>2. \A i \in (Len(B) + 1)..(Len(B) + Len(N)) : i - Len(B) \in 1..Len(N)
  BY <1>1
<1>3. \A i \in 1..(Len(B) + Len(N)) :
        i \in 1..Len(B) \/ i \in (Len(B) + 1)..(Len(B) + Len(N))
  BY <1>1
<1> HIDE DEF Home
<1>4. ASSUME NEW i \in 1..Len(B \o N)
      PROVE  (B \o N)[i].uses \subseteq {(B \o N)[i].fn} \cup T
  <2>1. CASE i \in 1..Len(B)
    BY <1>1, <2>1 DEF Home
  <2>2. CASE i \in (Len(B) + 1)..(Len(B) + Len(N))
    BY <1>1, <1>2, <2>2
  <2> QED
    BY <1>1, <1>3, <2>1, <2>2
<1> QED
  BY <1>4 DEF Home

LEMMA StatementHome ==
  ASSUME NEW T, TypeOK, Placed, Home(blocks, T), OwnedBy(symtab_stack, CurrentFn, T),
         NEW e \in Exprs, ExprStmt(e) \/ IfSkipped(e)
  PROVE  Home(blocks', T)
<1>1. blocks' = blocks \/ blocks' = Using(blocks, ip, Owners(symtab_stack, e))
  BY DEF ExprStmt, IfSkipped, Stop
<1>2. /\ blocks \in Seq(Blocks) /\ ip \in 0..Len(blocks) /\ Len(symtab_stack) \in Nat
      /\ Owners(symtab_stack, e) \in SUBSET (1..MaxFns)
  BY OwnersAreFns DEF TypeOK
<1>3. ip # 0 => Owners(symtab_stack, e) \subseteq {blocks[ip].fn} \cup T
  BY <1>2, OwnersHome DEF CurrentFn
<1> QED
  BY <1>1, <1>2, <1>3, UsingHome

LEMMA VarDeclHome ==
  ASSUME NEW T, TypeOK, Placed, Home(blocks, T), OwnedBy(symtab_stack, CurrentFn, T),
         NEW n \in Idents, NEW type, NEW e \in Exprs, VarDecl(n, type, e)
  PROVE  Home(blocks', T)
<1> DEFINE U == Owners(symtab_stack, e) \cup {CurrentFn}
<1>1. blocks' = blocks \/ (blocks' = Using(blocks, ip, U) /\ ip # 0)
  BY DEF VarDecl, Stop
<1>2. CASE blocks' = Using(blocks, ip, U) /\ ip # 0
  <2>1. /\ blocks \in Seq(Blocks) /\ ip \in 0..Len(blocks) /\ Len(symtab_stack) \in Nat
        /\ U \in SUBSET (1..MaxFns)
    BY <1>2, OwnersAreFns, CurrentIsFn DEF TypeOK
  <2>2. U \subseteq {blocks[ip].fn} \cup T
    BY <1>2, <2>1, OwnersHome DEF CurrentFn
  <2> HIDE DEF U
  <2> QED
    BY <1>2, <2>1, <2>2, UsingHome
<1> QED
  BY <1>1, <1>2

LEMMA NewUnused ==
  ASSUME NEW fn, NEW label
  PROVE  NewBlock(fn, label).uses = {}
  BY DEF NewBlock

LEMMA RetStmtHome ==
  ASSUME NEW T, TypeOK, Placed, Home(blocks, T), OwnedBy(symtab_stack, CurrentFn, T),
         NEW e \in Exprs, RetStmt(e)
  PROVE  Home(blocks', T)
<1> DEFINE n  == Len(blocks)
           k  == n + 1
           N  == <<NewBlock(CurrentFn, "ret_enter"), NewBlock(CurrentFn, "ret_exit")>>
           U  == Owners(symtab_stack, e)
           B0 == blocks \o N
           B1 == Using(B0, ip, U)
           S1 == {n + 1}
           S2 == {n + 2}
           S3 == {}
           B2 == Terminated(B1, ip, S1)
           B3 == Terminated(B2, k, S3)
           B4 == Terminated(B3, k, S2)
<1>1. CASE blocks' = blocks
  BY <1>1
<1>2. CASE blocks' # blocks
  <2>1. /\ frames # <<>> /\ n + 2 <= MaxBlocks /\ blocks' = B4
    BY <1>2 DEF RetStmt, Stop
  <2>2. /\ blocks \in Seq(Blocks) /\ n \in Nat /\ ip \in 1..n /\ MaxBlocks \in Nat
        /\ CurrentFn \in 0..MaxFns /\ U \in SUBSET (1..MaxFns) /\ blocks[ip].fn = CurrentFn
        /\ Len(symtab_stack) \in Nat
    BY <2>1, AtWork DEF TypeOK
  <2>3. U \subseteq {CurrentFn} \cup T
    BY <2>2, OwnersHome
  <2>4. N \in Seq(Blocks) /\ Len(N) = 2 /\ \A i \in 1..Len(N) : N[i].uses = {}
    <3>1. N \in Seq(Blocks) /\ Len(N) = 2
      BY <2>2, NewBlocks
    <3>2. N[1].uses = {} /\ N[2].uses = {}
      BY NewUnused
    <3> HIDE DEF N
    <3> QED
      BY <3>1, <3>2
  <2> HIDE DEF N, U
  <2>5. /\ B0 \in Seq(Blocks) /\ Len(B0) = n + 2 /\ Home(B0, T)
        /\ \A b \in 1..n : B0[b] = blocks[b]
    <3>1. /\ B0 \in Seq(Blocks) /\ Len(B0) = n + Len(N)
          /\ \A b \in 1..n : B0[b] = blocks[b]
      BY <2>2, <2>4, BlocksJoined
    <3>2. Home(B0, T)
      BY <2>2, <2>4, JoinedHome
    <3> HIDE DEF B0
    <3> QED
      BY <2>4, <3>1, <3>2
  <2>6. /\ ip \in 1..(n + 2) /\ ip \in 0..(n + 2) /\ k \in 1..(n + 2)
        /\ S1 \in SUBSET (1..MaxBlocks) /\ S2 \in SUBSET (1..MaxBlocks)
        /\ S3 \in SUBSET (1..MaxBlocks)
    BY <2>1, <2>2
  <2> HIDE DEF B0, n, k, S1, S2, S3
  <2>7. B0[ip].fn = CurrentFn
    BY <2>2, <2>5
  <2>8. B1 \in Seq(Blocks) /\ Len(B1) = Len(B0) /\ Home(B1, T)
    BY <2>2, <2>3, <2>5, <2>6, <2>7, UsingHome, UsingLike
  <2> HIDE DEF B1
  <2>9. B2 \in Seq(Blocks) /\ Len(B2) = Len(B0) /\ Home(B2, T)
    BY <2>5, <2>6, <2>8, TerminatedHome, TerminatedEnds
  <2> HIDE DEF B2
  <2>10. B3 \in Seq(Blocks) /\ Len(B3) = Len(B0) /\ Home(B3, T)
    BY <2>5, <2>6, <2>9, TerminatedHome, TerminatedEnds
  <2> HIDE DEF B3
  <2>11. Home(B4, T)
    BY <2>5, <2>6, <2>10, TerminatedHome
  <2> HIDE DEF B4
  <2> QED
    BY <2>1, <2>11
<1> QED
  BY <1>1, <1>2

LEMMA IfCondHome ==
  ASSUME NEW T, TypeOK, Placed, Home(blocks, T), OwnedBy(symtab_stack, CurrentFn, T),
         NEW e \in Exprs, IfCond(e)
  PROVE  Home(blocks', T)
<1> DEFINE n  == Len(blocks)
           N  == <<NewBlock(CurrentFn, "then"), NewBlock(0, "else"), NewBlock(0, "ifcont")>>
           U  == Owners(symtab_stack, e)
           B0 == blocks \o N
           B1 == Using(B0, ip, U)
           S  == {n + 1, n + 2}
           B2 == Terminated(B1, ip, S)
<1>1. CASE blocks' = blocks
  BY <1>1
<1>2. CASE blocks' # blocks
  <2>1. frames # <<>> /\ n + 3 <= MaxBlocks /\ blocks' = B2
    BY <1>2 DEF IfCond, Stop
  <2>2. /\ blocks \in Seq(Blocks) /\ n \in Nat /\ ip \in 1..n /\ MaxBlocks \in Nat
        /\ CurrentFn \in 0..MaxFns /\ U \in SUBSET (1..MaxFns) /\ blocks[ip].fn = CurrentFn
        /\ Len(symtab_stack) \in Nat /\ 0 \in 0..MaxFns
    BY <2>1, AtWork, BoundsAssumption DEF TypeOK
  <2>3. U \subseteq {CurrentFn} \cup T
    BY <2>2, OwnersHome
  <2>4. N \in Seq(Blocks) /\ Len(N) = 3 /\ \A i \in 1..Len(N) : N[i].uses = {}
    <3>1. N \in Seq(Blocks) /\ Len(N) = 3
      BY <2>2, NewBlocks
    <3>2. N[1].uses = {} /\ N[2].uses = {} /\ N[3].uses = {}
      BY NewUnused
    <3> HIDE DEF N
    <3> QED
      BY <3>1, <3>2
  <2> HIDE DEF N, U
  <2>5. /\ B0 \in Seq(Blocks) /\ Len(B0) = n + 3 /\ Home(B0, T)
        /\ \A b \in 1..n : B0[b] = blocks[b]
    <3>1. /\ B0 \in Seq(Blocks) /\ Len(B0) = n + Len(N)
          /\ \A b \in 1..n : B0[b] = blocks[b]
      BY <2>2, <2>4, BlocksJoined
    <3>2. Home(B0, T)
      BY <2>2, <2>4, JoinedHome
    <3> HIDE DEF B0
    <3> QED
      BY <2>4, <3>1, <3>2
  <2>6. ip \in 1..(n + 3) /\ ip \in 0..(n + 3)
    BY <2>1, <2>2
  <2> HIDE DEF B0, n, S
  <2>7. B0[ip].fn = CurrentFn
    BY <2>2, <2>5
  <2>8. B1 \in Seq(Blocks) /\ Len(B1) = Len(B0) /\ Home(B1, T)
    BY <2>2, <2>3, <2>5, <2>6, <2>7, UsingHome, UsingLike
  <2> HIDE DEF B1
  <2>9. Home(B2, T)
    BY <2>5, <2>6, <2>8, TerminatedHome
  <2> HIDE DEF B2
  <2> QED
    BY <2>1, <2>9
<1> QED
  BY <1>1, <1>2

LEMMA ForHeadHome ==
  ASSUME NEW T, TypeOK, Placed, TypeOK', Home(blocks, T),
         NEW v \in Idents, NEW start \in Exprs, NEW end \in Exprs, ForHead(v, start, end),
         symtab_stack' # symtab_stack => OwnedBy(symtab_stack', CurrentFn, T)
  PROVE  Home(blocks', T)
<1> DEFINE stk == Added(Entered(symtab_stack), "variable", v, Slot(CurrentFn))
           n  == Len(blocks)
           k  == n + 1
           N  == [i \in 1..4 |->
                   NewBlock(CurrentFn, <<"for.cond", "for.body", "for.inc", "for.exit">>[i])]
           U0 == Owners(stk, start) \cup {CurrentFn}
           U1 == Owners(stk, end)
           S0 == {n + 1}
           S1 == {n + 2, n + 4}
           B0 == blocks \o N
           B1 == Using(B0, ip, U0)
           B2 == Terminated(B1, ip, S0)
           B3 == Using(B2, k, U1)
           B4 == Terminated(B3, k, S1)
<1>1. CASE blocks' = blocks
  BY <1>1
<1>2. CASE blocks' # blocks
  <2>1. /\ frames # <<>> /\ n + 4 <= MaxBlocks /\ blocks' = B4
        /\ symtab_stack' = stk
    BY <1>2 DEF ForHead, Stop
  <2>2. /\ blocks \in Seq(Blocks) /\ n \in Nat /\ ip \in 1..n /\ MaxBlocks \in Nat
        /\ CurrentFn \in 0..MaxFns /\ CurrentFn \in 1..MaxFns /\ blocks[ip].fn = CurrentFn
    BY <2>1, AtWork
  <2>3. stk \in Seq(Tables(Slots)) /\ Len(stk) >= 1 /\ Len(stk) \in Nat /\ stk # symtab_stack
    <3>1. symtab_stack \in Seq(Tables(Slots)) /\ Len(symtab_stack) >= 1
      BY DEF TypeOK
    <3>2. /\ Entered(symtab_stack) \in Seq(Tables(Slots)) /\ Len(Entered(symtab_stack)) >= 1
          /\ Len(Entered(symtab_stack)) = Len(symtab_stack) + 1
      BY <3>1, EnteredStack
    <3>3. Slot(CurrentFn) \in Slots
      BY <2>2 DEF Slot, Slots
    <3>4. stk \in Seq(Tables(Slots)) /\ Len(stk) = Len(Entered(symtab_stack))
      BY <3>2, <3>3, AddedStack, KindsAssumption
    <3> HIDE DEF stk
    <3>5. Len(stk) # Len(symtab_stack)
      BY <3>1, <3>2, <3>4
    <3> QED
      BY <3>1, <3>2, <3>4, <3>5
  <2> HIDE DEF stk
  <2>4. OwnedBy(stk, CurrentFn, T)
    BY <2>1, <2>3
  <2>5. /\ U0 \in SUBSET (1..MaxFns) /\ U1 \in SUBSET (1..MaxFns)
        /\ U0 \subseteq {CurrentFn} \cup T /\ U1 \subseteq {CurrentFn} \cup T
    BY <2>2, <2>3, <2>4, OwnersAreFns, OwnersHome
  <2>6. N \in Seq(Blocks) /\ Len(N) = 4 /\ (\A i \in 1..Len(N) : N[i].uses = {})
        /\ N[1].fn = CurrentFn
    <3>1. \A i \in 1..4 : N[i] \in Blocks
      BY <2>2, NewBlocks
    <3>2. \A i \in 1..4 : N[i].uses = {} /\ N[i].fn = CurrentFn
      BY DEF NewBlock
    <3>3. N \in Seq(Blocks) /\ Len(N) = 4
      BY <3>1
    <3> HIDE DEF N
    <3> QED
      BY <3>2, <3>3
  <2> HIDE DEF N, U0, U1
  <2>7. /\ B0 \in Seq(Blocks) /\ Len(B0) = n + 4 /\ Home(B0, T) /\ B0[n + 1] = N[1]
        /\ \A b \in 1..n : B0[b] = blocks[b]
    <3>1. /\ B0 \in Seq(Blocks) /\ Len(B0) = n + Len(N)
          /\ \A b \in 1..n : B0[b] = blocks[b]
          /\ \A c \in 1..Len(N) : B0[n + c] = N[c]
      BY <2>2, <2>6, BlocksJoined
    <3>2. Home(B0, T)
      BY <2>2, <2>6, JoinedHome
    <3>3. 1 \in 1..4
      OBVIOUS
    <3> HIDE DEF B0
    <3> QED
      BY <2>6, <3>1, <3>2, <3>3
  <2>8. /\ ip \in 1..(n + 4) /\ ip \in 0..(n + 4) /\ k \in 0..(n + 4) /\ k # 0
        /\ k \in 1..(n + 4) /\ S0 \in SUBSET (1..MaxBlocks) /\ S1 \in SUBSET (1..MaxBlocks)
    BY <2>1, <2>2
  <2>9. B0[ip].fn = CurrentFn /\ B0[k].fn = CurrentFn
    <3> HIDE DEF B0
    <3> QED
      BY <2>2, <2>6, <2>7
  <2> HIDE DEF B0, n, k, S0, S1
  <2>10. B1 \in Seq(Blocks) /\ Len(B1) = Len(B0) /\ Home(B1, T) /\ SameOwners(B0, B1)
    BY <2>5, <2>7, <2>8, <2>9, UsingHome, UsingSame, UsingLike
  <2> HIDE DEF B1
  <2>11. B2 \in Seq(Blocks) /\ Len(B2) = Len(B0) /\ Home(B2, T) /\ SameOwners(B1, B2)
    BY <2>7, <2>8, <2>10, TerminatedHome, TerminatedSame, TerminatedEnds
  <2> HIDE DEF B2
  <2>12. B2[k].fn = CurrentFn
    BY <2>7, <2>8, <2>9, <2>10, <2>11 DEF SameOwners
  <2>13. B3 \in Seq(Blocks) /\ Len(B3) = Len(B0) /\ Home(B3, T)
    BY <2>5, <2>7, <2>8, <2>11, <2>12, UsingHome, UsingLike
  <2> HIDE DEF B3
  <2>14. Home(B4, T)
    BY <2>7, <2>8, <2>13, TerminatedHome
  <2> HIDE DEF B4
  <2> QED
    BY <2>1, <2>14
<1> QED
  BY <1>1, <1>2

LEMMA BranchHome ==
  ASSUME NEW T, TypeOK, Placed, Home(blocks, T), IfElse \/ IfMerge,
         Last(frames).kind = "then" => blocks[Last(frames).next].fn \in {0, CurrentFn},
         Last(frames).kind = "else" => blocks[Last(frames).join].fn \in {0, CurrentFn}
  PROVE  Home(blocks', T)
<1> DEFINE top == Last(frames)
           b  == IF top.kind = "then" THEN top.next ELSE top.join
           S  == {top.join}
           P  == {top.from, ip}
           B1 == Terminated(blocks, ip, S)
           B2 == Attached(B1, b, top.fn)
<1>1. CASE blocks' = blocks
  BY <1>1
<1>2. CASE blocks' # blocks
  <2>1. /\ frames # <<>> /\ top.kind \in {"then", "else"}
        /\ blocks' = B2 \/ blocks' = [B2 EXCEPT ![b].phi = P]
    BY <1>2 DEF IfElse, IfMerge, Stop
  <2>2. b \in 1..Len(blocks) /\ top.fn = CurrentFn /\ top.join \in 1..Len(blocks)
    BY <2>1, NestedFrames
  <2>3. blocks[b].fn \in {0, top.fn}
    BY <2>1, <2>2
  <2>4. /\ blocks \in Seq(Blocks) /\ ip \in 1..Len(blocks) /\ S \in SUBSET (1..MaxBlocks)
        /\ top.fn \in 0..MaxFns
    BY <2>1, <2>2, AtWork
  <2> HIDE DEF top, b, S, P
  <2>5. B1 \in Seq(Blocks) /\ Len(B1) = Len(blocks) /\ Home(B1, T) /\ SameOwners(blocks, B1)
    BY <2>4, TerminatedHome, TerminatedSame, TerminatedEnds
  <2> HIDE DEF B1
  <2>6. B1[b].fn \in {0, top.fn} /\ b \in 1..Len(B1)
    BY <2>2, <2>3, <2>5 DEF SameOwners
  <2>7. B2 \in Seq(Blocks) /\ Len(B2) = Len(B1) /\ Home(B2, T)
    BY <2>4, <2>5, <2>6, AttachedHome, AttachedOwned
  <2> HIDE DEF B2
  <2>8. Home([B2 EXCEPT ![b].phi = P], T)
    <3> DEFINE new == [B2[b] EXCEPT !.phi = P]
               C == [B2 EXCEPT ![b] = new]
    <3>1. B2[b] \in Blocks
      BY <2>6, <2>7
    <3>2. new.fn = B2[b].fn /\ new.uses = B2[b].uses
      BY <3>1 DEF Blocks
    <3> HIDE DEF new
    <3>3. /\ Len(C) = Len(B2) /\ C[b] = new
          /\ \A c \in 1..Len(B2) : c # b => C[c] = B2[c]
      BY <2>6, <2>7
    <3> HIDE DEF C
    <3>4. Home(C, T)
      BY <2>7, <3>2, <3>3 DEF Home
    <3> QED
      BY <3>4 DEF C, new
  <2> QED
    BY <2>1, <2>7, <2>8
<1> QED
  BY <1>1, <1>2

LEMMA ForTailHome ==
  ASSUME NEW T, TypeOK, Placed, Home(blocks, T), OwnedBy(symtab_stack, CurrentFn, T),
         NEW e \in Exprs, ForTail(e), blocks[Last(frames).next].fn = CurrentFn
  PROVE  Home(blocks', T)
<1> DEFINE top == Last(frames)
           b  == top.next
           U  == Owners(symtab_stack, e) \cup {top.fn}
           S1 == {top.next}
           S2 == {top.from}
           B1 == Terminated(blocks, ip, S1)
           B2 == Using(B1, b, U)
           B3 == Terminated(B2, b, S2)
<1>1. CASE blocks' = blocks
  BY <1>1
<1>2. CASE blocks' # blocks
  <2>1. frames # <<>> /\ top.kind = "for" /\ blocks' = B3
    BY <1>2 DEF ForTail, BackEdge, Stop
  <2>2. /\ top.from \in 1..Len(blocks) /\ top.fn = CurrentFn /\ b \in 1..Len(blocks)
    BY <2>1, NestedFrames
  <2>3. /\ blocks \in Seq(Blocks) /\ ip \in 1..Len(blocks) /\ Len(symtab_stack) \in Nat
        /\ U \in SUBSET (1..MaxFns) /\ S1 \in SUBSET (1..MaxBlocks)
        /\ S2 \in SUBSET (1..MaxBlocks)
    BY <2>1, <2>2, AtWork DEF TypeOK
  <2>4. U \subseteq {blocks[b].fn} \cup T
    BY <2>2, <2>3, OwnersHome
  <2>5. b \in 0..Len(blocks)
    BY <2>2
  <2> HIDE DEF top, b, U, S1, S2
  <2>6. B1 \in Seq(Blocks) /\ Len(B1) = Len(blocks) /\ Home(B1, T) /\ SameOwners(blocks, B1)
    BY <2>3, TerminatedHome, TerminatedSame, TerminatedEnds
  <2> HIDE DEF B1
  <2>7. B1[b].fn = blocks[b].fn
    BY <2>2, <2>6 DEF SameOwners
  <2>8. B2 \in Seq(Blocks) /\ Len(B2) = Len(blocks) /\ Home(B2, T)
    BY <2>3, <2>4, <2>5, <2>6, <2>7, UsingHome, UsingLike
  <2> HIDE DEF B2
  <2>9. Home(B3, T)
    BY <2>2, <2>8, TerminatedHome
  <2> HIDE DEF B3
  <2> QED
    BY <2>1, <2>9
<1> QED
  BY <1>1, <1>2

LEMMA DefHome ==
  ASSUME NEW T, TypeOK, Placed, Home(blocks, T),
         \/ \E f \in Funcs, params \in ParamLists : BeginDef(f, params)
         \/ EndDef
  PROVE  Home(blocks', T)
<1>1. blocks \in Seq(Blocks)
  BY DEF TypeOK
<1>2. ASSUME NEW f \in Funcs, NEW params \in ParamLists, BeginDef(f, params)
      PROVE  Home(blocks', T)
  <2> DEFINE fn == Resolved(f, params)
             x  == [NewBlock(fn, "entry") EXCEPT !.uses = {fn}]
  <2>1. fn \in 1..MaxFns /\ blocks' = Append(blocks, x)
    BY <1>2 DEF BeginDef
  <2> HIDE DEF fn
  <2>2. fn \in 0..MaxFns
    BY <2>1, BoundsAssumption
  <2>3. NewBlock(fn, "entry") \in Blocks /\ NewBlock(fn, "entry").fn = fn
    BY <2>2, NewBlocks
  <2>4. x \in Blocks /\ x.fn = fn /\ x.uses = {fn}
    BY <2>1, <2>3 DEF Blocks
  <2> HIDE DEF x
  <2>5. /\ Len(blocks') = Len(blocks) + 1 /\ blocks'[Len(blocks) + 1] = x
        /\ \A b \in 1..Len(blocks) : blocks'[b] = blocks[b]
    BY <1>1, <2>1, <2>4, Appended
  <2>6. Len(blocks) \in Nat
    BY <1>1
  <2> QED
    BY <2>4, <2>5, <2>6 DEF Home
<1>3. CASE EndDef
  <2>0. Len(frames) = 1
    BY <1>3 DEF EndDef
  <2>1. frames # <<>>
    BY <2>0
  <2>2. ip \in 1..Len(blocks) /\ blocks' = Terminated(blocks, ip, {})
    BY <1>3, <2>1, AtWork DEF EndDef
  <2> QED
    BY <1>1, <2>2, TerminatedHome
<1> QED
  BY <1>2, <1>3

LEMMA LocalOrTop ==
  ASSUME NEW stk \in Seq(Tables(Slots)),
         NEW i \in 1..Len(stk), NEW n \in Idents, stk[i]["variable"][n] # Null
  PROVE  LocalAt(stk, i, n) \/ stk[i]["variable"][n].fn \in TopAmong(stk)
<1>1. stk[i] \in Tables(Slots)
  OBVIOUS
<1>2. stk[i]["variable"][n] \in Slots
  BY <1>1, KindsAssumption DEF Tables
<1> QED
  BY <1>2 DEF Slots, TopAmong, TopAt, LocalAt

LEMMA HomelyStays ==
  ASSUME WellFormed, Flow, LocalsOwned, LocalsOwned', TopsOutlast, Homely, [Next]_vars
  PROVE  Homely'
<1>1. TypeOK /\ Placed /\ TypeOK' /\ TopsKept
  BY NextSteps, TopsStay DEF WellFormed
<1>2. /\ symtab_stack \in Seq(Tables(Slots)) /\ symtab_stack' \in Seq(Tables(Slots))
      /\ frames \in Seq(Frames) /\ frames' \in Seq(Frames)
  BY <1>1 DEF TypeOK
<1>a. PICK T : T = TopAmong(symtab_stack')
  OBVIOUS
<1>3. TopAmong(symtab_stack) \subseteq T
  BY <1>1, <1>a DEF TopAmong, TopsKept, TopAt
<1>b. SUFFICES Home(blocks', T)
  BY <1>a DEF Homely
<1>4. Home(blocks, T)
  BY <1>3 DEF Homely, Home
<1>5. frames # <<>> => frames[1].fn = CurrentFn
  BY <1>1, CurrentIsFn
<1>6. OwnedBy(symtab_stack, CurrentFn, T)
  <2> SUFFICES ASSUME NEW i \in 1..Len(symtab_stack), NEW n \in Idents,
                      symtab_stack[i]["variable"][n] # Null
               PROVE  symtab_stack[i]["variable"][n].fn \in {CurrentFn} \cup T
    BY DEF OwnedBy
  <2>1. LocalAt(symtab_stack, i, n) \/ symtab_stack[i]["variable"][n].fn \in T
    BY <1>2, <1>3, LocalOrTop
  <2> QED
    BY <1>5, <2>1 DEF LocalsOwned
<1>7. frames # <<>> => OwnedBy(symtab_stack', CurrentFn, T)
  <2> SUFFICES ASSUME frames # <<>>, NEW i \in 1..Len(symtab_stack'), NEW n \in Idents,
                      symtab_stack'[i]["variable"][n] # Null
               PROVE  symtab_stack'[i]["variable"][n].fn \in {CurrentFn} \cup T
    BY DEF OwnedBy
  <2>1. LocalAt(symtab_stack', i, n) \/ symtab_stack'[i]["variable"][n].fn \in T
    BY <1>2, <1>a, LocalOrTop
  <2>2. LocalAt(symtab_stack', i, n) =>
          frames' # <<>> /\ symtab_stack'[i]["variable"][n].fn = frames'[1].fn
    BY DEF LocalsOwned
  <2> QED
    BY <1>1, <1>5, <2>1, <2>2, SameFunction
<1>8. Parsed \subseteq Exprs
  BY DEF Parsed
<1>9. \A b \in Unfilled : blocks[b].fn \in {0, frames[1].fn}
  BY DEF Flow, Filling
<1>10. frames # <<>> /\ Last(frames).kind # "func" =>
         /\ Last(frames).kind = "then" => blocks[Last(frames).next].fn \in {0, CurrentFn}
         /\ Last(frames).kind = "else" => blocks[Last(frames).join].fn \in {0, CurrentFn}
         /\ Last(frames).kind = "for" => blocks[Last(frames).next].fn = CurrentFn
  <2> DEFINE top == Last(frames)
  <2> SUFFICES ASSUME frames # <<>>, top.kind # "func"
               PROVE  /\ top.kind = "then" => blocks[top.next].fn \in {0, CurrentFn}
                      /\ top.kind = "else" => blocks[top.join].fn \in {0, CurrentFn}
                      /\ top.kind = "for" => blocks[top.next].fn = CurrentFn
    OBVIOUS
  <2>1. Pending(top) \subseteq Waiting(frames)
    BY LastFrame
  <2>2. Waiting(frames) \subseteq Unfilled
    BY DEF Unfilled
  <2>3. top.join \in 1..Len(blocks) /\ (top.kind = "then" => top.next \in 1..Len(blocks))
    BY <1>1, NestedFrames
  <2>4. top.kind = "for" => blocks[top.next].fn = frames[1].fn
    BY LastIsLaid
  <2> HIDE DEF top
  <2>5. top.join \in Unfilled /\ (top.kind = "then" => top.next \in Unfilled)
    BY <2>1, <2>2, <2>3 DEF Pending
  <2> QED
    BY <1>5, <1>9, <2>4, <2>5
<1>11. ASSUME NEW e \in Parsed,
              ExprStmt(e) \/ RetStmt(e) \/ IfSkipped(e) \/ IfCond(e)
       PROVE  Home(blocks', T)
  BY <1>1, <1>4, <1>6, <1>8, <1>11, StatementHome, RetStmtHome, IfCondHome
<1>12. ASSUME NEW e \in Parsed, ForTail(e)
       PROVE  Home(blocks', T)
  <2>1. frames # <<>> /\ Last(frames).kind = "for"
    BY <1>12 DEF ForTail
  <2> QED
    BY <1>1, <1>4, <1>6, <1>8, <1>10, <1>12, <2>1, ForTailHome
<1>13. ASSUME NEW e \in Parsed, NEW n \in Idents, NEW type \in {"double", "int"},
              VarDecl(n, type, e)
       PROVE  Home(blocks', T)
  BY <1>1, <1>4, <1>6, <1>8, <1>13, VarDeclHome
<1>14. ASSUME NEW e \in Parsed, NEW n \in Idents, NEW end \in Parsed, ForHead(n, e, end)
       PROVE  Home(blocks', T)
  <2>1. frames # <<>>
    BY <1>14 DEF ForHead
  <2> QED
    BY <1>1, <1>4, <1>7, <1>8, <1>14, <2>1, ForHeadHome
<1>15. ASSUME IfElse \/ IfMerge
       PROVE  Home(blocks', T)
  <2>1. frames # <<>> /\ Last(frames).kind # "func"
    BY <1>15 DEF IfElse, IfMerge
  <2> QED
    BY <1>1, <1>4, <1>10, <1>15, <2>1, BranchHome
<1>16. ASSUME NEW f \in Funcs, NEW params \in ParamLists, BeginDef(f, params)
       PROVE  Home(blocks', T)
  BY <1>1, <1>4, <1>16, DefHome
<1>17. CASE EndDef
  BY <1>1, <1>4, <1>17, DefHome
<1>18. CASE blocks' = blocks
  BY <1>4, <1>18
<1>19. ASSUME NEW f \in Funcs, NEW params \in ParamLists,
              RefusedDef(f, params) \/ ExternDef(f, params)
       PROVE  blocks' = blocks
  BY <1>19 DEF RefusedDef, ExternDef
<1>20. EraseDef \/ Finish \/ Stopped \/ UNCHANGED vars => blocks' = blocks
  BY DEF EraseDef, Finish, Stopped, vars
<1> QED
  BY <1>11, <1>12, <1>13, <1>14, <1>15, <1>16, <1>17, <1>18, <1>19, <1>20 DEF Next

LEMMA ForeignFromHomely ==
  ASSUME WellFormed, Homely
  PROVE  ForeignOnlyTopLevel
<1>1. DOMAIN symtab_stack = 1..Len(symtab_stack) /\ DOMAIN blocks = 1..Len(blocks)
  BY DEF WellFormed, TypeOK
<1>2. TopAmong(symtab_stack) = TopLevelOwners
  BY <1>1 DEF TopAmong, TopLevelOwners, TopAt
<1> QED
  BY <1>1, <1>2 DEF ForeignOnlyTopLevel, Homely, Home

(* A function's code uses its own stack slots, and else only those of the  *)
(* functions in whose code a variable of the top level has its slot.       *)
THEOREM ForeignAreTopLevel ==
  Spec => []ForeignOnlyTopLevel
<1>1. Init => Homely
  <2> SUFFICES ASSUME Init PROVE Home(blocks, TopAmong(symtab_stack))
    BY DEF Homely
  <2>1. blocks = <<>> /\ 1..Len(<<>>) = {}
    BY DEF Init
  <2> QED
    BY <2>1 DEF Home
<1>2. WellFormed /\ LocalsOwned /\ NoneBelow /\ [Next]_vars => (LocalsOwned /\ NoneBelow)'
  BY LocalsStay
<1>3. WellFormed /\ TopsOutlast /\ [Next]_vars => TopsOutlast'
  BY TopsStay
<1>4. WellFormed /\ Flow /\ LocalsOwned /\ LocalsOwned' /\ TopsOutlast /\ Homely /\ [Next]_vars
        => Homely'
  BY HomelyStays
<1>5. WellFormed /\ Homely => ForeignOnlyTopLevel
  BY ForeignFromHomely
<1> QED
  BY FlowAlways, InitLocals, InitTops, <1>1, <1>2, <1>3, <1>4, <1>5, PTL DEF Spec
=============================================================================
