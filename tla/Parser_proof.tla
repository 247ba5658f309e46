---------------------------- MODULE Parser_proof ----------------------------
(***************************************************************************)
(* Theorems about Parser for every set of tokens and any number of them:   *)
(* what every reachable state of the recursive descent satisfies, whatever *)
(* the scanner returns and however the input is cut off.                   *)
(*                                                                         *)
(* The calls under way are the sequence todo, so the invariant is about    *)
(* sequences: which item may stand before which (Linked), what the last    *)
(* ones are (Ending), and how many symbols they still close (Balance).     *)
(* The second half shows that the parser implements the grammar: what the  *)
(* items derive (WordsOf), and that each step settles, replaces or takes   *)
(* symbols of it as a step of the abstract machine does.                   *)
(***************************************************************************)
EXTENDS ParserGrammar, FunctionTheorems, FiniteSetTheorems, WellFoundedInduction, TLAPS

LEMMA ItemFields ==
  ASSUME NEW op \in Ops
  PROVE  /\ Item(op) \in Items
         /\ Item(op).op = op /\ Item(op).tok = ""
         /\ Item(op).n = 0 /\ Item(op).want = 0
  BY DEF Item, Items

LEMMA ExpectFields ==
  ASSUME NEW tok \in AllTokens \cup {"END"}
  PROVE  /\ Expect(tok) \in Items
         /\ Expect(tok).op = "expect" /\ Expect(tok).tok = tok
         /\ Expect(tok).n = 0 /\ Expect(tok).want = 0
  BY DEF Expect, Item, Items, Ops

(* The items that ask nothing of the item behind them.                     *)
Plain ==
  {x \in Items : /\ x.op \notin {"rhs", "inner", "returned", "stmts", "endblock",
                                 "program"}
                 /\ x.tok # "END"
                 /\ x.op = "expect" => x = Expect(x.tok) /\ x.tok \notin {"CCBRACE", "TYPE", ""}
                 /\ x.op = "name" => x.tok \in Identifiers}

LEMMA PlainItems ==
  /\ \A op \in Ops \ {"expect", "name", "rhs", "inner", "returned", "stmts",
                       "endblock", "program"} : Item(op) \in Plain
  /\ \A tok \in AllTokens \ {"CCBRACE", "TYPE"} : Expect(tok) \in Plain
  BY ItemFields, ExpectFields DEF Plain, AllTokens

(* The bodies of the parser's routines are made of such items.             *)
LEMMA RoutinesArePlain ==
  /\ ExprStmt \in Seq(Plain)
  /\ IfStmt \in Seq(Plain)
  /\ ForStmt \in Seq(Plain)
  /\ VarDecl \in Seq(Plain)
  /\ FunctionDecl \in Seq(Plain)
  /\ FunctionDef \in Seq(Plain)
  /\ ExternDef \in Seq(Plain)
<1>1. /\ \A tok \in {"IF", "OBRACE", "CBRACE", "FOR", "NAME", "ASSIGN", "SEMICOLON",
                     "VAR", "COLON", "FUNCTION", "RETTYPE", "EXTERN"} :
           Expect(tok) \in Plain
      /\ \A op \in {"expr", "block", "else", "typename", "typecheck", "funname",
                    "params", "define"} : Item(op) \in Plain
  BY PlainItems DEF AllTokens, Ops
<1>2. ExprStmt \in Seq(Plain)
  BY <1>1 DEF ExprStmt
<1>3. IfStmt \in Seq(Plain)
  BY <1>1 DEF IfStmt
<1>4. ForStmt \in Seq(Plain)
  BY <1>1 DEF ForStmt
<1>5. VarDecl \in Seq(Plain)
  BY <1>1 DEF VarDecl
<1>6. FunctionDecl \in Seq(Plain)
  BY <1>1 DEF FunctionDecl
<1>7. FunctionDef \in Seq(Plain)
  <2>1. <<Item("define"), Item("block")>> \in Seq(Plain)
    BY <1>1
  <2> QED
    BY <1>6, <2>1 DEF FunctionDef
<1>8. ExternDef \in Seq(Plain)
  <2>1. /\ <<Expect("EXTERN")>> \in Seq(Plain)
        /\ <<Item("define"), Expect("SEMICOLON")>> \in Seq(Plain)
    BY <1>1
  <2> QED
    BY <1>6, <2>1 DEF ExternDef
<1> QED
  BY <1>2, <1>3, <1>4, <1>5, <1>6, <1>7, <1>8
-----------------------------------------------------------------------------
(* Item a may stand directly before b: a loop of binOpRHS entered from     *)
(* another binds tighter than that one, what return leaves is inside a     *)
(* block, and only the end of the input stands behind program().           *)
Fits(a, b) ==
  /\ a.op = "program" <=> b = Expect("END")
  /\ a.tok # "END"
  /\ a.op = "expect" => a = Expect(a.tok) /\ a.tok \notin {"TYPE", ""}
  /\ a.op = "name" => a.tok \in Identifiers
  /\ a.op = "rhs" => a.n \in {0, 10, 12, 13}
  /\ a.op = "rhs" /\ a.n # 0 => b.op = "inner"
  /\ a.op = "rhs" /\ b.op = "inner" => a.n > b.n \/ a.n = 0
  /\ a.op = "inner" => a.n \in {10, 12, 13}
  /\ a.op = "inner" => b.op = "rhs" /\ a.n >= b.n
  /\ a.op = "returned" => b.op = "stmts" /\ b.n > 0
  /\ a.op = "stmts" => b = Expect("CCBRACE")
  /\ a = Expect("CCBRACE") => b.op = "endblock"

Linked(s) == \A i \in 1..(Len(s) - 1) : Fits(s[i], s[i + 1])

(* What concatenation and Tail do to the elements of sequences.            *)
LEMMA Concatenated ==
  ASSUME NEW S, NEW s \in Seq(S), NEW t \in Seq(S)
  PROVE  /\ s \o t \in Seq(S)
         /\ Len(s \o t) = Len(s) + Len(t)
         /\ \A i \in 1..Len(s) : (s \o t)[i] = s[i]
         /\ \A i \in 1..Len(t) : (s \o t)[Len(s) + i] = t[i]
         /\ \A i \in 1..(Len(s) + Len(t)) : i \in 1..Len(s) \/ i - Len(s) \in 1..Len(t)
<1>1. Len(s) \in Nat /\ Len(t) \in Nat
  OBVIOUS
<1> QED
  BY <1>1

LEMMA Tails ==
  ASSUME NEW S, NEW s \in Seq(S), s # <<>>
  PROVE  /\ Tail(s) \in Seq(S) /\ Len(s) \in Nat \ {0}
         /\ Len(Tail(s)) = Len(s) - 1
         /\ Head(s) = s[1] /\ Head(s) \in S
         /\ \A i \in 1..(Len(s) - 1) : Tail(s)[i] = s[i + 1]
  OBVIOUS

LEMMA EmptyLength ==
  ASSUME NEW S, NEW s \in Seq(S)
  PROVE  s = <<>> <=> Len(s) = 0
  OBVIOUS

(* How chains of fitting items are put together and taken apart.           *)
LEMMA LinkedJoin ==
  ASSUME NEW s \in Seq(Items), NEW t \in Seq(Items), Linked(s), Linked(t),
         s # <<>> /\ t # <<>> => Fits(s[Len(s)], t[1])
  PROVE  Linked(s \o t)
<1>1. Len(s) \in Nat /\ Len(t) \in Nat
  OBVIOUS
<1> SUFFICES ASSUME NEW i \in 1..(Len(s \o t) - 1)
             PROVE  Fits((s \o t)[i], (s \o t)[i + 1])
  BY DEF Linked
<1>2. i \in 1..(Len(s) + Len(t)) /\ i + 1 \in 1..(Len(s) + Len(t))
  BY <1>1, Concatenated
<1>3. CASE i < Len(s)
  <2>1. (s \o t)[i] = s[i] /\ (s \o t)[i + 1] = s[i + 1] /\ i \in 1..(Len(s) - 1)
    BY <1>1, <1>2, <1>3, Concatenated
  <2> QED
    BY <2>1 DEF Linked
<1>4. CASE i = Len(s)
  <2>1. (s \o t)[i] = s[Len(s)] /\ (s \o t)[i + 1] = t[1] /\ s # <<>> /\ t # <<>>
    BY <1>1, <1>2, <1>4, Concatenated
  <2> QED
    BY <2>1
<1>5. CASE i > Len(s)
  <2> DEFINE k == i - Len(s)
  <2>1. k \in 1..(Len(t) - 1) /\ i = Len(s) + k /\ i + 1 = Len(s) + (k + 1)
        /\ k \in 1..Len(t) /\ k + 1 \in 1..Len(t)
    BY <1>1, <1>2, <1>5
  <2>2. (s \o t)[i] = t[k] /\ (s \o t)[i + 1] = t[k + 1]
    <3> HIDE DEF k
    <3> QED
      BY <2>1, Concatenated
  <2> QED
    BY <2>1, <2>2 DEF Linked
<1> QED
  BY <1>1, <1>3, <1>4, <1>5

LEMMA LinkedTail ==
  ASSUME NEW s \in Seq(Items), s # <<>>, Linked(s)
  PROVE  Linked(Tail(s)) /\ (Tail(s) # <<>> => Fits(Head(s), Tail(s)[1]))
<1>1. \A i \in 1..(Len(Tail(s)) - 1) : /\ Tail(s)[i] = s[i + 1] /\ Tail(s)[i + 1] = s[i + 2]
                                       /\ i + 1 \in 1..(Len(s) - 1)
  BY Tails
<1>2. Tail(s) # <<>> => 1 \in 1..(Len(s) - 1) /\ Tail(s)[1] = s[2] /\ Head(s) = s[1]
  BY Tails
<1> QED
  BY <1>1, <1>2 DEF Linked

LEMMA PlainFits ==
  ASSUME NEW a \in Plain, NEW b, b # Expect("END")
  PROVE  Fits(a, b)
<1>1. Expect("CCBRACE").op = "expect" /\ Expect("CCBRACE").tok = "CCBRACE"
  BY ExpectFields DEF AllTokens
<1>2. a # Expect("CCBRACE")
  BY <1>1 DEF Plain
<1> QED
  BY <1>2 DEF Fits, Plain

LEMMA PlainLinked ==
  ASSUME NEW s \in Seq(Plain)
  PROVE  s \in Seq(Items) /\ Linked(s)
<1>1. s \in Seq(Items)
  <2>1. \A x \in Plain : x \in Items
    BY DEF Plain
  <2> QED
    BY <2>1
<1>2. \A x \in Plain : x # Expect("END")
  BY ExpectFields DEF Plain
<1> QED
  BY <1>1, <1>2, PlainFits DEF Linked

LEMMA LinkedPair ==
  ASSUME NEW S, NEW x \in S, NEW y \in S, Fits(x, y)
  PROVE  /\ <<x, y>> \in Seq(S) /\ <<x, y>> # <<>> /\ Linked(<<x, y>>)
         /\ Len(<<x, y>>) = 2 /\ <<x, y>>[1] = x /\ <<x, y>>[2] = y
<1>1. Len(<<x, y>>) = 2 /\ <<x, y>>[1] = x /\ <<x, y>>[2] = y
  OBVIOUS
<1>2. \A i \in 1..(2 - 1) : i = 1
  OBVIOUS
<1>3. Linked(<<x, y>>)
  BY <1>1, <1>2 DEF Linked
<1>4. <<x, y>> \in Seq(S) /\ <<x, y>> # <<>>
  OBVIOUS
<1> QED
  BY <1>1, <1>3, <1>4

LEMMA LinkedTriple ==
  ASSUME NEW S, NEW x \in S, NEW y \in S, NEW z \in S, Fits(x, y), Fits(y, z)
  PROVE  /\ <<x, y, z>> \in Seq(S) /\ <<x, y, z>> # <<>> /\ Linked(<<x, y, z>>)
         /\ Len(<<x, y, z>>) = 3 /\ <<x, y, z>>[1] = x /\ <<x, y, z>>[3] = z
<1>1. Len(<<x, y, z>>) = 3 /\ <<x, y, z>>[1] = x /\ <<x, y, z>>[2] = y /\ <<x, y, z>>[3] = z
  OBVIOUS
<1>2. \A i \in 1..(3 - 1) : i = 1 \/ i = 2
  OBVIOUS
<1>3. Linked(<<x, y, z>>)
  BY <1>1, <1>2 DEF Linked
<1>4. <<x, y, z>> \in Seq(S) /\ <<x, y, z>> # <<>>
  OBVIOUS
<1> QED
  BY <1>1, <1>3, <1>4

LEMMA LinkedQuad ==
  ASSUME NEW S, NEW w \in S, NEW x \in S, NEW y \in S, NEW z \in S,
         Fits(w, x), Fits(x, y), Fits(y, z)
  PROVE  /\ <<w, x, y, z>> \in Seq(S) /\ <<w, x, y, z>> # <<>> /\ Linked(<<w, x, y, z>>)
         /\ Len(<<w, x, y, z>>) = 4 /\ <<w, x, y, z>>[1] = w /\ <<w, x, y, z>>[2] = x
         /\ <<w, x, y, z>>[3] = y /\ <<w, x, y, z>>[4] = z
<1>1. /\ Len(<<w, x, y, z>>) = 4 /\ <<w, x, y, z>>[1] = w /\ <<w, x, y, z>>[2] = x
      /\ <<w, x, y, z>>[3] = y /\ <<w, x, y, z>>[4] = z
  OBVIOUS
<1>2. \A i \in 1..(4 - 1) : i = 1 \/ i = 2 \/ i = 3
  OBVIOUS
<1>3. Linked(<<w, x, y, z>>)
  BY <1>1, <1>2 DEF Linked
<1>4. <<w, x, y, z>> \in Seq(S) /\ <<w, x, y, z>> # <<>>
  OBVIOUS
<1> QED
  BY <1>1, <1>3, <1>4

(* The first item is replaced by plain items and these items r.            *)
LEMMA ReplacedLinked ==
  ASSUME NEW t \in Seq(Items), t # <<>>, Linked(t),
         NEW s \in Seq(Plain), NEW r \in Seq(Items), Linked(r),
         r # <<>> => r[1] # Expect("END"),
         r # <<>> /\ Tail(t) # <<>> => Fits(r[Len(r)], Tail(t)[1]),
         r = <<>> /\ Tail(t) # <<>> /\ s # <<>> => Head(t).op # "program"
  PROVE  (s \o r) \o Tail(t) \in Seq(Items) /\ Linked((s \o r) \o Tail(t))
<1>1. s \in Seq(Items) /\ Linked(s)
  BY PlainLinked
<1>2. s # <<>> => s[Len(s)] \in Plain
  OBVIOUS
<1>3. s \o r \in Seq(Items) /\ Linked(s \o r)
  <2>1. s # <<>> /\ r # <<>> => Fits(s[Len(s)], r[1])
    BY <1>2, PlainFits
  <2> QED
    BY <1>1, <2>1, LinkedJoin
<1>4. /\ Tail(t) \in Seq(Items) /\ Linked(Tail(t))
      /\ Tail(t) # <<>> => Fits(Head(t), Tail(t)[1])
  <2>1. Tail(t) \in Seq(Items)
    BY Tails
  <2>2. Linked(Tail(t)) /\ (Tail(t) # <<>> => Fits(Head(t), Tail(t)[1]))
    BY LinkedTail
  <2> QED
    BY <2>1, <2>2
<1>5. s \o r # <<>> /\ Tail(t) # <<>> => Fits((s \o r)[Len(s \o r)], Tail(t)[1])
  <2>1. CASE r = <<>>
    <3>1. s \o r = s
      BY <1>1, <2>1
    <3>2. Tail(t) # <<>> /\ s # <<>> => Tail(t)[1] # Expect("END")
      BY <1>4, <2>1 DEF Fits
    <3> QED
      BY <1>2, <3>1, <3>2, PlainFits
  <2>2. CASE r # <<>>
    <3>1. Len(s) \in Nat /\ Len(r) \in Nat \ {0} /\ Len(r) \in 1..Len(r)
      BY <2>2
    <3>2. Len(s \o r) = Len(s) + Len(r) /\ (s \o r)[Len(s) + Len(r)] = r[Len(r)]
      BY <1>1, <3>1, Concatenated
    <3> QED
      BY <2>2, <3>2
  <2> QED
    BY <2>1, <2>2
<1>6. (s \o r) \o Tail(t) \in Seq(Items)
  BY <1>3, <1>4
<1>7. Linked((s \o r) \o Tail(t))
  BY <1>3, <1>4, <1>5, LinkedJoin
<1> QED
  BY <1>6, <1>7
-----------------------------------------------------------------------------
(* How many elements of a sequence are members of S.                       *)
Count(S, s) == Cardinality({i \in 1..Len(s) : s[i] \in S})

LEMMA Counted ==
  ASSUME NEW S, NEW s \in Seq(Items)
  PROVE  IsFiniteSet({i \in 1..Len(s) : s[i] \in S}) /\ Count(S, s) \in Nat
<1>1. IsFiniteSet(1..Len(s))
  BY FS_Interval
<1>2. {i \in 1..Len(s) : s[i] \in S} \subseteq 1..Len(s)
  OBVIOUS
<1>3. IsFiniteSet({i \in 1..Len(s) : s[i] \in S})
  BY <1>1, <1>2, FS_Subset
<1> QED
  BY <1>3, FS_CardinalityType DEF Count

LEMMA NoneCounted ==
  ASSUME NEW S, NEW s, \A i \in 1..Len(s) : s[i] \notin S
  PROVE  Count(S, s) = 0
<1>1. {i \in 1..Len(s) : s[i] \in S} = {}
  OBVIOUS
<1> QED
  BY <1>1, FS_EmptySet DEF Count

LEMMA OneCounted ==
  ASSUME NEW S, NEW s, NEW k \in 1..Len(s), \A i \in 1..Len(s) : s[i] \in S <=> i = k
  PROVE  Count(S, s) = 1
<1>1. {i \in 1..Len(s) : s[i] \in S} = {k}
  OBVIOUS
<1> QED
  BY <1>1, FS_Singleton DEF Count

LEMMA CountedJoin ==
  ASSUME NEW S, NEW s \in Seq(Items), NEW t \in Seq(Items)
  PROVE  Count(S, s \o t) = Count(S, s) + Count(S, t)
<1> DEFINE A == {i \in 1..Len(s) : s[i] \in S}
           B == {i \in 1..Len(t) : t[i] \in S}
           C == {i \in (Len(s) + 1)..(Len(s) + Len(t)) : (s \o t)[i] \in S}
           D == {i \in 1..Len(s \o t) : (s \o t)[i] \in S}
           f == [i \in B |-> Len(s) + i]
<1>1. Len(s) \in Nat /\ Len(t) \in Nat
  OBVIOUS
<1>2. IsFiniteSet(A) /\ IsFiniteSet(B)
  BY Counted
<1>3. f \in Bijection(B, C)
  <2>1. \A i \in B : f[i] \in C
    BY <1>1, Concatenated
  <2>2. \A i, j \in B : f[i] = f[j] => i = j
    BY <1>1
  <2>3. \A c \in C : \E i \in B : f[i] = c
    <3> SUFFICES ASSUME NEW c \in C
                 PROVE  c - Len(s) \in B /\ f[c - Len(s)] = c
      OBVIOUS
    <3>1. c - Len(s) \in 1..Len(t) /\ c = Len(s) + (c - Len(s))
      BY <1>1
    <3>2. (s \o t)[c] = t[c - Len(s)]
      BY <3>1, Concatenated
    <3> QED
      BY <1>1, <3>1, <3>2
  <2> HIDE DEF B, C
  <2> QED
    BY <2>1, <2>2, <2>3 DEF Bijection, Injection, IsInjective, Surjection
<1>4. IsFiniteSet(C) /\ Cardinality(C) = Cardinality(B)
  <2>1. ExistsBijection(B, C)
    BY <1>3 DEF ExistsBijection
  <2> HIDE DEF f, B, C
  <2> QED
    BY <1>2, <2>1, FS_Bijection
<1>5. D = A \cup C
  BY <1>1, Concatenated
<1>6. A \cap C = {}
  BY <1>1
<1>7. Cardinality(D) = Cardinality(A) + Cardinality(C) - Cardinality(A \cap C)
  <2> HIDE DEF A, B, C, D, f
  <2> QED
    BY <1>2, <1>4, <1>5, FS_Union
<1>8. Cardinality(A) \in Nat /\ Cardinality(C) \in Nat
  BY <1>2, <1>4, FS_CardinalityType
<1>9. Cardinality(A \cap C) = 0
  BY <1>6, FS_EmptySet
<1> QED
  <2>1. /\ Count(S, s) = Cardinality(A) /\ Count(S, t) = Cardinality(B)
        /\ Count(S, s \o t) = Cardinality(D)
    BY DEF Count
  <2> HIDE DEF A, B, C, D, f
  <2> QED
    BY <2>1, <1>4, <1>7, <1>8, <1>9

LEMMA CountedTail ==
  ASSUME NEW S, NEW s \in Seq(Items), s # <<>>
  PROVE  Count(S, Tail(s)) = Count(S, s) - (IF Head(s) \in S THEN 1 ELSE 0)
<1>1. /\ Tail(s) \in Seq(Items) /\ <<Head(s)>> \in Seq(Items) /\ s = <<Head(s)>> \o Tail(s)
      /\ Len(<<Head(s)>>) = 1 /\ <<Head(s)>>[1] = Head(s) /\ 1 \in 1..1
  OBVIOUS
<1>2. Count(S, s) = Count(S, <<Head(s)>>) + Count(S, Tail(s))
  BY <1>1, CountedJoin
<1>3. Count(S, <<Head(s)>>) = IF Head(s) \in S THEN 1 ELSE 0
  <2> DEFINE h == <<Head(s)>>
  <2>0. Len(h) = 1 /\ h[1] = Head(s) /\ \A i \in 1..Len(h) : i = 1
    BY <1>1
  <2>1. CASE Head(s) \in S
    <3>1. 1 \in 1..Len(h) /\ \A i \in 1..Len(h) : h[i] \in S <=> i = 1
      BY <2>0, <2>1
    <3>2. Count(S, h) = 1
      <4> HIDE DEF h
      <4> QED
        BY <3>1, OneCounted
    <3> QED
      BY <2>1, <3>2
  <2>2. CASE Head(s) \notin S
    <3>1. \A i \in 1..Len(h) : h[i] \notin S
      BY <2>0, <2>2
    <3>2. Count(S, h) = 0
      <4> HIDE DEF h
      <4> QED
        BY <3>1, NoneCounted
    <3> QED
      BY <2>2, <3>2
  <2> QED
    BY <2>1, <2>2
<1>4. Count(S, Tail(s)) \in Nat /\ Count(S, s) \in Nat
  BY <1>1, Counted
<1> QED
  BY <1>2, <1>3, <1>4
-----------------------------------------------------------------------------
(* The items that consume a symbol: params() and args() are entered behind *)
(* the opening parenthesis and consume the closing one themselves.         *)
ParenOpens  == {Expect("OBRACE")}
ParenCloses == {x \in Items : x.op \in {"params", "args"} \/ x = Expect("CBRACE")}
BraceOpens  == {Expect("OCBRACE")}
BraceCloses == {Expect("CCBRACE")}

(* The symbols the items of s close beyond those they open.                *)
Parens(s) == Count(ParenCloses, s) - Count(ParenOpens, s)
Braces(s) == Count(BraceCloses, s) - Count(BraceOpens, s)

Parenthesis(x) == (IF x \in ParenCloses THEN 1 ELSE 0) - (IF x \in ParenOpens THEN 1 ELSE 0)
Brace(x) == (IF x \in BraceCloses THEN 1 ELSE 0) - (IF x \in BraceOpens THEN 1 ELSE 0)

LEMMA Sums ==
  ASSUME NEW a \in Int
  PROVE  a - 0 + 0 = a /\ a - 1 + 0 = a - 1 /\ a - 0 + 1 = a + 1 /\ a - 1 + 1 = a
  OBVIOUS

LEMMA LeftToClose ==
  ASSUME NEW s \in Seq(Items)
  PROVE  Parens(s) \in Int /\ Braces(s) \in Int
<1>1. \A S : Count(S, s) \in Nat
  BY Counted
<1> QED
  BY <1>1 DEF Parens, Braces

LEMMA ClosedJoin ==
  ASSUME NEW s \in Seq(Items), NEW t \in Seq(Items)
  PROVE  /\ Parens(s \o t) = Parens(s) + Parens(t)
         /\ Braces(s \o t) = Braces(s) + Braces(t)
<1>1. \A S : Count(S, s \o t) = Count(S, s) + Count(S, t)
  BY CountedJoin
<1>2. \A S : Count(S, s) \in Nat /\ Count(S, t) \in Nat
  BY Counted
<1> QED
  BY <1>1, <1>2 DEF Parens, Braces

LEMMA ClosedTail ==
  ASSUME NEW s \in Seq(Items), s # <<>>
  PROVE  /\ Parens(Tail(s)) = Parens(s) - Parenthesis(Head(s))
         /\ Braces(Tail(s)) = Braces(s) - Brace(Head(s))
<1>1. \A S : Count(S, Tail(s)) = Count(S, s) - (IF Head(s) \in S THEN 1 ELSE 0)
  BY CountedTail
<1>2. \A S : Count(S, s) \in Nat
  BY Counted
<1>3. Parens(Tail(s)) = Parens(s) - Parenthesis(Head(s))
  <2>1. /\ Count(ParenCloses, s) \in Nat /\ Count(ParenOpens, s) \in Nat
        /\ Count(ParenCloses, Tail(s)) =
             Count(ParenCloses, s) - (IF Head(s) \in ParenCloses THEN 1 ELSE 0)
        /\ Count(ParenOpens, Tail(s)) =
             Count(ParenOpens, s) - (IF Head(s) \in ParenOpens THEN 1 ELSE 0)
    BY <1>1, <1>2, Zenon
  <2> QED
    BY <2>1 DEF Parens, Parenthesis
<1>4. Braces(Tail(s)) = Braces(s) - Brace(Head(s))
  <2>1. /\ Count(BraceCloses, s) \in Nat /\ Count(BraceOpens, s) \in Nat
        /\ Count(BraceCloses, Tail(s)) =
             Count(BraceCloses, s) - (IF Head(s) \in BraceCloses THEN 1 ELSE 0)
        /\ Count(BraceOpens, Tail(s)) =
             Count(BraceOpens, s) - (IF Head(s) \in BraceOpens THEN 1 ELSE 0)
    BY <1>1, <1>2, Zenon
  <2> QED
    BY <2>1 DEF Braces, Brace
<1> QED
  BY <1>3, <1>4

LEMMA NothingToClose ==
  /\ \A s : Len(s) = 0 => Parens(s) = 0 /\ Braces(s) = 0
  /\ Parens(<<>>) = 0 /\ Braces(<<>>) = 0
<1>1. \A S, s : Len(s) = 0 => Count(S, s) = 0
  BY NoneCounted
<1>2. Len(<<>>) = 0
  OBVIOUS
<1> QED
  BY <1>1, <1>2 DEF Parens, Braces

LEMMA SymbolsCount ==
  ASSUME NEW x
  PROVE  Parenthesis(x) \in Int /\ Brace(x) \in Int
  BY DEF Parenthesis, Brace

Neutral ==
  {x \in Items : /\ x.op \notin {"params", "args"}
                 /\ x.op = "expect" => x.tok \notin {"OBRACE", "CBRACE", "OCBRACE", "CCBRACE"}}

LEMMA SymbolsClose ==
  /\ \A x \in Neutral : Parenthesis(x) = 0 /\ Brace(x) = 0
  /\ \A x \in Items : x.op \in {"params", "args"} => Parenthesis(x) = 1 /\ Brace(x) = 0
  /\ Parenthesis(Expect("OBRACE")) = -1 /\ Brace(Expect("OBRACE")) = 0
  /\ Parenthesis(Expect("CBRACE")) = 1 /\ Brace(Expect("CBRACE")) = 0
  /\ Parenthesis(Expect("OCBRACE")) = 0 /\ Brace(Expect("OCBRACE")) = -1
  /\ Parenthesis(Expect("CCBRACE")) = 0 /\ Brace(Expect("CCBRACE")) = 1
<1>1. \A tok \in {"OBRACE", "CBRACE", "OCBRACE", "CCBRACE"} :
         Expect(tok) \in Items /\ Expect(tok).op = "expect" /\ Expect(tok).tok = tok
  BY ExpectFields DEF AllTokens
<1> QED
  BY <1>1 DEF Parenthesis, Brace, ParenOpens, ParenCloses, BraceOpens, BraceCloses, Neutral

LEMMA NeutralItems ==
  /\ \A op \in Ops \ {"params", "args", "expect"} : Item(op) \in Neutral
  /\ \A tok \in AllTokens \ {"OBRACE", "CBRACE", "OCBRACE", "CCBRACE"} :
       Expect(tok) \in Neutral
  BY ItemFields, ExpectFields DEF Neutral

LEMMA NeutralClosed ==
  ASSUME NEW s \in Seq(Neutral)
  PROVE  s \in Seq(Items) /\ Parens(s) = 0 /\ Braces(s) = 0
<1>1. s \in Seq(Items)
  BY DEF Neutral
<1>2. \A x \in Neutral : /\ x \notin ParenOpens /\ x \notin ParenCloses
                         /\ x \notin BraceOpens /\ x \notin BraceCloses
  BY ExpectFields DEF Neutral, ParenOpens, ParenCloses, BraceOpens, BraceCloses, AllTokens
<1>3. /\ Count(ParenOpens, s) = 0 /\ Count(ParenCloses, s) = 0
      /\ Count(BraceOpens, s) = 0 /\ Count(BraceCloses, s) = 0
  BY <1>2, NoneCounted
<1> QED
  BY <1>1, <1>3 DEF Parens, Braces

(* No routine leaves an opening symbol to others: what it opens, it closes. *)
LEMMA OnePair ==
  ASSUME NEW s \in Seq(Items), NEW j \in 1..Len(s), NEW k \in 1..Len(s),
         \A i \in 1..Len(s) : /\ s[i] \in ParenOpens <=> i = j
                              /\ s[i] \in ParenCloses <=> i = k
                              /\ s[i] \notin BraceOpens /\ s[i] \notin BraceCloses
  PROVE  Parens(s) = 0 /\ Braces(s) = 0
<1>1. Count(ParenOpens, s) = 1 /\ Count(ParenCloses, s) = 1
  BY OneCounted
<1>2. Count(BraceOpens, s) = 0 /\ Count(BraceCloses, s) = 0
  BY NoneCounted
<1> QED
  BY <1>1, <1>2 DEF Parens, Braces

LEMMA RoutinesClose ==
  /\ Parens(ExprStmt) = 0 /\ Braces(ExprStmt) = 0
  /\ Parens(IfStmt) = 0 /\ Braces(IfStmt) = 0
  /\ Parens(ForStmt) = 0 /\ Braces(ForStmt) = 0
  /\ Parens(VarDecl) = 0 /\ Braces(VarDecl) = 0
  /\ Parens(FunctionDef) = 0 /\ Braces(FunctionDef) = 0
  /\ Parens(ExternDef) = 0 /\ Braces(ExternDef) = 0
  /\ Parens(BlockBody) = 0 /\ Braces(BlockBody) = 0
<1>1. /\ \A tok \in {"IF", "FOR", "NAME", "ASSIGN", "SEMICOLON",
                     "VAR", "COLON", "FUNCTION", "RETTYPE", "EXTERN"} :
           Expect(tok) \in Neutral
      /\ \A op \in {"expr", "block", "else", "typename", "typecheck", "funname",
                    "define", "stmts", "endblock"} : Item(op) \in Neutral
  BY NeutralItems DEF AllTokens, Ops
<1>2. /\ \A x \in Neutral : /\ x \notin ParenOpens /\ x \notin ParenCloses
                            /\ x \notin BraceOpens /\ x \notin BraceCloses
      /\ Expect("OBRACE") \in ParenOpens /\ Expect("OBRACE") \notin ParenCloses
      /\ Expect("OBRACE") \notin BraceOpens /\ Expect("OBRACE") \notin BraceCloses
      /\ Expect("CBRACE") \in ParenCloses /\ Expect("CBRACE") \notin ParenOpens
      /\ Expect("CBRACE") \notin BraceOpens /\ Expect("CBRACE") \notin BraceCloses
      /\ Item("params") \in ParenCloses /\ Item("params") \notin ParenOpens
      /\ Item("params") \notin BraceOpens /\ Item("params") \notin BraceCloses
  <2>1. \A tok \in {"OBRACE", "CBRACE", "OCBRACE", "CCBRACE"} :
           Expect(tok) \in Items /\ Expect(tok).op = "expect" /\ Expect(tok).tok = tok
    BY ExpectFields DEF AllTokens
  <2>2. Item("params") \in Items /\ Item("params").op = "params"
    BY ItemFields DEF Ops
  <2> QED
    BY <2>1, <2>2 DEF Neutral, ParenOpens, ParenCloses, BraceOpens, BraceCloses
<1>3. ExprStmt \in Seq(Neutral) /\ VarDecl \in Seq(Neutral)
  BY <1>1 DEF ExprStmt, VarDecl
<1>4. Parens(IfStmt) = 0 /\ Braces(IfStmt) = 0
  <2>0. IfStmt \in Seq(Items)
    BY RoutinesArePlain, PlainLinked
  <2>1. 2 \in 1..Len(IfStmt) /\ 4 \in 1..Len(IfStmt)
    BY DEF IfStmt
  <2>2. \A i \in 1..Len(IfStmt) : /\ IfStmt[i] \in ParenOpens <=> i = 2
                                  /\ IfStmt[i] \in ParenCloses <=> i = 4
                                  /\ IfStmt[i] \notin BraceOpens /\ IfStmt[i] \notin BraceCloses
    BY <1>1, <1>2 DEF IfStmt
  <2> QED
    BY <2>0, <2>1, <2>2, OnePair
<1>5. Parens(ForStmt) = 0 /\ Braces(ForStmt) = 0
  <2>0. ForStmt \in Seq(Items)
    BY RoutinesArePlain, PlainLinked
  <2>1. 2 \in 1..Len(ForStmt) /\ 10 \in 1..Len(ForStmt)
    BY DEF ForStmt
  <2>2. \A i \in 1..Len(ForStmt) : /\ ForStmt[i] \in ParenOpens <=> i = 2
                                   /\ ForStmt[i] \in ParenCloses <=> i = 10
                                   /\ ForStmt[i] \notin BraceOpens /\ ForStmt[i] \notin BraceCloses
    BY <1>1, <1>2 DEF ForStmt
  <2> QED
    BY <2>0, <2>1, <2>2, OnePair
<1>6. /\ FunctionDecl \in Seq(Items)
      /\ Parens(FunctionDecl) = 0 /\ Braces(FunctionDecl) = 0
  <2> DEFINE s == FunctionDecl
  <2>0. s \in Seq(Items)
    BY RoutinesArePlain, PlainLinked
  <2>1. 4 \in 1..Len(s) /\ 5 \in 1..Len(s)
    BY DEF FunctionDecl
  <2>2. \A i \in 1..Len(s) : /\ s[i] \in ParenOpens <=> i = 4
                             /\ s[i] \in ParenCloses <=> i = 5
                             /\ s[i] \notin BraceOpens /\ s[i] \notin BraceCloses
    BY <1>1, <1>2 DEF FunctionDecl
  <2> QED
    BY <2>0, <2>1, <2>2, OnePair
<1>7. Parens(FunctionDef) = 0 /\ Braces(FunctionDef) = 0
  <2> DEFINE u == <<Item("define"), Item("block")>>
  <2>1. u \in Seq(Neutral)
    BY <1>1
  <2> HIDE DEF u
  <2>2. u \in Seq(Items) /\ Parens(u) = 0 /\ Braces(u) = 0
    BY <2>1, NeutralClosed
  <2>3. Parens(FunctionDecl \o u) = 0 /\ Braces(FunctionDecl \o u) = 0
    BY <1>6, <2>2, ClosedJoin
  <2> QED
    BY <2>3 DEF FunctionDef, u
<1>8. Parens(ExternDef) = 0 /\ Braces(ExternDef) = 0
  <2> DEFINE t == <<Expect("EXTERN")>>
             u == <<Item("define"), Expect("SEMICOLON")>>
  <2>1. t \in Seq(Neutral) /\ u \in Seq(Neutral)
    BY <1>1
  <2> HIDE DEF t, u
  <2>2. /\ t \in Seq(Items) /\ Parens(t) = 0 /\ Braces(t) = 0
        /\ u \in Seq(Items) /\ Parens(u) = 0 /\ Braces(u) = 0
    BY <2>1, NeutralClosed
  <2>3. /\ t \o FunctionDecl \in Seq(Items)
        /\ Parens(t \o FunctionDecl) = 0 /\ Braces(t \o FunctionDecl) = 0
    BY <1>6, <2>2, ClosedJoin
  <2> DEFINE v == t \o FunctionDecl
  <2>4. v \in Seq(Items) /\ Parens(v) = 0 /\ Braces(v) = 0
    BY <2>3
  <2> HIDE DEF v
  <2>5. Parens(v \o u) = 0 /\ Braces(v \o u) = 0
    BY <2>2, <2>4, ClosedJoin
  <2> QED
    BY <2>5 DEF ExternDef, t, u, v
<1>9. Parens(BlockBody) = 0 /\ Braces(BlockBody) = 0
  <2> DEFINE s == BlockBody
  <2>1. Len(s) = 4
    BY DEF BlockBody
  <2>2. \A i \in 1..Len(s) : /\ s[i] \in BraceOpens <=> i = 1
                             /\ s[i] \in BraceCloses <=> i = 3
                             /\ s[i] \notin ParenOpens /\ s[i] \notin ParenCloses
    <3>1. \A tok \in {"OCBRACE", "CCBRACE"} :
            /\ Expect(tok) \notin ParenOpens /\ Expect(tok) \notin ParenCloses
            /\ Expect(tok) \in BraceOpens <=> tok = "OCBRACE"
            /\ Expect(tok) \in BraceCloses <=> tok = "CCBRACE"
      BY ExpectFields DEF ParenOpens, ParenCloses, BraceOpens, BraceCloses, AllTokens
    <3> QED
      BY <1>1, <1>2, <3>1 DEF BlockBody
  <2>3. Count(BraceOpens, s) = 1 /\ Count(BraceCloses, s) = 1
    <3>1. 1 \in 1..Len(s) /\ 3 \in 1..Len(s)
      BY <2>1
    <3> HIDE DEF s
    <3> QED
      BY <2>2, <3>1, OneCounted
  <2>4. Count(ParenOpens, s) = 0 /\ Count(ParenCloses, s) = 0
    BY <2>2, NoneCounted
  <2> QED
    BY <2>3, <2>4 DEF Parens, Braces
<1> QED
  BY <1>3, <1>4, <1>5, <1>7, <1>8, <1>9, NeutralClosed
-----------------------------------------------------------------------------
(* The end of the input is expected by the last item alone, so it is       *)
(* consumed when nothing is left to do.                                    *)
Ending ==
  /\ past = IF todo = <<>> THEN 1 ELSE 0
  /\ todo # <<>> => todo[Len(todo)] = Expect("END")
  /\ Len(todo) <= 1 => look = "END"
  /\ status = "parsed" => todo = <<>>

(* Until an error is reported, the symbols that are open are those the     *)
(* calls under way will close.                                             *)
Balance ==
  errors = "none" => opened.paren = Parens(todo) /\ opened.brace = Braces(todo)

(* The inductive invariant.  BalancedWhenParsed says nothing of the states *)
(* before the end: it is Balance that every step preserves, and it needs   *)
(* Linked and Ending to know what is behind the call that is replaced.     *)
Inv == TypeOK /\ Linked(todo) /\ Ending /\ Balance /\ FlagsAreLocal

(* What consuming a token does.                                            *)
LEMMA AdvanceTaken ==
  ASSUME TypeOK, Advance
  PROVE  /\ look' \in Tokens \cup {"END"}
         /\ left' \in 0..MaxTokens
         /\ opened' \in [paren : Int, brace : Int]
         /\ look = "END" => look' = "END" /\ past' = past + 1
         /\ look # "END" => past' = past
         /\ look = "OBRACE" => opened'.paren = opened.paren + 1
         /\ look = "CBRACE" => opened'.paren = opened.paren - 1
         /\ look \notin {"OBRACE", "CBRACE"} => opened'.paren = opened.paren
         /\ look = "OCBRACE" => opened'.brace = opened.brace + 1
         /\ look = "CCBRACE" => opened'.brace = opened.brace - 1
         /\ look \notin {"OCBRACE", "CCBRACE"} => opened'.brace = opened.brace
<1>1. MaxTokens \in Nat /\ opened.paren \in Int /\ opened.brace \in Int
  BY TokensAssumption DEF TypeOK
<1>2. look' \in Tokens \cup {"END"} /\ left' \in 0..MaxTokens
  <2>1. left \in 0..MaxTokens /\ left' = IF look' = "END" THEN left ELSE left - 1
    BY DEF TypeOK, Advance
  <2>2. CASE look = "END" \/ left = 0
    BY <2>1, <2>2 DEF Advance
  <2>3. CASE ~(look = "END" \/ left = 0)
    BY <1>1, <2>1, <2>3 DEF Advance
  <2> QED
    BY <2>2, <2>3
<1>3. /\ look = "END" => look' = "END" /\ past' = past + 1
      /\ look # "END" => past' = past
  BY DEF Advance
<1>4. /\ opened' \in [paren : Int, brace : Int]
      /\ look = "OBRACE" => opened'.paren = opened.paren + 1
      /\ look = "CBRACE" => opened'.paren = opened.paren - 1
      /\ look \notin {"OBRACE", "CBRACE"} => opened'.paren = opened.paren
      /\ look = "OCBRACE" => opened'.brace = opened.brace + 1
      /\ look = "CCBRACE" => opened'.brace = opened.brace - 1
      /\ look \notin {"OCBRACE", "CCBRACE"} => opened'.brace = opened.brace
  <2> DEFINE p == CASE look = "OBRACE" -> 1 [] look = "CBRACE" -> -1 [] OTHER -> 0
             q == CASE look = "OCBRACE" -> 1 [] look = "CCBRACE" -> -1 [] OTHER -> 0
  <2>1. p \in Int /\ q \in Int
    OBVIOUS
  <2>2. /\ look = "OBRACE" => p = 1
        /\ look = "CBRACE" => p = -1
        /\ look \notin {"OBRACE", "CBRACE"} => p = 0
        /\ look = "OCBRACE" => q = 1
        /\ look = "CCBRACE" => q = -1
        /\ look \notin {"OCBRACE", "CCBRACE"} => q = 0
    OBVIOUS
  <2>3. opened' = [paren |-> opened.paren + p, brace |-> opened.brace + q]
    BY DEF Advance
  <2> HIDE DEF p, q
  <2> QED
    BY <1>1, <2>1, <2>2, <2>3
<1> QED
  BY <1>2, <1>3, <1>4

(* Within the program, the two last items are its loop and the end.        *)
LEMMA Within ==
  ASSUME Inv, todo # <<>>, Head(todo) # Expect("END")
  PROVE  /\ todo \in Seq(Items) /\ Tail(todo) \in Seq(Items) /\ Tail(todo) # <<>>
         /\ Head(todo) \in Items
         /\ Len(Tail(todo)) = Len(todo) - 1 /\ Len(todo) \in Nat
         /\ Tail(todo)[Len(Tail(todo))] = Expect("END")
         /\ Linked(Tail(todo)) /\ Fits(Head(todo), Tail(todo)[1])
         /\ Head(todo).op # "program" => Len(Tail(todo)) >= 2
<1>1. todo \in Seq(Items)
  BY DEF Inv, TypeOK, Items
<1>2. /\ Tail(todo) \in Seq(Items) /\ Len(todo) \in Nat \ {0} /\ Len(Tail(todo)) = Len(todo) - 1
      /\ Head(todo) = todo[1] /\ Head(todo) \in Items
      /\ \A i \in 1..(Len(todo) - 1) : Tail(todo)[i] = todo[i + 1]
  BY <1>1, Tails
<1>3. todo[Len(todo)] = Expect("END")
  BY DEF Inv, Ending
<1>4. Len(todo) >= 2
  BY <1>2, <1>3
<1>5. Tail(todo) # <<>> /\ Tail(todo)[Len(Tail(todo))] = Expect("END")
  <2>1. Len(todo) - 1 \in 1..(Len(todo) - 1) /\ (Len(todo) - 1) + 1 = Len(todo)
    BY <1>2, <1>4
  <2>2. Tail(todo)[Len(todo) - 1] = todo[Len(todo)]
    BY <1>2, <2>1
  <2>3. Tail(todo) # <<>>
    <3>1. Len(Tail(todo)) >= 1
      BY <1>2, <1>4
    <3> DEFINE t == Tail(todo)
    <3>2. t = <<>> <=> Len(t) = 0
      BY <1>2, EmptyLength
    <3>3. Len(t) # 0
      BY <1>2, <1>4
    <3> HIDE DEF t
    <3>4. t # <<>>
      BY <3>2, <3>3
    <3> QED
      BY <3>4 DEF t
  <2> QED
    BY <1>2, <1>3, <2>2, <2>3
<1>6. Linked(Tail(todo)) /\ Fits(Head(todo), Tail(todo)[1])
  BY <1>1, <1>5, LinkedTail DEF Inv
<1>7. Head(todo).op # "program" => Len(Tail(todo)) >= 2
  <2>1. Len(Tail(todo)) = 1 => Tail(todo)[1] = Expect("END")
    BY <1>5
  <2>2. Tail(todo)[1] = Expect("END") => Head(todo).op = "program"
    BY <1>6 DEF Fits
  <2> QED
    BY <1>2, <1>4, <2>1, <2>2
<1> QED
  BY <1>1, <1>2, <1>5, <1>6, <1>7

(* The innermost call is replaced by plain items and these items r.        *)
LEMMA Replaced ==
  ASSUME Inv, todo # <<>>, status = "running",
         Head(todo) # Expect("END"),
         NEW s \in Seq(Plain), NEW r \in Seq(Items), Linked(r),
         Head(todo).op = "program" => r # <<>>,
         r # <<>> => r[1] # Expect("END") /\ Fits(r[Len(r)], Tail(todo)[1]),
         todo' = (s \o r) \o Tail(todo), past' = past, status' = status
  PROVE  todo' \in Seq(Items) /\ Linked(todo') /\ Ending'
<1>1. /\ todo \in Seq(Items) /\ Tail(todo) \in Seq(Items) /\ Tail(todo) # <<>>
      /\ Tail(todo)[Len(Tail(todo))] = Expect("END")
      /\ Len(Tail(todo)) \in Nat /\ Len(Tail(todo)) >= 1
      /\ Head(todo).op # "program" => Len(Tail(todo)) >= 2
  <2>1. Len(Tail(todo)) # 0
    BY Within, EmptyLength
  <2> QED
    BY <2>1, Within
<1>2. todo' \in Seq(Items) /\ Linked(todo')
  BY <1>1, ReplacedLinked DEF Inv
<1>3. Len(todo') >= 2 /\ todo'[Len(todo')] = Expect("END")
  <2> DEFINE u == s \o r
             t == Tail(todo)
  <2>1. u \in Seq(Items) /\ todo' = u \o t
    BY PlainLinked
  <2>2. t \in Seq(Items) /\ t[Len(t)] = Expect("END") /\ Len(t) >= 1
    BY <1>1
  <2>6. Len(u) >= 1 \/ Len(t) >= 2
    <3>1. r # <<>> => Len(r) # 0
      BY EmptyLength
    <3>2. Len(u) = Len(s) + Len(r) /\ Len(s) \in Nat /\ Len(r) \in Nat
      BY PlainLinked, Concatenated
    <3> QED
      BY <1>1, <3>1, <3>2
  <2> HIDE DEF u, t
  <2>3. Len(t) \in 1..Len(t) /\ Len(u) \in Nat
    BY <2>1, <2>2
  <2>4. Len(u \o t) = Len(u) + Len(t) /\ (u \o t)[Len(u) + Len(t)] = t[Len(t)]
    BY <2>1, <2>2, <2>3, Concatenated
  <2>5. Len(u) + Len(t) >= 2
    BY <2>2, <2>3, <2>6
  <2> QED
    BY <2>1, <2>2, <2>4, <2>5
<1>4. past = 0
  BY DEF Inv, Ending
<1>5. todo' # <<>>
  <2>1. todo' = <<>> <=> Len(todo') = 0
    BY <1>2, EmptyLength
  <2> QED
    BY <1>3, <2>1
<1>6. ~(Len(todo') <= 1)
  BY <1>2, <1>3
<1> QED
  BY <1>2, <1>3, <1>4, <1>5, <1>6 DEF Ending

(* What replacing the innermost call does to the symbols left to close.    *)
LEMMA Reckoned ==
  ASSUME Inv, todo # <<>>, NEW s \in Seq(Items), todo' = s \o Tail(todo)
  PROVE  /\ Parens(todo') = Parens(todo) - Parenthesis(Head(todo)) + Parens(s)
         /\ Braces(todo') = Braces(todo) - Brace(Head(todo)) + Braces(s)
<1>1. todo \in Seq(Items) /\ Tail(todo) \in Seq(Items)
  BY Tails DEF Inv, TypeOK, Items
<1>2. /\ Parens(todo') = Parens(s) + Parens(Tail(todo))
      /\ Braces(todo') = Braces(s) + Braces(Tail(todo))
  BY <1>1, ClosedJoin
<1>3. /\ Parens(Tail(todo)) = Parens(todo) - Parenthesis(Head(todo))
      /\ Braces(Tail(todo)) = Braces(todo) - Brace(Head(todo))
  BY <1>1, ClosedTail
<1>4. /\ Parens(todo) \in Int /\ Braces(todo) \in Int
      /\ Parens(s) \in Int /\ Braces(s) \in Int
  BY <1>1, LeftToClose
<1>5. Parenthesis(Head(todo)) \in Int /\ Brace(Head(todo)) \in Int
  BY SymbolsCount
<1> QED
  BY <1>2, <1>3, <1>4, <1>5

(* Nothing of the block the builder is in has been touched.                *)
LEMMA FlagsStay ==
  ASSUME Inv, todo # <<>>, flags' = flags,
         Head(todo).op \notin {"stmts", "endblock"},
         NEW s \in Seq(Items), todo' = s \o Tail(todo),
         \A k \in 1..Len(s) : s[k].op \notin {"stmts", "endblock"}
  PROVE  FlagsAreLocal'
<1> SUFFICES ASSUME flags = "set"
             PROVE  \E i \in DOMAIN todo' :
                      /\ \/ todo'[i].op = "endblock"
                         \/ todo'[i].op = "stmts" /\ todo'[i].n > 0
                      /\ \A j \in 1..(i - 1) : todo'[j].op \notin {"stmts", "endblock"}
  BY DEF FlagsAreLocal
<1>0. todo \in Seq(Items)
  BY DEF Inv, TypeOK, Items
<1>1. /\ todo \in Seq(Items) /\ Tail(todo) \in Seq(Items)
      /\ Len(todo) \in Nat /\ Len(s) \in Nat
      /\ Len(Tail(todo)) = Len(todo) - 1 /\ Head(todo) = todo[1]
      /\ \A i \in 1..(Len(todo) - 1) : Tail(todo)[i] = todo[i + 1]
  <2>1. Len(s) \in Nat
    OBVIOUS
  <2> QED
    BY <1>0, <2>1, Tails
<1>2. PICK i \in 1..Len(todo) :
         /\ \/ todo[i].op = "endblock"
            \/ todo[i].op = "stmts" /\ todo[i].n > 0
         /\ \A j \in 1..(i - 1) : todo[j].op \notin {"stmts", "endblock"}
  BY <1>1 DEF Inv, FlagsAreLocal
<1>3. i # 1 /\ i - 1 \in 1..(Len(todo) - 1)
  BY <1>1, <1>2
<1> DEFINE m == Len(s) + (i - 1)
<1>4. /\ todo' \in Seq(Items) /\ Len(todo') = Len(s) + (Len(todo) - 1)
      /\ \A k \in 1..Len(s) : todo'[k] = s[k]
      /\ \A k \in 1..(Len(todo) - 1) : todo'[Len(s) + k] = todo[k + 1]
  BY <1>1, Concatenated
<1>5. m \in DOMAIN todo' /\ todo'[m] = todo[i]
  <2>1. todo'[m] = todo[(i - 1) + 1] /\ (i - 1) + 1 = i
    BY <1>3, <1>4
  <2>2. m \in 1..Len(todo') /\ DOMAIN todo' = 1..Len(todo')
    BY <1>1, <1>3, <1>4
  <2> QED
    BY <2>1, <2>2
<1>6. ASSUME NEW j \in 1..(m - 1)
      PROVE  todo'[j].op \notin {"stmts", "endblock"}
  <2>1. CASE j \in 1..Len(s)
    BY <1>4, <2>1
  <2>2. CASE j \notin 1..Len(s)
    <3>1. j - Len(s) \in 1..(i - 2) /\ j = Len(s) + (j - Len(s))
      BY <1>1, <1>3, <2>2
    <3>2. j - Len(s) \in 1..(Len(todo) - 1) /\ (j - Len(s)) + 1 \in 1..(i - 1)
      BY <1>1, <3>1
    <3>3. todo'[j] = todo[(j - Len(s)) + 1]
      BY <1>4, <3>1, <3>2
    <3> QED
      BY <1>2, <3>2, <3>3
  <2> QED
    BY <2>1, <2>2
<1> HIDE DEF m
<1> QED
  BY <1>2, <1>5, <1>6
-----------------------------------------------------------------------------
(* The type of everything but the calls under way.                         *)
Surroundings ==
  /\ look \in Tokens \cup {"END"}
  /\ left \in 0..MaxTokens
  /\ flags \in {"clear", "set"}
  /\ fun \in [name : Tokens \cup {"END", ""}, arity : Nat]
  /\ type \in Tokens \cup {"END", ""}
  /\ defs \in [Identifiers -> Nat \cup {Undefined}]
  /\ opened \in [paren : Int, brace : Int]
  /\ errors \in {"none", "some"}

LEMMA Typed == TypeOK <=> /\ Surroundings /\ past \in Nat
                          /\ todo \in Seq(Items)
                          /\ status \in {"running", "parsed", "exit", "abort"}
  BY DEF TypeOK, Surroundings, Items

LEMMA TypedNext ==
  ASSUME Surroundings', past' \in Nat, todo' \in Seq(Items),
         status' \in {"running", "parsed", "exit", "abort"}
  PROVE  TypeOK'
  BY DEF TypeOK, Surroundings, Items

(* A step of the innermost call, the flag of its block aside.              *)
LEMMA Continued ==
  ASSUME Inv, todo # <<>>, status = "running",
         Head(todo) # Expect("END"),
         NEW s \in Seq(Plain), NEW r \in Seq(Items), Linked(r),
         Head(todo).op = "program" => r # <<>>,
         r # <<>> => r[1] # Expect("END") /\ Fits(r[Len(r)], Tail(todo)[1]),
         todo' = (s \o r) \o Tail(todo), past' = past, status' = status,
         Surroundings',
         errors' = "none" =>
           /\ errors = "none"
           /\ opened'.paren = opened.paren - Parenthesis(Head(todo)) + Parens(s \o r)
           /\ opened'.brace = opened.brace - Brace(Head(todo)) + Braces(s \o r)
  PROVE  TypeOK' /\ Linked(todo') /\ Ending' /\ Balance'
<1>1. todo' \in Seq(Items) /\ Linked(todo') /\ Ending'
  BY Replaced
<1>2. TypeOK'
  <2>1. past \in Nat /\ status \in {"running", "parsed", "exit", "abort"}
    BY DEF Inv, TypeOK
  <2> QED
    BY <1>1, <2>1, TypedNext
<1>3. Balance'
  <2> DEFINE u == s \o r
  <2>1. u \in Seq(Items) /\ todo' = u \o Tail(todo)
    BY PlainLinked
  <2> HIDE DEF u
  <2>2. /\ Parens(todo') = Parens(todo) - Parenthesis(Head(todo)) + Parens(u)
        /\ Braces(todo') = Braces(todo) - Brace(Head(todo)) + Braces(u)
    BY <2>1, Reckoned
  <2>3. errors' = "none" =>
          /\ errors = "none"
          /\ opened'.paren = opened.paren - Parenthesis(Head(todo)) + Parens(u)
          /\ opened'.brace = opened.brace - Brace(Head(todo)) + Braces(u)
    BY DEF u
  <2> QED
    BY <2>2, <2>3 DEF Inv, Balance
<1> QED
  BY <1>1, <1>2, <1>3

Calm == {x \in Items : x.op \notin {"stmts", "endblock"}}

(* A step of a call that is neither a block nor the program.               *)
LEMMA Proceeds ==
  ASSUME Inv, todo # <<>>, status = "running", Head(todo) # Expect("END"),
         Head(todo).op \notin {"stmts", "endblock"},
         NEW s \in Seq(Plain), NEW r \in Seq(Calm), Linked(r),
         Head(todo).op = "program" => r # <<>>,
         r # <<>> => r[1] # Expect("END") /\ Fits(r[Len(r)], Tail(todo)[1]),
         todo' = (s \o r) \o Tail(todo), past' = past, status' = status,
         Surroundings', flags' = flags,
         errors' = "none" =>
           /\ errors = "none"
           /\ opened'.paren = opened.paren - Parenthesis(Head(todo)) + Parens(s \o r)
           /\ opened'.brace = opened.brace - Brace(Head(todo)) + Braces(s \o r)
  PROVE  Inv'
<1>1. r \in Seq(Items)
  BY DEF Calm
<1>2. TypeOK' /\ Linked(todo') /\ Ending' /\ Balance'
  BY <1>1, Continued
<1>3. FlagsAreLocal'
  <2> DEFINE u == s \o r
  <2>1. s \in Seq(Calm)
    <3>1. \A x \in Plain : x \in Calm
      BY DEF Plain, Calm
    <3> QED
      BY <3>1
  <2>2. u \in Seq(Calm) /\ todo' = u \o Tail(todo)
    BY <2>1
  <2> HIDE DEF u
  <2>3. u \in Seq(Items) /\ \A k \in 1..Len(u) : u[k].op \notin {"stmts", "endblock"}
    BY <2>2 DEF Calm
  <2> QED
    BY <2>2, <2>3, FlagsStay
<1> QED
  BY <1>2, <1>3 DEF Inv

LEMMA ProceedsPlainly ==
  ASSUME Inv, todo # <<>>, status = "running", Head(todo) # Expect("END"),
         Head(todo).op \notin {"program", "stmts", "endblock"},
         NEW s \in Seq(Plain),
         todo' = s \o Tail(todo), past' = past, status' = status,
         Surroundings', flags' = flags,
         errors' = "none" =>
           /\ errors = "none"
           /\ opened'.paren = opened.paren - Parenthesis(Head(todo)) + Parens(s)
           /\ opened'.brace = opened.brace - Brace(Head(todo)) + Braces(s)
  PROVE  Inv'
<1> DEFINE r == <<>>
<1>1. s \o r = s /\ r \in Seq(Calm) /\ Linked(r) /\ r = <<>>
  BY DEF Linked
<1> HIDE DEF r
<1> QED
  BY <1>1, Proceeds

(* What a call that is under way finds.                                    *)
LEMMA Begun ==
  ASSUME Inv, NEW op \in Ops \ {"expect", "program"}, Doing(op)
  PROVE  /\ todo # <<>> /\ status = "running" /\ Head(todo) # Expect("END")
         /\ Head(todo).op = op /\ Head(todo) \in Items
         /\ Tail(todo) # <<>> /\ Fits(Head(todo), Tail(todo)[1])
         /\ op \notin {"params", "args"} => Parenthesis(Head(todo)) = 0 /\ Brace(Head(todo)) = 0
         /\ op \in {"params", "args"} => Parenthesis(Head(todo)) = 1 /\ Brace(Head(todo)) = 0
<1>1. todo # <<>> /\ status = "running" /\ Head(todo).op = op
  BY DEF Doing
<1>2. Expect("END").op = "expect"
  BY ExpectFields
<1>3. Head(todo) # Expect("END")
  BY <1>1, <1>2
<1>4. Head(todo) \in Items /\ Tail(todo) # <<>> /\ Fits(Head(todo), Tail(todo)[1])
  BY <1>1, <1>3, Within
<1>5. op \notin {"params", "args"} => Head(todo) \in Neutral
  BY <1>1, <1>4 DEF Neutral
<1> QED
  BY <1>1, <1>3, <1>4, <1>5, SymbolsClose

(* A list is worth its head and its tail.                                  *)
LEMMA HeadAndTail ==
  ASSUME NEW s \in Seq(Items), s # <<>>
  PROVE  /\ Parens(s) = Parenthesis(Head(s)) + Parens(Tail(s))
         /\ Braces(s) = Brace(Head(s)) + Braces(Tail(s))
<1>1. Parens(s) \in Int /\ Braces(s) \in Int
  BY LeftToClose
<1>2. Parenthesis(Head(s)) \in Int /\ Brace(Head(s)) \in Int
  BY SymbolsCount
<1> QED
  BY <1>1, <1>2, ClosedTail

LEMMA OneCloses ==
  ASSUME NEW x \in Items
  PROVE  Parens(<<x>>) = Parenthesis(x) /\ Braces(<<x>>) = Brace(x)
<1> DEFINE s == <<x>>
<1>1. s \in Seq(Items) /\ s # <<>> /\ Head(s) = x /\ Tail(s) = <<>>
  OBVIOUS
<1> HIDE DEF s
<1>2. Parens(s) = Parenthesis(x) + 0 /\ Braces(s) = Brace(x) + 0
  BY <1>1, HeadAndTail, NothingToClose
<1>3. Parenthesis(x) \in Int /\ Brace(x) \in Int
  BY SymbolsCount
<1> QED
  BY <1>2, <1>3 DEF s

LEMMA PairCloses ==
  ASSUME NEW x \in Items, NEW y \in Items
  PROVE  /\ Parens(<<x, y>>) = Parenthesis(x) + Parenthesis(y)
         /\ Braces(<<x, y>>) = Brace(x) + Brace(y)
<1> DEFINE s == <<x, y>>
<1>1. s \in Seq(Items) /\ s # <<>> /\ Head(s) = x /\ Tail(s) = <<y>>
  OBVIOUS
<1> HIDE DEF s
<1>2. Parens(s) = Parenthesis(x) + Parens(<<y>>) /\ Braces(s) = Brace(x) + Braces(<<y>>)
  BY <1>1, HeadAndTail
<1> QED
  BY <1>2, OneCloses DEF s

LEMMA TripleCloses ==
  ASSUME NEW x \in Items, NEW y \in Items, NEW z \in Items
  PROVE  /\ Parens(<<x, y, z>>) = Parenthesis(x) + (Parenthesis(y) + Parenthesis(z))
         /\ Braces(<<x, y, z>>) = Brace(x) + (Brace(y) + Brace(z))
<1> DEFINE s == <<x, y, z>>
<1>1. s \in Seq(Items) /\ s # <<>> /\ Head(s) = x /\ Tail(s) = <<y, z>>
  OBVIOUS
<1> HIDE DEF s
<1>2. Parens(s) = Parenthesis(x) + Parens(<<y, z>>) /\ Braces(s) = Brace(x) + Braces(<<y, z>>)
  BY <1>1, HeadAndTail
<1> QED
  BY <1>2, PairCloses DEF s
-----------------------------------------------------------------------------
(* The end of the input is expected last, and it is there.                 *)
(* The last expectation: the end of the input.                             *)
LEMMA LastExpected ==
  ASSUME Inv, ExpectStep, Head(todo) = Expect("END")
  PROVE  Inv'
<1>1. todo \in Seq(Items) /\ todo # <<>> /\ status = "running"
  BY DEF Inv, TypeOK, Items, ExpectStep, Doing
<1>2. Head(todo).tok = "END" /\ Head(todo).op = "expect"
  BY ExpectFields
<1>3. Tail(todo) = <<>>
  BY <1>1, <1>2, LinkedTail DEF Inv, Fits
<1>4. Len(todo) = 1 /\ todo[1] = Head(todo) /\ todo' = <<>>
  <2>1. Len(Tail(todo)) = Len(todo) - 1 /\ Len(todo) \in Nat /\ Head(todo) = todo[1]
    BY <1>1, Tails
  <2>2. Len(Tail(todo)) = 0
    <3>1. Tail(todo) \in Seq(Items)
      BY <1>1, Tails
    <3> QED
      BY <1>3, <3>1, EmptyLength
  <2>3. todo' = <<>> \o <<>>
    BY <1>3 DEF ExpectStep, Then
  <2> QED
    BY <2>1, <2>2, <2>3
<1>5. look = "END" /\ past = 0
  BY <1>1, <1>4 DEF Inv, Ending
<1>6. Advance /\ UNCHANGED <<flags, fun, type, defs, status, errors>>
  BY <1>2, <1>5 DEF ExpectStep, Sees, names
<1>7. /\ look' = "END" /\ past' = 1 /\ left' \in 0..MaxTokens
      /\ opened' \in [paren : Int, brace : Int]
      /\ opened'.paren = opened.paren /\ opened'.brace = opened.brace
  BY <1>5, <1>6, AdvanceTaken DEF Inv
<1>8. TypeOK'
  <2>1. todo' \in Seq(Items)
    BY <1>4
  <2>2. Surroundings' /\ past' \in Nat /\ status' \in {"running", "parsed", "exit", "abort"}
    BY <1>6, <1>7 DEF Inv, TypeOK, Surroundings
  <2> QED
    BY <2>1, <2>2, TypedNext
<1>9. Linked(todo') /\ Ending'
  BY <1>1, <1>4, <1>6, <1>7 DEF Linked, Ending
<1>10. Balance'
  <2>1. Expect("END") \in Neutral
    BY ExpectFields DEF Neutral
  <2>2. Parenthesis(Head(todo)) = 0 /\ Brace(Head(todo)) = 0
    BY <2>1, SymbolsClose
  <2>3. Parens(todo) = 0 + Parens(Tail(todo)) /\ Braces(todo) = 0 + Braces(Tail(todo))
    BY <1>1, <2>2, HeadAndTail
  <2>4. Parens(todo) = 0 /\ Braces(todo) = 0
    <3>1. Len(Tail(todo)) = 0
      BY <1>1, <1>4, Tails
    <3>2. Parens(Tail(todo)) = 0 /\ Braces(Tail(todo)) = 0
      BY <3>1, NothingToClose
    <3> QED
      BY <2>3, <3>2
  <2>5. Parens(todo') = 0 /\ Braces(todo') = 0
    BY <1>4, NothingToClose
  <2> QED
    BY <1>6, <1>7, <2>4, <2>5 DEF Inv, Balance
<1>11. FlagsAreLocal'
  <2>1. DOMAIN todo = {1}
    BY <1>1, <1>4
  <2>2. flags # "set"
    BY <1>2, <1>4, <2>1 DEF Inv, FlagsAreLocal
  <2> QED
    BY <1>6, <2>2 DEF FlagsAreLocal
<1> QED
  BY <1>8, <1>9, <1>10, <1>11 DEF Inv

(* Any other expectation, met or reported.                                 *)
LEMMA OtherExpected ==
  ASSUME Inv, ExpectStep, Head(todo) # Expect("END")
  PROVE  Inv'
<1> DEFINE tok == Head(todo).tok
           none == <<>>
<1>1. /\ todo # <<>> /\ status = "running" /\ Head(todo).op = "expect"
      /\ todo' = none \o Tail(todo) /\ UNCHANGED <<flags, fun, type, defs, status>>
  BY DEF ExpectStep, Doing, Then, names
<1>2. Head(todo) = Expect(tok) /\ tok # "END" /\ Head(todo) \in Items
  BY <1>1, Within DEF Fits
<1>3. none \in Seq(Plain) /\ Parens(none) = 0 /\ Braces(none) = 0
  BY NothingToClose
<1>4. past = 0 /\ Head(todo).op \notin {"program", "stmts", "endblock"}
  BY <1>1 DEF Inv, Ending
<1>5. CASE Sees(tok)
  <2>1. Advance /\ errors' = errors
    BY <1>1, <1>5 DEF ExpectStep
  <2>2. look # "END"
    BY <1>2, <1>5 DEF Sees, Identifiers
  <2>3. Surroundings' /\ past' = past
    BY <1>1, <2>1, <2>2, AdvanceTaken DEF Inv, TypeOK, Surroundings
  <2>4. \/ tok \in {"OBRACE", "CBRACE", "OCBRACE", "CCBRACE"}
        \/ look \in {"OBRACE", "CBRACE", "OCBRACE", "CCBRACE"}
        => look = tok
    BY <1>5 DEF Sees, Identifiers
  <2>5. /\ opened'.paren = opened.paren - Parenthesis(Head(todo))
        /\ opened'.brace = opened.brace - Brace(Head(todo))
    <3>1. opened.paren \in Int /\ opened.brace \in Int
      BY DEF Inv, TypeOK
    <3>2. CASE tok \in {"OBRACE", "CBRACE", "OCBRACE", "CCBRACE"}
      <4>1. look = tok
        BY <2>4, <3>2
      <4> HIDE DEF tok
      <4> QED
        BY <1>2, <2>1, <3>1, <3>2, <4>1, AdvanceTaken, SymbolsClose DEF Inv
    <3>3. CASE tok \notin {"OBRACE", "CBRACE", "OCBRACE", "CCBRACE"}
      <4>1. Parenthesis(Head(todo)) = 0 /\ Brace(Head(todo)) = 0
        BY <1>1, <1>2, <3>3, SymbolsClose DEF Neutral
      <4>2. look \notin {"OBRACE", "CBRACE", "OCBRACE", "CCBRACE"}
        BY <2>4, <3>3
      <4> QED
        BY <2>1, <3>1, <4>1, <4>2, AdvanceTaken DEF Inv
    <3> QED
      BY <3>2, <3>3
  <2>6. /\ opened'.paren = opened.paren - Parenthesis(Head(todo)) + Parens(none)
        /\ opened'.brace = opened.brace - Brace(Head(todo)) + Braces(none)
    <3>1. opened'.paren \in Int /\ opened'.brace \in Int
      BY <2>3 DEF Surroundings
    <3> QED
      BY <1>3, <2>5, <3>1
  <2> HIDE DEF none
  <2> QED
    BY <1>1, <1>3, <1>4, <2>1, <2>3, <2>6, ProceedsPlainly
<1>6. CASE ~Sees(tok)
  <2>1. errors' = "some" /\ UNCHANGED <<look, left, past, opened>>
    BY <1>1, <1>6 DEF ExpectStep, input
  <2>2. Surroundings' /\ past' = past
    BY <1>1, <2>1 DEF Inv, TypeOK, Surroundings
  <2> HIDE DEF none
  <2> QED
    BY <1>1, <1>3, <1>4, <2>1, <2>2, ProceedsPlainly
<1> QED
  BY <1>5, <1>6

LEMMA ProceedsBy ==
  ASSUME Inv, NEW op \in Ops \ {"expect", "program", "stmts", "endblock"}, Doing(op),
         NEW r \in Seq(Calm), r # <<>>, Linked(r),
         r[1] # Expect("END"), Fits(r[Len(r)], Tail(todo)[1]),
         Then(r), past' = past, status' = status, Surroundings', flags' = flags,
         errors' = errors,
         opened'.paren = opened.paren - Parenthesis(Head(todo)) + Parens(r),
         opened'.brace = opened.brace - Brace(Head(todo)) + Braces(r)
  PROVE  Inv'
<1> DEFINE s == <<>>
<1>1. s \in Seq(Plain) /\ s \o r = r
  OBVIOUS
<1> HIDE DEF s
<1>2. /\ todo # <<>> /\ status = "running" /\ Head(todo) # Expect("END")
      /\ Head(todo).op \notin {"program", "stmts", "endblock"}
  BY Begun
<1>3. todo' = (s \o r) \o Tail(todo)
  BY <1>1 DEF Then
<1>4. /\ opened'.paren = opened.paren - Parenthesis(Head(todo)) + Parens(s \o r)
      /\ opened'.brace = opened.brace - Brace(Head(todo)) + Braces(s \o r)
  BY <1>1
<1> QED
  BY <1>1, <1>2, <1>3, <1>4, Proceeds

LEMMA ProceedsByNeutral ==
  ASSUME Inv,
         NEW op \in Ops \ {"expect", "program", "stmts", "endblock", "params", "args"},
         Doing(op), NEW r \in Seq(Calm), r \in Seq(Neutral), r # <<>>, Linked(r),
         r[1].op # "expect", Fits(r[Len(r)], Tail(todo)[1]),
         Then(r), past' = past, status' = status, Surroundings', flags' = flags,
         errors' = errors,
         opened'.paren = opened.paren, opened'.brace = opened.brace
  PROVE  Inv'
<1>1. Parenthesis(Head(todo)) = 0 /\ Brace(Head(todo)) = 0
  BY Begun
<1>2. Parens(r) = 0 /\ Braces(r) = 0
  BY NeutralClosed
<1>3. opened.paren \in Int /\ opened.brace \in Int
  BY DEF Inv, TypeOK
<1>4. opened.paren - 0 + 0 = opened.paren /\ opened.brace - 0 + 0 = opened.brace
  BY <1>3, Sums
<1>5. /\ opened'.paren = opened.paren - Parenthesis(Head(todo)) + Parens(r)
      /\ opened'.brace = opened.brace - Brace(Head(todo)) + Braces(r)
  BY <1>1, <1>2, <1>4
<1>6. r[1] # Expect("END")
  BY ExpectFields
<1> QED
  BY <1>5, <1>6, ProceedsBy

(* What a step that consumes a token, and one that consumes none, changes. *)
LEMMA InputConsumed ==
  ASSUME Inv, Advance, look # "END", UNCHANGED <<flags, fun, type, defs, errors>>
  PROVE  /\ Surroundings' /\ past' = past
         /\ look # "CBRACE" /\ look # "OBRACE" => opened'.paren = opened.paren
         /\ look # "CCBRACE" /\ look # "OCBRACE" => opened'.brace = opened.brace
  BY AdvanceTaken DEF Inv, TypeOK, Surroundings

LEMMA Kept ==
  ASSUME Inv, UNCHANGED input, UNCHANGED <<flags, errors>>,
         fun' \in [name : Tokens \cup {"END", ""}, arity : Nat],
         type' \in Tokens \cup {"END", ""},
         defs' \in [Identifiers -> Nat \cup {Undefined}]
  PROVE  /\ Surroundings' /\ past' = past
         /\ opened'.paren = opened.paren /\ opened'.brace = opened.brace
  BY DEF input, Inv, TypeOK, Surroundings

LEMMA Halts ==
  ASSUME Inv, NEW how \in {"exit", "abort"}, Halt(how)
  PROVE  Inv'
<1>1. UNCHANGED <<look, left, past, opened, todo, flags, fun, type, defs, errors>> /\ status' = how
  BY DEF Halt, input, names
<1>2. TypeOK'
  BY <1>1 DEF Inv, TypeOK
<1>3. Linked(todo') /\ Ending'
  BY <1>1 DEF Inv, Linked, Ending
<1>4. Balance' /\ FlagsAreLocal'
  BY <1>1 DEF Inv, Balance, FlagsAreLocal
<1> QED
  BY <1>2, <1>3, <1>4 DEF Inv

(* A step that puts as many symbols in place of the call as that promised. *)
LEMMA Rewritten ==
  ASSUME Inv, NEW op \in Ops \ {"expect", "program", "stmts", "endblock"}, Doing(op),
         NEW s \in Seq(Plain), Then(s),
         past' = past, status' = status, Surroundings', flags' = flags, errors' = errors,
         opened'.paren = opened.paren, opened'.brace = opened.brace,
         Parens(s) = Parenthesis(Head(todo)), Braces(s) = Brace(Head(todo))
  PROVE  Inv'
<1>1. /\ todo # <<>> /\ status = "running" /\ Head(todo) # Expect("END")
      /\ Head(todo).op \notin {"program", "stmts", "endblock"}
  BY Begun
<1>2. todo' = s \o Tail(todo)
  BY DEF Then
<1>3. /\ opened'.paren = opened.paren - Parenthesis(Head(todo)) + Parens(s)
      /\ opened'.brace = opened.brace - Brace(Head(todo)) + Braces(s)
  <2>1. opened.paren \in Int /\ opened.brace \in Int
    BY DEF Inv, TypeOK
  <2>2. Parenthesis(Head(todo)) \in Int /\ Brace(Head(todo)) \in Int
    BY SymbolsCount
  <2>3. /\ opened.paren = opened.paren - Parenthesis(Head(todo)) + Parenthesis(Head(todo))
        /\ opened.brace = opened.brace - Brace(Head(todo)) + Brace(Head(todo))
    BY <2>1, <2>2
  <2> QED
    BY <2>3
<1> QED
  BY <1>1, <1>2, <1>3, ProceedsPlainly

(* The calls that promise nothing.                                         *)
LEMMA RewrittenNeutral ==
  ASSUME Inv,
         NEW op \in Ops \ {"expect", "program", "stmts", "endblock", "params", "args"},
         Doing(op), NEW s \in Seq(Plain), s \in Seq(Neutral), Then(s),
         past' = past, status' = status, Surroundings', flags' = flags, errors' = errors,
         opened'.paren = opened.paren, opened'.brace = opened.brace
  PROVE  Inv'
<1>1. Parenthesis(Head(todo)) = 0 /\ Brace(Head(todo)) = 0
  BY Begun
<1>2. Parens(s) = 0 /\ Braces(s) = 0
  BY NeutralClosed
<1> QED
  BY <1>1, <1>2, Rewritten

LEMMA PlainSteps ==
  ASSUME Inv, RetVal \/ Else \/ FunName \/ Param \/ TypeName \/ Define
  PROVE  Inv'
<1>1. /\ fun \in [name : Tokens \cup {"END", ""}, arity : Nat]
      /\ type \in Tokens \cup {"END", ""} /\ look \in Tokens \cup {"END"}
      /\ defs \in [Identifiers -> Nat \cup {Undefined}]
  BY DEF Inv, TypeOK
<1>2. <<>> \in Seq(Plain) /\ <<>> \in Seq(Neutral)
  OBVIOUS
<1>3. /\ Expect("SEMICOLON") \in Plain /\ Expect("SEMICOLON") \in Neutral
      /\ Expect("ELSE") \in Plain /\ Expect("ELSE") \in Neutral
      /\ Expect("NAME") \in Plain /\ Expect("NAME") \in Neutral
  BY PlainItems, NeutralItems DEF AllTokens
<1>4. /\ Item("expr") \in Plain /\ Item("expr") \in Neutral
      /\ Item("block") \in Plain /\ Item("block") \in Neutral
      /\ Item("moreparams") \in Plain /\ Item("moreparams") \in Neutral
  BY PlainItems, NeutralItems DEF Ops
<1>5. CASE RetVal
  <2> DEFINE s == IF look = "SEMICOLON" THEN <<Expect("SEMICOLON")>> ELSE ExprStmt
  <2>1. s \in Seq(Plain) /\ s \in Seq(Neutral)
    BY <1>3, <1>4 DEF ExprStmt
  <2>2. Doing("retval") /\ Then(s) /\ UNCHANGED <<input, flags, fun, type, defs, errors, status>>
    BY <1>5 DEF RetVal, names
  <2>3. "retval" \in Ops \ {"expect", "program", "stmts", "endblock", "params", "args"}
    BY DEF Ops
  <2> HIDE DEF s
  <2> QED
    BY <1>1, <2>1, <2>2, <2>3, Kept, RewrittenNeutral
<1>6. CASE Else
  <2> DEFINE s == IF look = "ELSE" THEN <<Expect("ELSE"), Item("block")>> ELSE <<>>
  <2>1. s \in Seq(Plain) /\ s \in Seq(Neutral)
    BY <1>2, <1>3, <1>4
  <2>2. Doing("else") /\ Then(s) /\ UNCHANGED <<input, flags, fun, type, defs, errors, status>>
    BY <1>6 DEF Else, names
  <2>3. "else" \in Ops \ {"expect", "program", "stmts", "endblock", "params", "args"}
    BY DEF Ops
  <2> HIDE DEF s
  <2> QED
    BY <1>1, <2>1, <2>2, <2>3, Kept, RewrittenNeutral
<1>7. CASE FunName
  <2>1. /\ Doing("funname") /\ Then(<<>>) /\ UNCHANGED <<input, flags, type, defs, errors, status>>
        /\ fun' = [name |-> look, arity |-> 0]
    BY <1>7 DEF FunName
  <2>2. "funname" \in Ops \ {"expect", "program", "stmts", "endblock", "params", "args"}
    BY DEF Ops
  <2>3. fun' \in [name : Tokens \cup {"END", ""}, arity : Nat]
    BY <1>1, <2>1
  <2> QED
    BY <1>1, <1>2, <2>1, <2>2, <2>3, Kept, RewrittenNeutral
<1>8. CASE Param
  <2> DEFINE s == <<Expect("NAME"), Item("moreparams")>>
  <2>1. s \in Seq(Plain) /\ s \in Seq(Neutral)
    BY <1>3, <1>4
  <2>2. /\ Doing("param") /\ Then(s) /\ UNCHANGED <<input, flags, type, defs, errors, status>>
        /\ fun' = [fun EXCEPT !.arity = @ + 1]
    BY <1>8 DEF Param
  <2>3. "param" \in Ops \ {"expect", "program", "stmts", "endblock", "params", "args"}
    BY DEF Ops
  <2>4. fun' \in [name : Tokens \cup {"END", ""}, arity : Nat]
    <3>0. fun.arity \in Nat
      BY <1>1
    <3>1. fun.arity + 1 \in Nat
      BY <3>0
    <3> DEFINE k == fun.arity + 1
    <3>2. fun' = [fun EXCEPT !.arity = k]
      BY <2>2
    <3> HIDE DEF k
    <3> QED
      BY <1>1, <3>1, <3>2 DEF k
  <2> HIDE DEF s
  <2> QED
    BY <1>1, <2>1, <2>2, <2>3, <2>4, Kept, RewrittenNeutral
<1>9. CASE TypeName
  <2>1. /\ Doing("typename") /\ Then(<<>>) /\ UNCHANGED <<input, flags, fun, defs, errors, status>>
        /\ type' = look
    BY <1>9 DEF TypeName
  <2>2. "typename" \in Ops \ {"expect", "program", "stmts", "endblock", "params", "args"}
    BY DEF Ops
  <2>3. type' \in Tokens \cup {"END", ""}
    BY <1>1, <2>1
  <2> QED
    BY <1>1, <1>2, <2>1, <2>2, <2>3, Kept, RewrittenNeutral
<1>10. CASE Define
  <2>1. /\ Doing("define") /\ Then(<<>>) /\ UNCHANGED <<input, flags, fun, type, errors, status>>
        /\ \/ defs' = defs
           \/ fun.name \in Identifiers /\ defs' = [defs EXCEPT ![fun.name] = fun.arity]
    BY <1>10 DEF Define
  <2>2. "define" \in Ops \ {"expect", "program", "stmts", "endblock", "params", "args"}
    BY DEF Ops
  <2>3. defs' \in [Identifiers -> Nat \cup {Undefined}]
    BY <1>1, <2>1
  <2> QED
    BY <1>1, <1>2, <2>1, <2>2, <2>3, Kept, RewrittenNeutral
<1> QED
  BY <1>5, <1>6, <1>7, <1>8, <1>9, <1>10

(* The checks: the program goes on, or ends at once.                       *)
LEMMA CheckSteps ==
  ASSUME Inv, TypeCheck \/ CheckArgs
  PROVE  Inv'
<1>1. <<>> \in Seq(Plain) /\ <<>> \in Seq(Neutral)
  OBVIOUS
<1>2. \/ \E how \in {"exit", "abort"} : Halt(how)
      \/ /\ Doing("typecheck") \/ Doing("checkargs")
         /\ Then(<<>>) /\ UNCHANGED <<input, flags, fun, type, defs, errors, status>>
  BY DEF TypeCheck, CheckArgs, names
<1>3. CASE \E how \in {"exit", "abort"} : Halt(how)
  BY <1>3, Halts
<1>4. CASE /\ Doing("typecheck") \/ Doing("checkargs")
           /\ Then(<<>>) /\ UNCHANGED <<input, flags, fun, type, defs, errors, status>>
  <2>1. {"typecheck", "checkargs"} \subseteq Ops \ {"expect", "program", "stmts", "endblock", "params", "args"}
    BY DEF Ops
  <2>2. PICK op \in {"typecheck", "checkargs"} : Doing(op)
    BY <1>4
  <2>3. /\ fun \in [name : Tokens \cup {"END", ""}, arity : Nat]
        /\ type \in Tokens \cup {"END", ""}
        /\ defs \in [Identifiers -> Nat \cup {Undefined}]
    BY DEF Inv, TypeOK
  <2> QED
    BY <1>1, <1>4, <2>1, <2>2, <2>3, Kept, RewrittenNeutral
<1> QED
  BY <1>2, <1>3, <1>4

(* A list of calls none of which puts a demand on what follows it.         *)
LEMMA ParamSteps ==
  ASSUME Inv, Params \/ MoreParams
  PROVE  Inv'
<1>1. /\ Item("param") \in Plain /\ Item("param") \in Neutral
      /\ Expect("CBRACE") \in Plain /\ Expect("CBRACE") \in Items
      /\ "params" \in Ops \ {"expect", "program", "stmts", "endblock"}
      /\ "moreparams" \in Ops \ {"expect", "program", "stmts", "endblock", "params", "args"}
  BY PlainItems, NeutralItems, ExpectFields DEF Ops, AllTokens
<1>2. /\ fun \in [name : Tokens \cup {"END", ""}, arity : Nat]
      /\ type \in Tokens \cup {"END", ""}
      /\ defs \in [Identifiers -> Nat \cup {Undefined}]
      /\ opened.paren \in Int /\ opened.brace \in Int
  BY DEF Inv, TypeOK
<1>3. CASE Params /\ look = "CBRACE"
  <2>1. Doing("params") /\ Advance /\ Then(<<>>) /\ UNCHANGED <<flags, fun, type, defs, errors, status>>
    BY <1>3 DEF Params, names
  <2>2. Surroundings' /\ past' = past /\ opened'.brace = opened.brace
    BY <1>3, <2>1, InputConsumed
  <2>3. opened'.paren = opened.paren - 1
    BY <1>3, <2>1, AdvanceTaken DEF Inv
  <2>4. /\ todo # <<>> /\ status = "running" /\ Head(todo) # Expect("END")
        /\ Head(todo).op \notin {"program", "stmts", "endblock"}
        /\ Parenthesis(Head(todo)) = 1 /\ Brace(Head(todo)) = 0
    BY <1>1, <2>1, Begun
  <2> DEFINE s == <<>>
  <2>5. s \in Seq(Plain) /\ Parens(s) = 0 /\ Braces(s) = 0 /\ todo' = s \o Tail(todo)
    BY <2>1, NothingToClose DEF Then
  <2> HIDE DEF s
  <2>6. /\ opened'.paren = opened.paren - Parenthesis(Head(todo)) + Parens(s)
        /\ opened'.brace = opened.brace - Brace(Head(todo)) + Braces(s)
    <3>0. opened.paren \in Int /\ opened.brace \in Int
      BY <1>2
    <3>1. opened.paren - 1 + 0 = opened.paren - 1 /\ opened.brace - 0 + 0 = opened.brace
      BY <3>0, Sums
    <3> QED
      BY <2>2, <2>3, <2>4, <2>5, <3>1
  <2> QED
    BY <2>1, <2>2, <2>4, <2>5, <2>6, ProceedsPlainly
<1>4. CASE Params /\ look # "CBRACE"
  <2> DEFINE s == <<Item("param"), Expect("CBRACE")>>
  <2>1. Doing("params") /\ Then(s) /\ UNCHANGED <<input, flags, fun, type, defs, errors, status>>
    BY <1>4 DEF Params, names
  <2>2. s \in Seq(Plain)
    BY <1>1
  <2>3. Parens(s) = 1 /\ Braces(s) = 0
    <3>1. Item("param") \in Items
      BY <1>1 DEF Neutral
    <3>2. /\ Parens(s) = Parenthesis(Item("param")) + Parenthesis(Expect("CBRACE"))
          /\ Braces(s) = Brace(Item("param")) + Brace(Expect("CBRACE"))
      BY <1>1, <3>1, PairCloses
    <3> HIDE DEF s
    <3> QED
      BY <1>1, <3>2, SymbolsClose
  <2>4. Parenthesis(Head(todo)) = 1 /\ Brace(Head(todo)) = 0
    BY <1>1, <2>1, Begun
  <2> HIDE DEF s
  <2> QED
    BY <1>1, <1>2, <2>1, <2>2, <2>3, <2>4, Kept, Rewritten
<1>5. CASE MoreParams /\ look = "COMMA"
  <2> DEFINE s == <<Item("param")>>
  <2>1. Doing("moreparams") /\ Advance /\ Then(s) /\ UNCHANGED <<flags, fun, type, defs, errors, status>>
    BY <1>5 DEF MoreParams, names
  <2>2. s \in Seq(Plain) /\ s \in Seq(Neutral)
    BY <1>1
  <2> HIDE DEF s
  <2> QED
    BY <1>1, <1>5, <2>1, <2>2, InputConsumed, RewrittenNeutral
<1>6. CASE MoreParams /\ look # "COMMA"
  <2> DEFINE s == <<>>
  <2>1. Doing("moreparams") /\ Then(s) /\ UNCHANGED <<input, flags, fun, type, defs, errors, status>>
    BY <1>6 DEF MoreParams, names
  <2>2. s \in Seq(Plain) /\ s \in Seq(Neutral)
    OBVIOUS
  <2> HIDE DEF s
  <2> QED
    BY <1>1, <1>2, <2>1, <2>2, Kept, RewrittenNeutral
<1> QED
  BY <1>3, <1>4, <1>5, <1>6 DEF Params, MoreParams
-----------------------------------------------------------------------------
(* Expressions.                                                            *)
LEMMA Precedences ==
  \A tok : /\ Precedence(tok) \in {-1, 10, 12, 13}
           /\ Precedence(tok) >= 0 => tok \in {"MULT", "PLUS", "MINUS", "LT"}
  BY DEF Precedence

LEMMA Numbered ==
  ASSUME NEW op \in Ops, NEW n \in Nat
  PROVE  /\ [Item(op) EXCEPT !.n = n] \in Items
         /\ [Item(op) EXCEPT !.n = n].op = op /\ [Item(op) EXCEPT !.n = n].tok = ""
         /\ [Item(op) EXCEPT !.n = n].n = n
  BY DEF Item, Items

(* Items whose only demand on what follows is that it is not the end.      *)
LEMMA Undemanding ==
  ASSUME NEW x \in Items, NEW y,
         x.op \notin {"expect", "name", "program", "rhs", "inner", "returned", "stmts"},
         x.tok # "END", y # Expect("END")
  PROVE  Fits(x, y)
<1>1. Expect("CCBRACE").op = "expect"
  BY ExpectFields DEF AllTokens
<1>2. x # Expect("CCBRACE")
  BY <1>1
<1> QED
  BY <1>2 DEF Fits

LEMMA ExprStep ==
  ASSUME Inv, Expr
  PROVE  Inv'
<1> DEFINE x == Item("prim")
           y == Item("rhs")
           r == <<x, y>>
<1>1. /\ "expr" \in Ops \ {"expect", "program", "stmts", "endblock", "params", "args"}
      /\ "prim" \in Ops /\ "rhs" \in Ops
  BY DEF Ops
<1>2. Doing("expr") /\ Then(r) /\ UNCHANGED <<input, flags, fun, type, defs, errors, status>>
  BY DEF Expr, names
<1>3. /\ fun \in [name : Tokens \cup {"END", ""}, arity : Nat]
      /\ type \in Tokens \cup {"END", ""}
      /\ defs \in [Identifiers -> Nat \cup {Undefined}]
  BY DEF Inv, TypeOK
<1>4. /\ x \in Items /\ x.op = "prim" /\ x.tok = ""
      /\ y \in Items /\ y.op = "rhs" /\ y.n = 0 /\ y.tok = ""
  BY <1>1, ItemFields
<1>5. x \in Calm \cap Neutral /\ y \in Calm \cap Neutral
  BY <1>4 DEF Calm, Neutral
<1>6. Expect("END").op = "expect" /\ Expect("CCBRACE").op = "expect"
  BY ExpectFields DEF AllTokens
<1> HIDE DEF x, y
<1>7. Fits(x, y)
  BY <1>4, <1>6, Undemanding
<1>8. Fits(y, Tail(todo)[1])
  <2>1. Fits(Head(todo), Tail(todo)[1]) /\ Head(todo).op = "expr"
    BY <1>1, <1>2, Begun
  <2> QED
    BY <1>4, <1>6, <2>1 DEF Fits
<1>9. r \in Seq(Calm \cap Neutral) /\ r # <<>> /\ Linked(r) /\ Len(r) = 2 /\ r[1] = x /\ r[2] = y
  BY <1>5, <1>7, LinkedPair
<1> HIDE DEF r
<1>10. r \in Seq(Calm) /\ r \in Seq(Neutral)
  BY <1>9
<1>11. r[1].op # "expect" /\ Fits(r[Len(r)], Tail(todo)[1])
  BY <1>4, <1>8, <1>9
<1> QED
  BY <1>1, <1>2, <1>3, <1>9, <1>10, <1>11, Kept, ProceedsByNeutral

LEMMA RhsStep ==
  ASSUME Inv, Rhs
  PROVE  Inv'
<1>1. /\ "rhs" \in Ops \ {"expect", "program", "stmts", "endblock", "params", "args"}
      /\ "prim" \in Ops /\ "inner" \in Ops
  BY DEF Ops
<1>2. Doing("rhs") /\ UNCHANGED <<flags, fun, type, defs, errors, status>>
  BY DEF Rhs, names
<1>3. /\ fun \in [name : Tokens \cup {"END", ""}, arity : Nat]
      /\ type \in Tokens \cup {"END", ""}
      /\ defs \in [Identifiers -> Nat \cup {Undefined}]
  BY DEF Inv, TypeOK
<1> DEFINE p == Precedence(look)
           h == Head(todo)
<1>4. h \in Items /\ h.op = "rhs" /\ h.n \in Nat /\ Fits(h, Tail(todo)[1])
  BY <1>1, <1>2, Begun DEF Items
<1>5. p \in {-1, 10, 12, 13} /\ (p >= 0 => look \in {"MULT", "PLUS", "MINUS", "LT"})
  BY Precedences
<1> HIDE DEF p, h
<1>6. CASE p < h.n
  <2> DEFINE s == <<>>
  <2>1. Then(s) /\ UNCHANGED input
    BY <1>4, <1>5, <1>6 DEF Rhs, p, h
  <2>2. s \in Seq(Plain) /\ s \in Seq(Neutral)
    OBVIOUS
  <2> HIDE DEF s
  <2> QED
    BY <1>1, <1>2, <1>3, <2>1, <2>2, Kept, RewrittenNeutral
<1>7. CASE p >= h.n
  <2> DEFINE x == Item("prim")
             y == [Item("inner") EXCEPT !.n = p]
             r == <<x, y, h>>
  <2>1. Advance /\ Then(r)
    BY <1>4, <1>5, <1>7 DEF Rhs, p, h
  <2>2. p \in Nat /\ p \in {10, 12, 13}
    BY <1>4, <1>5, <1>7
  <2>3. /\ x \in Items /\ x.op = "prim" /\ x.tok = ""
        /\ y \in Items /\ y.op = "inner" /\ y.tok = "" /\ y.n = p
    <3>1. x \in Items /\ x.op = "prim" /\ x.tok = ""
      BY <1>1, ItemFields
    <3>2. y \in Items /\ y.op = "inner" /\ y.tok = "" /\ y.n = p
      <4>1. p \in Nat
        BY <2>2
      <4> QED
        BY <1>1, <4>1, Numbered
    <3> QED
      BY <3>1, <3>2
  <2>4. x \in Calm \cap Neutral /\ y \in Calm \cap Neutral /\ h \in Calm \cap Neutral
    BY <1>4, <2>3 DEF Calm, Neutral
  <2> HIDE DEF x, y
  <2>5. Expect("END").op = "expect" /\ Expect("CCBRACE").op = "expect"
    BY ExpectFields DEF AllTokens
  <2>6. Fits(x, y)
    BY <2>3, <2>5, Undemanding
  <2>7. Fits(y, h)
    BY <1>4, <1>7, <2>2, <2>3, <2>5 DEF Fits
  <2>8. /\ r \in Seq(Calm \cap Neutral) /\ r # <<>> /\ Linked(r)
        /\ Len(r) = 3 /\ r[1] = x /\ r[3] = h
    BY <2>4, <2>6, <2>7, LinkedTriple
  <2> HIDE DEF r
  <2>9. r \in Seq(Calm) /\ r \in Seq(Neutral)
    BY <2>8
  <2>10. r[1].op # "expect" /\ Fits(r[Len(r)], Tail(todo)[1])
    BY <1>4, <2>3, <2>8
  <2>11. /\ Surroundings' /\ past' = past
         /\ opened'.paren = opened.paren /\ opened'.brace = opened.brace
    <3>1. look \in {"MULT", "PLUS", "MINUS", "LT"}
      BY <1>5, <2>2
    <3> QED
      BY <1>2, <2>1, <3>1, InputConsumed
  <2> QED
    BY <1>1, <1>2, <2>1, <2>8, <2>9, <2>10, <2>11, ProceedsByNeutral
<1>8. p < h.n \/ p >= h.n
  BY <1>4, <1>5
<1> QED
  BY <1>6, <1>7, <1>8

LEMMA InnerStep ==
  ASSUME Inv, Inner
  PROVE  Inv'
<1>1. /\ "inner" \in Ops \ {"expect", "program", "stmts", "endblock", "params", "args"}
      /\ "rhs" \in Ops
  BY DEF Ops
<1>2. Doing("inner") /\ UNCHANGED <<input, flags, fun, type, defs, errors, status>>
  BY DEF Inner, names
<1>3. /\ fun \in [name : Tokens \cup {"END", ""}, arity : Nat]
      /\ type \in Tokens \cup {"END", ""}
      /\ defs \in [Identifiers -> Nat \cup {Undefined}]
  BY DEF Inv, TypeOK
<1> DEFINE p == Precedence(look)
           h == Head(todo)
           x == [Item("rhs") EXCEPT !.n = p]
           r == <<x, h>>
<1>4. h \in Items /\ h.op = "inner" /\ h.n \in Nat /\ Fits(h, Tail(todo)[1])
  BY <1>1, <1>2, Begun DEF Items
<1>5. p \in {-1, 10, 12, 13}
  BY Precedences
<1>6. Then(IF p > h.n THEN r ELSE <<>>)
  BY DEF Inner
<1> HIDE DEF p, h
<1>7. CASE ~(p > h.n)
  <2> DEFINE s == <<>>
  <2>1. Then(s)
    BY <1>6, <1>7
  <2>2. s \in Seq(Plain) /\ s \in Seq(Neutral)
    OBVIOUS
  <2> HIDE DEF s
  <2> QED
    BY <1>1, <1>2, <1>3, <2>1, <2>2, Kept, RewrittenNeutral
<1>8. CASE p > h.n
  <2>1. Then(r)
    BY <1>6, <1>8
  <2>2. p \in Nat /\ p \in {10, 12, 13}
    BY <1>4, <1>5, <1>8
  <2>3. x \in Items /\ x.op = "rhs" /\ x.tok = "" /\ x.n = p
    <3>1. p \in Nat
      BY <2>2
    <3> QED
      BY <1>1, <3>1, Numbered
  <2>4. x \in Calm \cap Neutral /\ h \in Calm \cap Neutral
    BY <1>4, <2>3 DEF Calm, Neutral
  <2> HIDE DEF x
  <2>5. Expect("END").op = "expect" /\ Expect("CCBRACE").op = "expect"
    BY ExpectFields DEF AllTokens
  <2>6. Fits(x, h)
    BY <1>4, <1>8, <2>2, <2>3, <2>5 DEF Fits
  <2>7. r \in Seq(Calm \cap Neutral) /\ r # <<>> /\ Linked(r) /\ Len(r) = 2 /\ r[1] = x /\ r[2] = h
    BY <2>4, <2>6, LinkedPair
  <2> HIDE DEF r
  <2>8. r \in Seq(Calm) /\ r \in Seq(Neutral)
    BY <2>7
  <2>9. r[1].op # "expect" /\ Fits(r[Len(r)], Tail(todo)[1])
    BY <1>4, <2>3, <2>7
  <2> QED
    BY <1>1, <1>2, <1>3, <2>1, <2>7, <2>8, <2>9, Kept, ProceedsByNeutral
<1> QED
  BY <1>7, <1>8

LEMMA PrimStep ==
  ASSUME Inv, Prim
  PROVE  Inv'
<1>1. "prim" \in Ops \ {"expect", "program", "stmts", "endblock", "params", "args"}
  BY DEF Ops
<1>2. Doing("prim")
  BY DEF Prim
<1>3. \/ Halt("exit")
      \/ /\ look \in {"CONST", "MINUS", "OBRACE"} \cup Identifiers
         /\ Advance /\ UNCHANGED <<flags, fun, type, defs, errors, status>>
         /\ \/ look = "CONST" /\ Then(<<>>)
            \/ look = "MINUS" /\ Then(<<Item("prim")>>)
            \/ look = "OBRACE" /\ Then(<<Item("expr"), Expect("CBRACE")>>)
            \/ look \in Identifiers /\ Then(<<[Item("name") EXCEPT !.tok = look]>>)
  BY DEF Prim, names, Identifiers
<1>4. CASE Halt("exit")
  BY <1>4, Halts
<1>5. ASSUME look \in {"CONST", "MINUS"} \cup Identifiers, Advance,
             UNCHANGED <<flags, fun, type, defs, errors, status>>,
             NEW s \in Seq(Plain), s \in Seq(Neutral), Then(s)
      PROVE  Inv'
  <2>1. /\ Surroundings' /\ past' = past
        /\ opened'.paren = opened.paren /\ opened'.brace = opened.brace
    BY <1>5, InputConsumed DEF Identifiers
  <2> QED
    BY <1>1, <1>2, <1>5, <2>1, RewrittenNeutral
<1>6. ASSUME look = "OBRACE", Advance,
             UNCHANGED <<flags, fun, type, defs, errors, status>>,
             Then(<<Item("expr"), Expect("CBRACE")>>)
      PROVE  Inv'
  <2> DEFINE s == <<Item("expr"), Expect("CBRACE")>>
  <2>1. /\ Item("expr") \in Plain /\ Item("expr") \in Neutral /\ Item("expr") \in Items
        /\ Expect("CBRACE") \in Plain /\ Expect("CBRACE") \in Items
    <3>1. Item("expr") \in Plain /\ Item("expr") \in Neutral /\ Item("expr") \in Items
      BY PlainItems, NeutralItems, ItemFields DEF Ops
    <3>2. Expect("CBRACE") \in Plain /\ Expect("CBRACE") \in Items
      BY PlainItems, ExpectFields DEF AllTokens
    <3> QED
      BY <3>1, <3>2
  <2>2. s \in Seq(Plain)
    BY <2>1
  <2>3. Parens(s) = 0 + 1 /\ Braces(s) = 0 + 0
    BY <2>1, PairCloses, SymbolsClose
  <2> HIDE DEF s
  <2>4. /\ Surroundings' /\ past' = past
        /\ opened'.paren = opened.paren + 1 /\ opened'.brace = opened.brace
    BY <1>6, InputConsumed, AdvanceTaken DEF Inv
  <2>5. /\ todo # <<>> /\ status = "running" /\ Head(todo) # Expect("END")
        /\ Head(todo).op \notin {"program", "stmts", "endblock"}
        /\ Parenthesis(Head(todo)) = 0 /\ Brace(Head(todo)) = 0
    BY <1>1, <1>2, Begun
  <2>6. /\ opened'.paren = opened.paren - Parenthesis(Head(todo)) + Parens(s)
        /\ opened'.brace = opened.brace - Brace(Head(todo)) + Braces(s)
    <3>1. opened.paren \in Int /\ opened.brace \in Int
      BY DEF Inv, TypeOK
    <3>2. opened.paren - 0 + 1 = opened.paren + 1 /\ opened.brace - 0 + 0 = opened.brace
      BY <3>1, Sums
    <3> QED
      BY <2>3, <2>4, <2>5, <3>2
  <2>7. todo' = s \o Tail(todo)
    BY <1>6 DEF Then, s
  <2> QED
    BY <1>6, <2>2, <2>4, <2>5, <2>6, <2>7, ProceedsPlainly
<1>7. <<>> \in Seq(Plain) /\ <<>> \in Seq(Neutral)
  OBVIOUS
<1>8. <<Item("prim")>> \in Seq(Plain) /\ <<Item("prim")>> \in Seq(Neutral)
  <2>1. Item("prim") \in Plain /\ Item("prim") \in Neutral
    BY PlainItems, NeutralItems DEF Ops
  <2> QED
    BY <2>1
<1>9. look \in Identifiers =>
        /\ <<[Item("name") EXCEPT !.tok = look]>> \in Seq(Plain)
        /\ <<[Item("name") EXCEPT !.tok = look]>> \in Seq(Neutral)
  <2> SUFFICES ASSUME look \in Identifiers
               PROVE  [Item("name") EXCEPT !.tok = look] \in Plain \cap Neutral
    OBVIOUS
  <2> QED
    BY DEF Item, Items, Ops, AllTokens, Identifiers, Plain, Neutral
<1> QED
  BY <1>3, <1>4, <1>5, <1>6, <1>7, <1>8, <1>9

LEMMA NameStep ==
  ASSUME Inv, Name
  PROVE  Inv'
<1>1. "name" \in Ops \ {"expect", "program", "stmts", "endblock", "params", "args"}
  BY DEF Ops
<1> DEFINE def == defs[Head(todo).tok]
           c == [Item("args") EXCEPT !.n = 1, !.want = def]
<1>2. Doing("name")
  BY DEF Name
<1>3. def \in Nat \cup {Undefined}
  <2>1. Head(todo).tok \in Identifiers
    BY <1>1, <1>2, Begun DEF Fits
  <2> QED
    BY <2>1 DEF Inv, TypeOK
<1>4. \/ Halt("abort")
      \/ /\ look = "OBRACE" /\ def # Undefined /\ Then(<<Expect("OBRACE"), Item("expr"), c>>)
         /\ UNCHANGED <<input, flags, fun, type, defs, errors, status>>
      \/ /\ look = "ASSIGN" /\ Advance /\ Then(<<Item("expr")>>)
         /\ UNCHANGED <<flags, fun, type, defs, errors, status>>
      \/ /\ Then(<<>>)
         /\ UNCHANGED <<input, flags, fun, type, defs, errors, status>>
  BY DEF Name, names
<1> HIDE DEF def
<1>5. /\ fun \in [name : Tokens \cup {"END", ""}, arity : Nat]
      /\ type \in Tokens \cup {"END", ""}
      /\ defs \in [Identifiers -> Nat \cup {Undefined}]
  BY DEF Inv, TypeOK
<1>6. Item("expr") \in Plain /\ Item("expr") \in Neutral
  BY PlainItems, NeutralItems DEF Ops
<1>7. CASE Halt("abort")
  BY <1>7, Halts
<1>8. CASE /\ look = "OBRACE" /\ def # Undefined /\ Then(<<Expect("OBRACE"), Item("expr"), c>>)
           /\ UNCHANGED <<input, flags, fun, type, defs, errors, status>>
  <2>1. c \in Items /\ c.op = "args" /\ c.tok = ""
    BY <1>3, <1>8 DEF Item, Items, Ops
  <2>2. c \in Plain
    BY <2>1 DEF Plain
  <2>3. Expect("OBRACE") \in Plain /\ Expect("OBRACE") \in Items
    BY PlainItems, ExpectFields DEF AllTokens
  <2> HIDE DEF c
  <2> DEFINE s == <<Expect("OBRACE"), Item("expr"), c>>
  <2>4. s \in Seq(Plain)
    BY <1>6, <2>2, <2>3
  <2>5. Parens(s) = 0 /\ Braces(s) = 0
    <3>1. Item("expr") \in Items
      BY <1>6 DEF Neutral
    <3>2. /\ Parens(s) = Parenthesis(Expect("OBRACE")) + (Parenthesis(Item("expr")) + Parenthesis(c))
          /\ Braces(s) = Brace(Expect("OBRACE")) + (Brace(Item("expr")) + Brace(c))
      BY <2>1, <2>3, <3>1, TripleCloses
    <3>3. /\ Parenthesis(Expect("OBRACE")) = -1 /\ Brace(Expect("OBRACE")) = 0
          /\ Parenthesis(Item("expr")) = 0 /\ Brace(Item("expr")) = 0
          /\ Parenthesis(c) = 1 /\ Brace(c) = 0
      BY <1>6, <2>1, SymbolsClose
    <3> HIDE DEF s
    <3> QED
      BY <3>2, <3>3
  <2>6. Parenthesis(Head(todo)) = 0 /\ Brace(Head(todo)) = 0
    BY <1>1, <1>2, Begun
  <2>7. Then(s)
    BY <1>8
  <2> HIDE DEF s
  <2>8. /\ Surroundings' /\ past' = past
        /\ opened'.paren = opened.paren /\ opened'.brace = opened.brace
    BY <1>5, <1>8, Kept
  <2>9. "name" \in Ops \ {"expect", "program", "stmts", "endblock"}
    BY <1>1
  <2> QED
    BY <1>2, <1>8, <2>4, <2>5, <2>6, <2>7, <2>8, <2>9, Rewritten
<1>9. CASE /\ look = "ASSIGN" /\ Advance /\ Then(<<Item("expr")>>)
           /\ UNCHANGED <<flags, fun, type, defs, errors, status>>
  <2>1. <<Item("expr")>> \in Seq(Plain) /\ <<Item("expr")>> \in Seq(Neutral)
    BY <1>6
  <2>2. /\ Surroundings' /\ past' = past
        /\ opened'.paren = opened.paren /\ opened'.brace = opened.brace
    BY <1>9, InputConsumed
  <2> QED
    BY <1>1, <1>2, <1>9, <2>1, <2>2, RewrittenNeutral
<1>10. CASE /\ Then(<<>>)
            /\ UNCHANGED <<input, flags, fun, type, defs, errors, status>>
  <2>1. <<>> \in Seq(Plain) /\ <<>> \in Seq(Neutral)
    OBVIOUS
  <2>2. /\ Surroundings' /\ past' = past
        /\ opened'.paren = opened.paren /\ opened'.brace = opened.brace
    BY <1>5, <1>10, Kept
  <2> QED
    BY <1>1, <1>2, <1>10, <2>1, <2>2, RewrittenNeutral
<1> QED
  BY <1>4, <1>7, <1>8, <1>9, <1>10

LEMMA ArgsStep ==
  ASSUME Inv, Args
  PROVE  Inv'
<1>1. "args" \in Ops \ {"expect", "program", "stmts", "endblock"}
  BY DEF Ops
<1> DEFINE h == Head(todo)
           more == [h EXCEPT !.n = @ + 1]
           check == [h EXCEPT !.op = "checkargs"]
<1>2. Doing("args") /\ UNCHANGED <<flags, fun, type, defs, errors, status>>
  BY DEF Args, names
<1>3. \/ look = "COMMA" /\ Advance /\ Then(<<Item("expr"), more>>)
      \/ Then(<<Expect("CBRACE"), check>>) /\ UNCHANGED input
  BY DEF Args
<1>4. /\ h \in Items /\ h.op = "args" /\ h.tok # "END" /\ h.n + 1 \in Nat
      /\ Parenthesis(h) = 1 /\ Brace(h) = 0
  <2>1. /\ Head(todo) \in Items /\ Fits(Head(todo), Tail(todo)[1])
        /\ Parenthesis(Head(todo)) = 1 /\ Brace(Head(todo)) = 0 /\ Head(todo).op = "args"
    BY <1>1, <1>2, Begun
  <2>2. Head(todo).n \in Nat
    BY <2>1 DEF Items
  <2>3. Head(todo).tok # "END"
    BY <2>1 DEF Fits
  <2> QED
    BY <2>1, <2>2, <2>3
<1>5. /\ fun \in [name : Tokens \cup {"END", ""}, arity : Nat]
      /\ type \in Tokens \cup {"END", ""}
      /\ defs \in [Identifiers -> Nat \cup {Undefined}]
  BY DEF Inv, TypeOK
<1> HIDE DEF h
<1>6. more \in Items /\ more.op = "args" /\ more.tok = h.tok
  <2> DEFINE k == h.n + 1
  <2>1. k \in Nat /\ more = [h EXCEPT !.n = k]
    BY <1>4
  <2> HIDE DEF k, more
  <2> QED
    BY <1>4, <2>1 DEF Items
<1>7. check \in Items /\ check.op = "checkargs" /\ check.tok = h.tok
  BY <1>4 DEF Items, Ops
<1> HIDE DEF more, check
<1>8. /\ more \in Plain /\ check \in Plain
      /\ Parenthesis(more) = 1 /\ Brace(more) = 0
      /\ Parenthesis(check) = 0 /\ Brace(check) = 0
  <2>1. more \in Plain /\ check \in Plain /\ check \in Neutral
    BY <1>4, <1>6, <1>7 DEF Plain, Neutral
  <2> QED
    BY <1>6, <1>7, <2>1, SymbolsClose
<1>9. /\ Item("expr") \in Plain /\ Expect("CBRACE") \in Plain
      /\ Item("expr") \in Items /\ Expect("CBRACE") \in Items
      /\ Parenthesis(Item("expr")) = 0 /\ Brace(Item("expr")) = 0
      /\ Parenthesis(Expect("CBRACE")) = 1 /\ Brace(Expect("CBRACE")) = 0
  <2>1. Item("expr") \in Plain /\ Expect("CBRACE") \in Plain /\ Item("expr") \in Neutral
    BY PlainItems, NeutralItems DEF Ops, AllTokens
  <2> QED
    BY <2>1, SymbolsClose DEF Plain
<1>10. CASE look = "COMMA" /\ Advance /\ Then(<<Item("expr"), more>>)
  <2> DEFINE s == <<Item("expr"), more>>
  <2>1. s \in Seq(Plain) /\ Then(s)
    BY <1>8, <1>9, <1>10
  <2>2. Parens(s) = Parenthesis(h) /\ Braces(s) = Brace(h)
    <3>1. Parens(s) = 0 + 1 /\ Braces(s) = 0 + 0
      BY <1>6, <1>8, <1>9, PairCloses
    <3> QED
      BY <1>4, <3>1
  <2> HIDE DEF s
  <2>3. /\ Surroundings' /\ past' = past
        /\ opened'.paren = opened.paren /\ opened'.brace = opened.brace
    BY <1>2, <1>10, InputConsumed
  <2> QED
    BY <1>1, <1>2, <2>1, <2>2, <2>3, Rewritten DEF h
<1>11. CASE Then(<<Expect("CBRACE"), check>>) /\ UNCHANGED input
  <2> DEFINE s == <<Expect("CBRACE"), check>>
  <2>1. s \in Seq(Plain) /\ Then(s)
    BY <1>8, <1>9, <1>11
  <2>2. Parens(s) = Parenthesis(h) /\ Braces(s) = Brace(h)
    <3>1. Parens(s) = 1 + 0 /\ Braces(s) = 0 + 0
      BY <1>7, <1>8, <1>9, PairCloses
    <3> QED
      BY <1>4, <3>1
  <2> HIDE DEF s
  <2>3. /\ Surroundings' /\ past' = past
        /\ opened'.paren = opened.paren /\ opened'.brace = opened.brace
    BY <1>2, <1>5, <1>11, Kept
  <2> QED
    BY <1>1, <1>2, <2>1, <2>2, <2>3, Rewritten DEF h
<1> QED
  BY <1>3, <1>10, <1>11
-----------------------------------------------------------------------------
(* The program and its blocks.                                             *)
LEMMA ProgramStepKeeps ==
  ASSUME Inv, ProgramStep
  PROVE  Inv'
<1> DEFINE y == Item("program")
           r == <<y>>
<1>1. /\ todo # <<>> /\ status = "running" /\ Head(todo).op = "program"
      /\ UNCHANGED <<input, flags, fun, type, defs, errors, status>>
  BY DEF ProgramStep, Doing, names
<1>2. y \in Items /\ y.op = "program" /\ y.tok = ""
  BY ItemFields DEF Ops
<1>3. Expect("END").op = "expect" /\ Expect("CCBRACE").op = "expect"
  BY ExpectFields DEF AllTokens
<1>4. /\ todo \in Seq(Items) /\ Head(todo) # Expect("END") /\ Head(todo) \in Items
      /\ Tail(todo) \in Seq(Items) /\ Tail(todo)[1] = Expect("END")
  <2>1. Head(todo) # Expect("END")
    BY <1>1, <1>3
  <2>2. /\ todo \in Seq(Items) /\ Tail(todo) \in Seq(Items) /\ Head(todo) \in Items
        /\ Fits(Head(todo), Tail(todo)[1])
    BY <1>1, <2>1, Within
  <2> QED
    BY <1>1, <2>1, <2>2 DEF Fits
<1>5. /\ Surroundings' /\ past' = past
      /\ opened'.paren = opened.paren /\ opened'.brace = opened.brace
  <2>1. /\ fun \in [name : Tokens \cup {"END", ""}, arity : Nat]
        /\ type \in Tokens \cup {"END", ""}
        /\ defs \in [Identifiers -> Nat \cup {Undefined}]
    BY DEF Inv, TypeOK
  <2> QED
    BY <1>1, <2>1, Kept
<1>6. Parenthesis(Head(todo)) = 0 /\ Brace(Head(todo)) = 0
  <2>1. Head(todo) \in Neutral
    BY <1>1, <1>4 DEF Neutral
  <2> QED
    BY <2>1, SymbolsClose
<1>7. opened.paren - 0 + 0 = opened.paren /\ opened.brace - 0 + 0 = opened.brace
  <2>1. opened.paren \in Int /\ opened.brace \in Int
    BY DEF Inv, TypeOK
  <2> QED
    BY <2>1, Sums
<1> HIDE DEF y
<1>8. ASSUME look # "END", NEW s \in Seq(Plain), Parens(s) = 0, Braces(s) = 0,
             todo' = (s \o r) \o Tail(todo)
      PROVE  Inv'
  <2>1. y \in Calm /\ y \in Neutral
    BY <1>2 DEF Calm, Neutral
  <2>2. r \in Seq(Calm) /\ r \in Seq(Neutral) /\ r # <<>> /\ Len(r) = 1 /\ r[1] = y
    BY <2>1
  <2> HIDE DEF r
  <2>3. Linked(r)
    BY <2>2 DEF Linked
  <2>4. Fits(y, Tail(todo)[1])
    BY <1>2, <1>3, <1>4 DEF Fits
  <2>5. r[1] # Expect("END") /\ Fits(r[Len(r)], Tail(todo)[1])
    BY <1>2, <1>3, <2>2, <2>4
  <2>6. Parens(s \o r) = 0 + 0 /\ Braces(s \o r) = 0 + 0
    <3>1. s \in Seq(Items)
      BY PlainLinked
    <3>2. r \in Seq(Items) /\ Parens(r) = 0 /\ Braces(r) = 0
      BY <2>2, NeutralClosed
    <3> QED
      BY <1>8, <3>1, <3>2, ClosedJoin
  <2>7. /\ opened'.paren = opened.paren - Parenthesis(Head(todo)) + Parens(s \o r)
        /\ opened'.brace = opened.brace - Brace(Head(todo)) + Braces(s \o r)
    BY <1>5, <1>6, <1>7, <2>6
  <2> QED
    BY <1>1, <1>4, <1>5, <1>8, <2>2, <2>3, <2>5, <2>7, Proceeds
<1>9. ASSUME look = "END", todo' = <<>> \o Tail(todo)
      PROVE  Inv'
  <2> DEFINE s == <<>>
  <2>1. s \in Seq(Items) /\ Parens(s) = 0 /\ Braces(s) = 0 /\ Len(s) = 0 /\ todo' = s \o Tail(todo)
    BY <1>9, NothingToClose
  <2> HIDE DEF s
  <2>2. todo' = Tail(todo)
    BY <1>4, <1>9
  <2>3. /\ todo' \in Seq(Items) /\ Linked(todo') /\ todo' # <<>>
        /\ todo'[Len(todo')] = Expect("END")
    BY <1>1, <1>4, <2>2, Within
  <2>4. TypeOK'
    BY <1>1, <1>5, <2>3, TypedNext DEF Inv, TypeOK
  <2>5. Ending'
    BY <1>1, <1>5, <1>9, <2>3 DEF Inv, Ending, input
  <2>6. Balance'
    <3>1. /\ Parens(todo') = Parens(todo) - 0 + 0
          /\ Braces(todo') = Braces(todo) - 0 + 0
      BY <1>1, <1>6, <2>1, Reckoned
    <3>2. Parens(todo) \in Int /\ Braces(todo) \in Int
      BY <1>4, LeftToClose
    <3>3. Parens(todo') = Parens(todo) /\ Braces(todo') = Braces(todo)
      BY <3>1, <3>2, Sums
    <3> QED
      BY <1>1, <1>5, <3>3 DEF Inv, Balance
  <2>7. FlagsAreLocal'
    <3>1. \A k \in 1..Len(s) : s[k].op \notin {"stmts", "endblock"}
      BY <2>1
    <3> QED
      BY <1>1, <2>1, <3>1, FlagsStay
  <2> QED
    BY <2>3, <2>4, <2>5, <2>6, <2>7 DEF Inv
<1>10. \/ look = "END" /\ todo' = <<>> \o Tail(todo)
       \/ look # "END" /\ todo' = (FunctionDef \o r) \o Tail(todo)
       \/ look # "END" /\ todo' = (ExternDef \o r) \o Tail(todo)
       \/ look # "END" /\ todo' = (VarDecl \o r) \o Tail(todo)
       \/ look # "END" /\ todo' = (ExprStmt \o r) \o Tail(todo)
  BY DEF ProgramStep, Then, y
<1> HIDE DEF r
<1> QED
  BY <1>8, <1>9, <1>10, RoutinesArePlain, RoutinesClose

(* A call that promises nothing is replaced, and the flags are another     *)
(* matter.                                                                 *)
LEMMA ContinuedNeutral ==
  ASSUME Inv, NEW op \in Ops \ {"expect", "program", "params", "args"}, Doing(op),
         NEW s \in Seq(Plain), NEW r \in Seq(Items), Linked(r),
         r # <<>> => r[1] # Expect("END") /\ Fits(r[Len(r)], Tail(todo)[1]),
         todo' = (s \o r) \o Tail(todo), UNCHANGED <<input, fun, type, defs, errors, status>>,
         flags' \in {"clear", "set"},
         Parens(s) = 0, Braces(s) = 0, Parens(r) = 0, Braces(r) = 0
  PROVE  TypeOK' /\ Linked(todo') /\ Ending' /\ Balance'
<1>1. /\ todo # <<>> /\ status = "running" /\ Head(todo) # Expect("END")
      /\ Head(todo).op # "program"
      /\ Parenthesis(Head(todo)) = 0 /\ Brace(Head(todo)) = 0
  BY Begun
<1>2. Parens(s \o r) = 0 + 0 /\ Braces(s \o r) = 0 + 0
  BY PlainLinked, ClosedJoin
<1>3. Surroundings' /\ past' = past /\ opened' = opened
  BY DEF input, Inv, TypeOK, Surroundings
<1>4. opened.paren - 0 + 0 = opened.paren /\ opened.brace - 0 + 0 = opened.brace
  <2>1. opened.paren \in Int /\ opened.brace \in Int
    BY DEF Inv, TypeOK
  <2> QED
    BY <2>1, Sums
<1>5. /\ opened'.paren = opened.paren - Parenthesis(Head(todo)) + Parens(s \o r)
      /\ opened'.brace = opened.brace - Brace(Head(todo)) + Braces(s \o r)
  BY <1>1, <1>2, <1>3, <1>4
<1> QED
  BY <1>1, <1>3, <1>5, Continued

LEMMA BlockStep ==
  ASSUME Inv, Block
  PROVE  Inv'
<1> DEFINE a == Expect("OCBRACE")
           b == Item("stmts")
           c == Expect("CCBRACE")
           d == Item("endblock")
           r == <<a, b, c, d>>
           s == <<>>
<1>1. "block" \in Ops \ {"expect", "program", "params", "args"}
  BY DEF Ops
<1>2. /\ Doing("block") /\ UNCHANGED <<input, fun, type, defs, errors, status>>
      /\ flags' = "clear" /\ Then(r)
  BY DEF Block, BlockBody, names
<1>3. /\ a \in Items /\ a.op = "expect" /\ a.tok = "OCBRACE"
      /\ c \in Items /\ c.op = "expect" /\ c.tok = "CCBRACE"
      /\ Expect("END").op = "expect" /\ Expect("END").tok = "END"
  BY ExpectFields DEF AllTokens
<1>4. /\ b \in Items /\ b.op = "stmts" /\ b.tok = ""
      /\ d \in Items /\ d.op = "endblock" /\ d.tok = ""
  BY ItemFields DEF Ops
<1>5. Fits(a, b) /\ Fits(b, c) /\ Fits(c, d)
  BY <1>3, <1>4 DEF Fits
<1>6. Fits(d, Tail(todo)[1])
  <2>1. Fits(Head(todo), Tail(todo)[1]) /\ Head(todo).op = "block"
    BY <1>1, <1>2, Begun
  <2> QED
    BY <1>3, <1>4, <2>1 DEF Fits
<1>7. Parens(r) = 0 /\ Braces(r) = 0
  BY RoutinesClose DEF BlockBody
<1> HIDE DEF a, b, c, d
<1>8. r \in Seq(Items) /\ r # <<>> /\ Linked(r) /\ Len(r) = 4 /\ r[1] = a /\ r[4] = d
  BY <1>3, <1>4, <1>5, LinkedQuad
<1> HIDE DEF r
<1>9. s \in Seq(Plain) /\ s \o r = r /\ Parens(s) = 0 /\ Braces(s) = 0
  BY <1>8, NothingToClose
<1>10. todo' = (s \o r) \o Tail(todo)
  BY <1>2, <1>9 DEF Then
<1>11. r[1] # Expect("END") /\ Fits(r[Len(r)], Tail(todo)[1])
  BY <1>3, <1>6, <1>8
<1> HIDE DEF s
<1>12. TypeOK' /\ Linked(todo') /\ Ending' /\ Balance'
  BY <1>1, <1>2, <1>7, <1>8, <1>9, <1>10, <1>11, ContinuedNeutral
<1>13. FlagsAreLocal'
  BY <1>2 DEF FlagsAreLocal
<1> QED
  BY <1>12, <1>13 DEF Inv

LEMMA LeavingSteps ==
  ASSUME Inv, Returned \/ EndBlock
  PROVE  Inv'
<1> DEFINE s == <<>>
           r == <<>>
<1>1. {"returned", "endblock"} \subseteq Ops \ {"expect", "program", "params", "args"}
  BY DEF Ops
<1>2. /\ \/ Doing("returned") /\ flags' = "set"
         \/ Doing("endblock") /\ flags' = "clear"
      /\ Then(<<>>) /\ UNCHANGED <<input, fun, type, defs, errors, status>>
  <2>1. CASE Returned
    BY <2>1 DEF Returned, names
  <2>2. CASE EndBlock
    BY <2>2 DEF EndBlock, names
  <2> QED
    BY <2>1, <2>2
<1>3. PICK op \in {"returned", "endblock"} : Doing(op) /\ (op = "endblock" => flags' = "clear")
                                             /\ flags' \in {"clear", "set"}
  BY <1>2
<1>4. /\ todo # <<>> /\ Head(todo).op = op
      /\ Head(todo) # Expect("END") /\ Fits(Head(todo), Tail(todo)[1])
  BY <1>1, <1>3, Begun
<1>5. Tail(todo) \in Seq(Items) /\ Tail(todo) # <<>>
  BY <1>4, Within
<1>6. s \in Seq(Plain) /\ r \in Seq(Items) /\ Linked(r) /\ r = <<>> /\ (s \o r) = <<>>
  BY DEF Linked
<1>7. Parens(s) = 0 /\ Braces(s) = 0 /\ Parens(r) = 0 /\ Braces(r) = 0
  BY NothingToClose
<1>8. todo' = (s \o r) \o Tail(todo) /\ todo' = Tail(todo)
  BY <1>2, <1>5, <1>6 DEF Then
<1> HIDE DEF s, r
<1>9. TypeOK' /\ Linked(todo') /\ Ending' /\ Balance'
  BY <1>1, <1>2, <1>3, <1>6, <1>7, <1>8, ContinuedNeutral
<1>10. FlagsAreLocal'
  <2>1. CASE op = "endblock"
    BY <1>3, <2>1 DEF FlagsAreLocal
  <2>2. CASE op = "returned"
    <3>1. todo'[1].op = "stmts" /\ todo'[1].n > 0
      BY <1>4, <1>8, <2>2 DEF Fits
    <3>2. 1 \in DOMAIN todo' /\ 1..(1 - 1) = {}
      <4> DEFINE t == Tail(todo)
      <4>1. t \in Seq(Items) /\ t # <<>> /\ todo' = t
        BY <1>5, <1>8
      <4> HIDE DEF t
      <4>2. Len(t) \in Nat /\ Len(t) # 0 /\ DOMAIN t = 1..Len(t)
        BY <4>1, EmptyLength
      <4> QED
        BY <4>1, <4>2
    <3> QED
      BY <3>1, <3>2 DEF FlagsAreLocal
  <2> QED
    BY <2>1, <2>2
<1> QED
  BY <1>9, <1>10 DEF Inv

(* The statements of a block go on behind whatever is put before them.     *)
LEMMA StmtsFlags ==
  ASSUME Inv, Doing("stmts"), flags' = flags,
         NEW u \in Seq(Items), todo' = u \o Tail(todo), u # <<>>,
         u[Len(u)].op = "stmts", Head(todo).n > 0 => u[Len(u)].n > 0,
         \A k \in 1..(Len(u) - 1) : u[k].op \notin {"stmts", "endblock"}
  PROVE  FlagsAreLocal'
<1> SUFFICES ASSUME flags = "set"
             PROVE  \E i \in DOMAIN todo' :
                      /\ \/ todo'[i].op = "endblock"
                         \/ todo'[i].op = "stmts" /\ todo'[i].n > 0
                      /\ \A j \in 1..(i - 1) : todo'[j].op \notin {"stmts", "endblock"}
  BY DEF FlagsAreLocal
<1>1. /\ todo # <<>> /\ todo \in Seq(Items) /\ Tail(todo) \in Seq(Items)
      /\ Head(todo).op = "stmts" /\ Head(todo) = todo[1]
  <2>1. todo # <<>> /\ todo \in Seq(Items) /\ Head(todo).op = "stmts"
    BY DEF Doing, Inv, TypeOK, Items
  <2> QED
    BY <2>1, Tails
<1>2. Head(todo).n > 0
  <2>1. PICK i \in DOMAIN todo :
           /\ \/ todo[i].op = "endblock"
              \/ todo[i].op = "stmts" /\ todo[i].n > 0
           /\ \A j \in 1..(i - 1) : todo[j].op \notin {"stmts", "endblock"}
    BY DEF Inv, FlagsAreLocal
  <2>2. i \in 1..Len(todo)
    BY <1>1, <2>1
  <2>3. i = 1
    BY <1>1, <2>1, <2>2
  <2> QED
    BY <1>1, <2>1, <2>3
<1>3. Len(u) \in Nat /\ Len(u) # 0 /\ Len(Tail(todo)) \in Nat
  BY <1>1, EmptyLength
<1>4. /\ todo' \in Seq(Items) /\ Len(todo') = Len(u) + Len(Tail(todo))
      /\ \A k \in 1..Len(u) : todo'[k] = u[k]
  BY <1>1, Concatenated
<1>5. Len(u) \in DOMAIN todo' /\ \A k \in 1..(Len(u) - 1) : k \in 1..Len(u)
  <2>1. DOMAIN todo' = 1..Len(todo')
    BY <1>4
  <2> QED
    BY <1>3, <1>4, <2>1
<1>6. todo'[Len(u)] = u[Len(u)] /\ \A k \in 1..(Len(u) - 1) : todo'[k] = u[k]
  BY <1>3, <1>4, <1>5
<1> QED
  BY <1>2, <1>5, <1>6

LEMMA StmtsStep ==
  ASSUME Inv, Stmts
  PROVE  Inv'
<1> DEFINE h == Head(todo)
           one == [h EXCEPT !.n = IF h.n = 0 THEN 0 ELSE 2]
           two == [h EXCEPT !.n = IF h.n = 0 THEN 1 ELSE 2]
           a == Expect("RETURN")
           b == Item("retval")
           c == Item("returned")
           q == <<a, b, c, two>>
           r == <<one>>
           empty == <<>>
<1>1. "stmts" \in Ops \ {"expect", "program", "params", "args"}
  BY DEF Ops
<1>2. Doing("stmts") /\ UNCHANGED <<input, flags, fun, type, defs, errors, status>>
  BY DEF Stmts, names
<1>3. /\ todo # <<>> /\ h.op = "stmts" /\ h \in Items /\ Tail(todo) # <<>>
      /\ h # Expect("END") /\ Fits(h, Tail(todo)[1])
  BY <1>1, <1>2, Begun
<1>4. \/ look \in {"CCBRACE", "END"} /\ todo' = empty \o Tail(todo)
      \/ \E s \in {VarDecl, IfStmt, ForStmt, ExprStmt} : todo' = (s \o r) \o Tail(todo)
      \/ todo' = q \o Tail(todo)
  BY DEF Stmts, Then
<1> HIDE DEF h
<1>5. h.n \in Nat /\ h.tok # "END" /\ Tail(todo)[1] = Expect("CCBRACE")
  BY <1>3 DEF Items, Fits
<1>6. /\ one \in Items /\ one.op = "stmts" /\ one.tok = h.tok /\ (h.n > 0 => one.n > 0)
      /\ two \in Items /\ two.op = "stmts" /\ two.tok = h.tok /\ two.n > 0
  <2>1. \A k \in Nat : LET x == [h EXCEPT !.n = k] IN
           x \in Items /\ x.op = "stmts" /\ x.tok = h.tok /\ x.n = k
    BY <1>3 DEF Items
  <2> DEFINE k == IF h.n = 0 THEN 0 ELSE 2
             l == IF h.n = 0 THEN 1 ELSE 2
  <2>2. k \in Nat /\ l \in Nat /\ l > 0 /\ (h.n > 0 => k > 0)
    BY <1>5
  <2>3. one = [h EXCEPT !.n = k] /\ two = [h EXCEPT !.n = l]
    OBVIOUS
  <2> HIDE DEF k, l, one, two
  <2> QED
    BY <2>1, <2>2, <2>3
<1> HIDE DEF one, two
<1>7. /\ Expect("END").op = "expect" /\ Expect("CCBRACE").op = "expect"
      /\ Expect("CCBRACE") # Expect("END")
  BY ExpectFields DEF AllTokens
<1>8. Fits(one, Tail(todo)[1]) /\ Fits(two, Tail(todo)[1])
  BY <1>5, <1>6, <1>7 DEF Fits
<1>9. one \in Neutral /\ two \in Neutral
  BY <1>6 DEF Neutral
<1>10. flags' \in {"clear", "set"}
  BY <1>2 DEF Inv, TypeOK
<1>11. /\ empty \in Seq(Plain) /\ empty \in Seq(Items) /\ Linked(empty)
       /\ Parens(empty) = 0 /\ Braces(empty) = 0
  BY NothingToClose DEF Linked
<1>12. CASE look \in {"CCBRACE", "END"} /\ todo' = empty \o Tail(todo)
  <2>1. todo' = (empty \o empty) \o Tail(todo) /\ empty = <<>>
    BY <1>12
  <2> HIDE DEF empty
  <2>2. TypeOK' /\ Linked(todo') /\ Ending' /\ Balance'
    BY <1>1, <1>2, <1>10, <1>11, <2>1, ContinuedNeutral
  <2>3. FlagsAreLocal'
    <3> DEFINE t == Tail(todo)
    <3>1. t \in Seq(Items) /\ Linked(t) /\ Len(t) >= 2 /\ t[1] = Expect("CCBRACE")
      BY <1>3, <1>5, <1>7, Within DEF h
    <3>2. todo' = t
      BY <2>1, <3>1
    <3> HIDE DEF t
    <3>3. 1 \in 1..(Len(t) - 1) /\ 2 \in DOMAIN t /\ 1..(2 - 1) = {1}
      BY <3>1
    <3>4. t[2].op = "endblock"
      <4>1. Fits(t[1], t[2])
        BY <3>1, <3>3 DEF Linked
      <4> QED
        BY <3>1, <4>1 DEF Fits
    <3>5. t[1].op \notin {"stmts", "endblock"}
      BY <1>7, <3>1
    <3> QED
      BY <3>2, <3>3, <3>4, <3>5 DEF FlagsAreLocal
  <2> QED
    BY <2>2, <2>3 DEF Inv
<1>13. CASE \E s \in {VarDecl, IfStmt, ForStmt, ExprStmt} : todo' = (s \o r) \o Tail(todo)
  <2>1. PICK s \in {VarDecl, IfStmt, ForStmt, ExprStmt} : todo' = (s \o r) \o Tail(todo)
    BY <1>13
  <2>2. s \in Seq(Plain) /\ Parens(s) = 0 /\ Braces(s) = 0
    BY RoutinesArePlain, RoutinesClose
  <2>3. r \in Seq(Neutral) /\ r \in Seq(Items) /\ r # <<>> /\ Len(r) = 1 /\ r[1] = one
    BY <1>6, <1>9
  <2> HIDE DEF r
  <2>4. Linked(r) /\ Parens(r) = 0 /\ Braces(r) = 0
    BY <2>3, NeutralClosed DEF Linked
  <2>5. r[1] # Expect("END") /\ Fits(r[Len(r)], Tail(todo)[1])
    BY <1>6, <1>7, <1>8, <2>3
  <2>6. TypeOK' /\ Linked(todo') /\ Ending' /\ Balance'
    BY <1>1, <1>2, <1>10, <2>1, <2>2, <2>3, <2>4, <2>5, ContinuedNeutral
  <2>7. FlagsAreLocal'
    <3> DEFINE u == s \o r
    <3>1. s \in Seq(Items) /\ Len(s) \in Nat
      BY <2>2, PlainLinked
    <3>2. /\ u \in Seq(Items) /\ Len(u) = Len(s) + 1 /\ u[Len(s) + 1] = one
          /\ \A k \in 1..Len(s) : u[k] = s[k]
      BY <2>3, <3>1, Concatenated
    <3>3. todo' = u \o Tail(todo)
      BY <2>1
    <3> HIDE DEF u
    <3>4. u # <<>>
      BY <3>1, <3>2, EmptyLength
    <3>5. \A k \in 1..Len(s) : s[k].op \notin {"stmts", "endblock"}
      <4>1. \A x \in Plain : x.op \notin {"stmts", "endblock"}
        BY DEF Plain
      <4> QED
        BY <2>2, <4>1
    <3>6. \A k \in 1..(Len(u) - 1) : u[k].op \notin {"stmts", "endblock"}
      BY <3>1, <3>2, <3>5
    <3> QED
      BY <1>2, <1>6, <3>2, <3>3, <3>4, <3>6, StmtsFlags DEF h
  <2> QED
    BY <2>6, <2>7 DEF Inv
<1>14. CASE todo' = q \o Tail(todo)
  <2>1. /\ a \in Neutral /\ a \in Items /\ a.op = "expect" /\ a.tok = "RETURN"
        /\ b \in Neutral /\ b \in Items /\ b.op = "retval" /\ b.tok = ""
        /\ c \in Neutral /\ c \in Items /\ c.op = "returned" /\ c.tok = ""
    <3>1. a \in Neutral /\ b \in Neutral /\ c \in Neutral
      BY NeutralItems DEF AllTokens, Ops
    <3>2. a \in Items /\ a.op = "expect" /\ a.tok = "RETURN"
      BY ExpectFields DEF AllTokens
    <3>3. b \in Items /\ b.op = "retval" /\ b.tok = ""
      BY ItemFields DEF Ops
    <3>4. c \in Items /\ c.op = "returned" /\ c.tok = ""
      BY ItemFields DEF Ops
    <3> QED
      BY <3>1, <3>2, <3>3, <3>4
  <2>10. Expect("CCBRACE").tok = "CCBRACE" /\ Expect("END").tok = "END"
    BY ExpectFields DEF AllTokens
  <2>2. Fits(a, b) /\ Fits(b, c) /\ Fits(c, two)
    <3>1. a # Expect("CCBRACE") /\ a # Expect("END") /\ b # Expect("END")
      BY <1>7, <2>1, <2>10
    <3> QED
      BY <1>6, <1>7, <2>1, <3>1 DEF Fits
  <2> HIDE DEF a, b, c
  <2>3. /\ q \in Seq(Items \cap Neutral) /\ q # <<>> /\ Linked(q) /\ Len(q) = 4
        /\ q[1] = a /\ q[2] = b /\ q[3] = c /\ q[4] = two
    BY <1>6, <1>9, <2>1, <2>2, LinkedQuad
  <2> HIDE DEF q
  <2>4. q \in Seq(Items) /\ q \in Seq(Neutral)
    BY <2>3
  <2>5. Parens(q) = 0 /\ Braces(q) = 0
    BY <2>4, NeutralClosed
  <2>6. q[1] # Expect("END") /\ Fits(q[Len(q)], Tail(todo)[1])
    <3>1. a # Expect("END")
      BY <2>1, <2>10
    <3> QED
      BY <1>8, <2>3, <3>1
  <2>7. todo' = (empty \o q) \o Tail(todo)
    BY <1>14, <2>4
  <2>8. TypeOK' /\ Linked(todo') /\ Ending' /\ Balance'
    <3> HIDE DEF empty
    <3> QED
      BY <1>1, <1>2, <1>10, <1>11, <2>3, <2>4, <2>5, <2>6, <2>7, ContinuedNeutral
  <2>9. FlagsAreLocal'
    <3>1. \A k \in 1..(4 - 1) : k = 1 \/ k = 2 \/ k = 3
      OBVIOUS
    <3>2. \A k \in 1..(Len(q) - 1) : q[k].op \notin {"stmts", "endblock"}
      BY <2>1, <2>3, <3>1
    <3> QED
      BY <1>2, <1>6, <1>14, <2>3, <2>4, <3>2, StmtsFlags
  <2> QED
    BY <2>8, <2>9 DEF Inv
<1> QED
  BY <1>4, <1>12, <1>13, <1>14
-----------------------------------------------------------------------------
LEMMA ParsedStep ==
  ASSUME Inv, Parsed
  PROVE  Inv'
<1>1. /\ UNCHANGED <<look, left, past, opened, todo, flags, fun, type, defs, errors>>
      /\ todo = <<>> /\ status' = "parsed"
  BY DEF Parsed, input, names
<1>2. TypeOK'
  BY <1>1 DEF Inv, TypeOK
<1>3. Linked(todo') /\ Ending'
  BY <1>1 DEF Inv, Linked, Ending
<1>4. Balance' /\ FlagsAreLocal'
  BY <1>1 DEF Inv, Balance, FlagsAreLocal
<1> QED
  BY <1>2, <1>3, <1>4 DEF Inv

(* The invariant holds at first, and every step preserves it.              *)
LEMMA InitInv ==
  Init => Inv
<1> SUFFICES ASSUME Init PROVE Inv
  OBVIOUS
<1> DEFINE x == Item("program")
           y == Expect("END")
<1>1. x \in Items /\ x.op = "program" /\ x.tok = ""
  BY ItemFields DEF Ops
<1>2. /\ y \in Items /\ y.op = "expect" /\ y.tok = "END"
      /\ Expect("CCBRACE").op = "expect"
  BY ExpectFields DEF AllTokens
<1>3. todo = <<x, y>>
  BY DEF Init
<1>4. Fits(x, y)
  BY <1>1, <1>2 DEF Fits
<1>5. x \in Neutral /\ y \in Neutral
  BY <1>1, <1>2 DEF Neutral
<1> HIDE DEF x
<1>6. /\ todo \in Seq(Items \cap Neutral) /\ todo # <<>> /\ Linked(todo)
      /\ Len(todo) = 2 /\ todo[2] = Expect("END")
  BY <1>1, <1>2, <1>3, <1>4, <1>5, LinkedPair
<1>7. todo \in Seq(Items) /\ todo \in Seq(Neutral)
  BY <1>6
<1>8. Surroundings
  <2>1. MaxTokens \in Nat \ {0}
    BY TokensAssumption
  <2>2. left \in 0..MaxTokens
    <3>1. left = MaxTokens \/ left = MaxTokens - 1
      BY DEF Init
    <3> QED
      BY <2>1, <3>1
  <2>3. defs \in [Identifiers -> Nat \cup {Undefined}]
    BY DEF Init
  <2>4. fun \in [name : Tokens \cup {"END", ""}, arity : Nat]
    BY DEF Init
  <2>5. opened \in [paren : Int, brace : Int]
    <3>1. opened = [paren |-> 0, brace |-> 0]
      BY DEF Init
    <3>2. 0 \in Int
      OBVIOUS
    <3> QED
      BY <3>1, <3>2
  <2>6. /\ look \in Tokens \cup {"END"} /\ flags \in {"clear", "set"}
        /\ type \in Tokens \cup {"END", ""} /\ errors \in {"none", "some"}
    BY DEF Init
  <2> QED
    BY <2>2, <2>3, <2>4, <2>5, <2>6 DEF Surroundings
<1>9. TypeOK
  BY <1>7, <1>8, Typed DEF Init
<1>10. Ending
  <2>1. past = 0 /\ status = "running"
    BY DEF Init
  <2> QED
    BY <1>6, <2>1 DEF Ending
<1>11. Balance
  <2>1. Parens(todo) = 0 /\ Braces(todo) = 0
    BY <1>7, NeutralClosed
  <2> QED
    BY <2>1 DEF Init, Balance
<1>12. FlagsAreLocal
  BY DEF Init, FlagsAreLocal
<1> QED
  BY <1>6, <1>9, <1>10, <1>11, <1>12 DEF Inv

LEMMA NextInv ==
  Inv /\ [Next]_vars => Inv'
<1> SUFFICES ASSUME Inv, [Next]_vars PROVE Inv'
  OBVIOUS
<1>1. CASE ExpectStep
  BY <1>1, LastExpected, OtherExpected
<1>2. CASE ProgramStep
  BY <1>2, ProgramStepKeeps
<1>3. CASE Block
  BY <1>3, BlockStep
<1>4. CASE Stmts
  BY <1>4, StmtsStep
<1>5. CASE RetVal \/ Else \/ FunName \/ Param \/ TypeName \/ Define
  BY <1>5, PlainSteps
<1>6. CASE Returned \/ EndBlock
  BY <1>6, LeavingSteps
<1>7. CASE Params \/ MoreParams
  BY <1>7, ParamSteps
<1>8. CASE TypeCheck \/ CheckArgs
  BY <1>8, CheckSteps
<1>9. CASE Expr
  BY <1>9, ExprStep
<1>10. CASE Rhs
  BY <1>10, RhsStep
<1>11. CASE Inner
  BY <1>11, InnerStep
<1>12. CASE Prim
  BY <1>12, PrimStep
<1>13. CASE Name
  BY <1>13, NameStep
<1>14. CASE Args
  BY <1>14, ArgsStep
<1>15. CASE Parsed
  BY <1>15, ParsedStep
<1>16. CASE UNCHANGED vars
  <2>1. UNCHANGED <<look, left, past, todo, flags, fun, type, defs, opened, errors, status>>
    BY <1>16 DEF vars
  <2>2. TypeOK'
    BY <2>1 DEF Inv, TypeOK
  <2>3. Linked(todo') /\ Ending' /\ Balance'
    BY <2>1 DEF Inv, Ending, Balance
  <2>4. FlagsAreLocal'
    BY <2>1 DEF Inv, FlagsAreLocal
  <2> QED
    BY <2>2, <2>3, <2>4 DEF Inv
<1> QED
  BY <1>1, <1>2, <1>3, <1>4, <1>5, <1>6, <1>7, <1>8, <1>9, <1>10, <1>11, <1>12,
     <1>13, <1>14, <1>15, <1>16 DEF Next, Step, Stopped

LEMMA AlwaysInv ==
  Spec => []Inv
<1> QED
  BY InitInv, NextInv, PTL DEF Spec

(* The parser's state keeps its type: an identifier's definition holds a   *)
(* number of parameters, and what is counted never leaves its range.       *)
THEOREM TypeCorrect == Spec => []TypeOK
<1>1. Inv => TypeOK
  BY DEF Inv
<1> QED
  BY <1>1, AlwaysInv, PTL

(* The end of the input is consumed once, as the last token: whatever      *)
(* constructs the input is cut off in, no routine of parser.cc asks the    *)
(* scanner for a token behind it.                                          *)
THEOREM EndIsReadOnce == Spec => []EndReadOnce
<1>1. Inv => EndReadOnce
  BY DEF Inv, Ending, EndReadOnce
<1> QED
  BY <1>1, AlwaysInv, PTL

(* The loops of Parser::binOpRHS under way inside each other wait for      *)
(* operators of falling precedence, so that no operand is taken from an    *)
(* operator that binds tighter, for expressions of every depth.            *)
THEOREM PrecedenceAlwaysNests == Spec => []PrecedenceNests
<1>1. Inv => PrecedenceNests
  BY DEF Inv, Linked, Fits, PrecedenceNests
<1> QED
  BY <1>1, AlwaysInv, PTL

(* An input of any length that is parsed without a report has as many      *)
(* closing parentheses and braces as opening ones.                         *)
THEOREM ParsedIsBalanced == Spec => []BalancedWhenParsed
<1>1. Inv => BalancedWhenParsed
  BY NothingToClose DEF Inv, Ending, Balance, BalancedWhenParsed
<1> QED
  BY <1>1, AlwaysInv, PTL

(* While FLAG_UNREACHABLE is set, the innermost block under way has had a  *)
(* return statement: block() clears it on every path out, at any depth.    *)
THEOREM FlagsStayLocal == Spec => []FlagsAreLocal
<1>1. Inv => FlagsAreLocal
  BY DEF Inv
<1> QED
  BY <1>1, AlwaysInv, PTL

-----------------------------------------------------------------------------
(* The grammar: its symbols, those that can derive nothing, and the        *)
(* productions one by one.                                                 *)
LEMMA NonterminalsAre ==
  Nonterminals = {"Program", "Params", "Param", "MoreParams", "Block", "Stmts", "Else",
                  "Value", "Expr", "MulRest", "AddRest", "CmpRest", "Mul", "Add", "Cmp",
                  "Prim", "NameRest", "Args"}
  BY DEF Nonterminals, Productions

LEMMA SymbolsAre ==
  /\ \A tok \in AllTokens \cup {"END"} : tok # "TYPE" => tok \in Terminals
  /\ Terminals \subseteq Symbols /\ Nonterminals \subseteq Symbols
  /\ Terminals \cap Nonterminals = {}
<1>1. Terminals \cap Nonterminals = {}
  BY NonterminalsAre DEF Terminals
<1> QED
  BY <1>1 DEF Symbols, Terminals, AllTokens

LEMMA ProductionsAre ==
  /\ Productions["Program"] =
       {<<>>, Header \o <<"Block", "Program">>,
        <<"EXTERN">> \o Header \o <<"SEMICOLON", "Program">>,
        Variable \o <<"Program">>, <<"Expr", "SEMICOLON", "Program">>}
  /\ Productions["Params"] = {<<"CBRACE">>, <<"Param", "CBRACE">>}
  /\ Productions["Param"] = {<<"NAME", "MoreParams">>}
  /\ Productions["MoreParams"] = {<<>>, <<"COMMA", "Param">>}
  /\ Productions["Block"] = {<<"OCBRACE", "Stmts", "CCBRACE">>}
  /\ Productions["Stmts"] =
       {<<>>, Variable \o <<"Stmts">>,
        <<"Expr", "SEMICOLON", "Stmts">>,
        <<"IF", "OBRACE", "Expr", "CBRACE", "Block", "Else", "Stmts">>,
        <<"FOR", "OBRACE", "NAME", "ASSIGN", "Expr", "SEMICOLON", "Expr",
          "SEMICOLON", "Expr", "CBRACE", "Block", "Stmts">>,
        <<"RETURN", "Value", "Stmts">>}
  /\ Productions["Else"] = {<<>>, <<"ELSE", "Block">>}
  /\ Productions["Value"] = {<<"SEMICOLON">>, <<"Expr", "SEMICOLON">>}
  /\ Productions["Expr"] = {<<"Prim", "MulRest", "AddRest", "CmpRest">>}
  /\ Productions["MulRest"] = {<<>>, <<"MULT", "Prim", "Mul", "MulRest">>}
  /\ Productions["AddRest"] = {<<>>, <<"PLUS", "Prim", "MulRest", "Add", "AddRest">>,
                               <<"MINUS", "Prim", "MulRest", "Add", "AddRest">>}
  /\ Productions["CmpRest"] =
       {<<>>, <<"LT", "Prim", "MulRest", "AddRest", "Cmp", "CmpRest">>}
  /\ Productions["Mul"] = {<<>>} /\ Productions["Add"] = {<<>>} /\ Productions["Cmp"] = {<<>>}
  /\ Productions["Prim"] = {<<"CONST">>, <<"NAME", "NameRest">>, <<"MINUS", "Prim">>,
                            <<"OBRACE", "Expr", "CBRACE">>}
  /\ Productions["NameRest"] = {<<>>, <<"ASSIGN", "Expr">>, <<"OBRACE", "Expr", "Args">>}
  /\ Productions["Args"] = {<<"CBRACE">>, <<"COMMA", "Expr", "Args">>}
<1>1. {<<>>} \cup {<<op, "Prim", "MulRest", "Add", "AddRest">> : op \in {"PLUS", "MINUS"}} =
        {<<>>, <<"PLUS", "Prim", "MulRest", "Add", "AddRest">>,
         <<"MINUS", "Prim", "MulRest", "Add", "AddRest">>}
  OBVIOUS
<1> QED
  BY <1>1 DEF Productions

LEMMA NullableAre ==
  Nullable = {"Program", "MoreParams", "Stmts", "Else", "MulRest", "AddRest", "CmpRest",
              "Mul", "Add", "Cmp", "NameRest"}
<1>1. /\ Header \o <<"Block", "Program">> # <<>>
      /\ <<"EXTERN">> \o Header \o <<"SEMICOLON", "Program">> # <<>>
      /\ Variable \o <<"Program">> # <<>> /\ Variable \o <<"Stmts">> # <<>>
  BY DEF Header, Variable
<1>2. /\ <<>> \in Productions["Program"] /\ <<>> \in Productions["MoreParams"]
      /\ <<>> \in Productions["Stmts"] /\ <<>> \in Productions["Else"]
      /\ <<>> \in Productions["MulRest"] /\ <<>> \in Productions["AddRest"]
      /\ <<>> \in Productions["CmpRest"] /\ <<>> \in Productions["Mul"]
      /\ <<>> \in Productions["Add"] /\ <<>> \in Productions["Cmp"]
      /\ <<>> \in Productions["NameRest"]
  BY ProductionsAre
<1>3. /\ <<>> \notin Productions["Params"] /\ <<>> \notin Productions["Param"]
      /\ <<>> \notin Productions["Block"] /\ <<>> \notin Productions["Value"]
      /\ <<>> \notin Productions["Expr"] /\ <<>> \notin Productions["Prim"]
      /\ <<>> \notin Productions["Args"]
  BY ProductionsAre
<1> QED
  BY <1>2, <1>3, NonterminalsAre DEF Nullable

(* Strings of symbols, put together and taken apart.                       *)
LEMMA FirstOf ==
  ASSUME NEW S, NEW s \in Seq(S), NEW t \in Seq(S), s # <<>>
  PROVE  /\ s \o t \in Seq(S) /\ s \o t # <<>>
         /\ (s \o t)[1] = s[1] /\ Tail(s \o t) = Tail(s) \o t
         /\ s[1] \in S /\ Tail(s) \in Seq(S)
  OBVIOUS

LEMMA InFront ==
  ASSUME NEW S, NEW x \in S, NEW s \in Seq(S)
  PROVE  /\ <<x>> \in Seq(S) /\ <<x>> \o s \in Seq(S) /\ <<x>> \o s # <<>>
         /\ (<<x>> \o s)[1] = x /\ Head(<<x>> \o s) = x /\ Tail(<<x>> \o s) = s
         /\ Len(<<x>> \o s) = Len(s) + 1
         /\ \A i \in 1..Len(s) : (<<x>> \o s)[i + 1] = s[i]
  OBVIOUS

LEMMA HeadInFront ==
  ASSUME NEW S, NEW s \in Seq(S), s # <<>>
  PROVE  s = <<s[1]>> \o Tail(s) /\ s[1] = Head(s) /\ s[1] \in S /\ Tail(s) \in Seq(S)
  OBVIOUS

LEMMA Regrouped ==
  ASSUME NEW S, NEW r \in Seq(S), NEW s \in Seq(S), NEW t \in Seq(S)
  PROVE  (r \o s) \o t = r \o (s \o t) /\ (r \o s) \o t \in Seq(S)
  OBVIOUS

Associate(r, s, t) == (r \o s) \o t = r \o (s \o t)

LEMMA Associated ==
  ASSUME NEW S, NEW r \in Seq(S), NEW s \in Seq(S), NEW t \in Seq(S)
  PROVE  Associate(r, s, t)
  BY Regrouped DEF Associate

LEMMA Joined ==
  ASSUME NEW S, NEW r \in Seq(S), NEW s \in Seq(S)
  PROVE  r \o s \in Seq(S)
  OBVIOUS

LEMMA NoneAround ==
  ASSUME NEW S, NEW s \in Seq(S)
  PROVE  s \o <<>> = s /\ <<>> \o s = s
  OBVIOUS

(* What can come first in the productions.                                 *)
LEMMA Beginnings ==
  ASSUME NEW p \in UNION {Productions[X] : X \in Nonterminals}
  PROVE  p \in Seq(Symbols) /\ (p # <<>> => p[1] \in Symbols /\ p[1] \notin Nullable)
<1> DEFINE Good(q) == q \in Seq(Symbols) /\ q # <<>> /\ q[1] \notin Nullable
<1>1. \A X \in Terminals \cup Nonterminals : X \in Symbols
  BY SymbolsAre
<1>2. /\ Header \in Seq(Symbols) /\ Header # <<>> /\ Header[1] = "FUNCTION"
      /\ Variable \in Seq(Symbols) /\ Variable # <<>> /\ Variable[1] = "VAR"
  BY <1>1, NonterminalsAre DEF Header, Variable, Terminals
<1>3. /\ <<"Block", "Program">> \in Seq(Symbols) /\ <<"EXTERN">> \in Seq(Symbols)
      /\ <<"EXTERN">>[1] = "EXTERN" /\ <<"EXTERN">> # <<>>
      /\ <<"SEMICOLON", "Program">> \in Seq(Symbols)
      /\ <<"Program">> \in Seq(Symbols) /\ <<"Stmts">> \in Seq(Symbols)
  BY <1>1, NonterminalsAre DEF Terminals
<1>4. \A X \in Terminals : X \notin Nullable
  BY SymbolsAre, NullableAre DEF Nullable
<1>5. Good(Header \o <<"Block", "Program">>)
  <2>1. "FUNCTION" \notin Nullable
    BY NullableAre
  <2> QED
    BY <1>2, <1>3, <2>1, FirstOf
<1>6. Good(<<"EXTERN">> \o Header \o <<"SEMICOLON", "Program">>)
  <2>1. "EXTERN" \notin Nullable
    BY NullableAre
  <2>2. /\ <<"EXTERN">> \o Header \in Seq(Symbols) /\ <<"EXTERN">> \o Header # <<>>
        /\ (<<"EXTERN">> \o Header)[1] = "EXTERN"
    BY <1>2, <1>3, FirstOf
  <2> QED
    BY <1>3, <2>1, <2>2, FirstOf
<1>7. Good(Variable \o <<"Program">>) /\ Good(Variable \o <<"Stmts">>)
  <2>1. "VAR" \notin Nullable
    BY NullableAre
  <2> QED
    BY <1>2, <1>3, <2>1, FirstOf
<1>8. PICK X \in Nonterminals : p \in Productions[X]
  OBVIOUS
<1>9. Good(<<"Expr", "SEMICOLON", "Program">>)
  BY <1>1, NonterminalsAre, NullableAre DEF Terminals
<1>10. /\ Good(<<"Expr", "SEMICOLON", "Stmts">>)
       /\ Good(<<"IF", "OBRACE", "Expr", "CBRACE", "Block", "Else", "Stmts">>)
       /\ Good(<<"RETURN", "Value", "Stmts">>)
  BY <1>1, NonterminalsAre, NullableAre DEF Terminals
<1>11. Good(<<"FOR", "OBRACE", "NAME", "ASSIGN", "Expr", "SEMICOLON", "Expr",
              "SEMICOLON", "Expr", "CBRACE", "Block", "Stmts">>)
  BY <1>1, NonterminalsAre, NullableAre DEF Terminals
<1>12. /\ Good(<<"CBRACE">>) /\ Good(<<"Param", "CBRACE">>) /\ Good(<<"NAME", "MoreParams">>)
       /\ Good(<<"COMMA", "Param">>) /\ Good(<<"OCBRACE", "Stmts", "CCBRACE">>)
       /\ Good(<<"ELSE", "Block">>) /\ Good(<<"SEMICOLON">>) /\ Good(<<"Expr", "SEMICOLON">>)
  BY <1>1, NonterminalsAre, NullableAre DEF Terminals
<1>13. /\ Good(<<"Prim", "MulRest", "AddRest", "CmpRest">>)
       /\ Good(<<"MULT", "Prim", "Mul", "MulRest">>)
       /\ Good(<<"PLUS", "Prim", "MulRest", "Add", "AddRest">>)
       /\ Good(<<"MINUS", "Prim", "MulRest", "Add", "AddRest">>)
       /\ Good(<<"LT", "Prim", "MulRest", "AddRest", "Cmp", "CmpRest">>)
  BY <1>1, NonterminalsAre, NullableAre DEF Terminals
<1>14. /\ Good(<<"CONST">>) /\ Good(<<"NAME", "NameRest">>) /\ Good(<<"MINUS", "Prim">>)
       /\ Good(<<"OBRACE", "Expr", "CBRACE">>) /\ Good(<<"ASSIGN", "Expr">>)
       /\ Good(<<"OBRACE", "Expr", "Args">>) /\ Good(<<"COMMA", "Expr", "Args">>)
  BY <1>1, NonterminalsAre, NullableAre DEF Terminals
<1> HIDE DEF Good
<1>15. p = <<>> \/ Good(p)
  <2>1. X \in {"Program", "Stmts", "Mul", "Add", "Cmp"} => p = <<>> \/ Good(p)
    <3>1. X = "Program" => p = <<>> \/ Good(p)
      BY <1>5, <1>6, <1>7, <1>8, <1>9, ProductionsAre
    <3>2. X = "Stmts" => p = <<>> \/ Good(p)
      BY <1>7, <1>8, <1>10, <1>11, ProductionsAre
    <3>3. X \in {"Mul", "Add", "Cmp"} => p = <<>>
      BY <1>8, ProductionsAre
    <3> QED
      BY <3>1, <3>2, <3>3
  <2>2. X \in {"Params", "Param", "MoreParams", "Block", "Else", "Value"} => p = <<>> \/ Good(p)
    <3>1. /\ X = "Params" => p \in {<<"CBRACE">>, <<"Param", "CBRACE">>}
          /\ X = "Param" => p = <<"NAME", "MoreParams">>
          /\ X = "MoreParams" => p \in {<<>>, <<"COMMA", "Param">>}
          /\ X = "Block" => p = <<"OCBRACE", "Stmts", "CCBRACE">>
          /\ X = "Else" => p \in {<<>>, <<"ELSE", "Block">>}
          /\ X = "Value" => p \in {<<"SEMICOLON">>, <<"Expr", "SEMICOLON">>}
      BY <1>8, ProductionsAre
    <3> QED
      BY <1>12, <3>1
  <2>3. X \in {"Expr", "MulRest", "AddRest", "CmpRest"} => p = <<>> \/ Good(p)
    <3>1. /\ X = "Expr" => p = <<"Prim", "MulRest", "AddRest", "CmpRest">>
          /\ X = "MulRest" => p \in {<<>>, <<"MULT", "Prim", "Mul", "MulRest">>}
          /\ X = "AddRest" => p \in {<<>>, <<"PLUS", "Prim", "MulRest", "Add", "AddRest">>,
                                     <<"MINUS", "Prim", "MulRest", "Add", "AddRest">>}
          /\ X = "CmpRest" =>
               p \in {<<>>, <<"LT", "Prim", "MulRest", "AddRest", "Cmp", "CmpRest">>}
      BY <1>8, ProductionsAre
    <3> QED
      BY <1>13, <3>1
  <2>4. X \in {"Prim", "NameRest", "Args"} => p = <<>> \/ Good(p)
    BY <1>8, <1>12, <1>14, ProductionsAre
  <2> QED
    BY <1>8, <2>1, <2>2, <2>3, <2>4, NonterminalsAre
<1>16. CASE p = <<>>
  BY <1>16
<1>17. CASE Good(p)
  <2>1. p \in Seq(Symbols) /\ p # <<>> /\ p[1] \notin Nullable
    BY <1>17 DEF Good
  <2> QED
    BY <2>1, HeadInFront
<1> QED
  BY <1>15, <1>16, <1>17

LEMMA StartsAre ==
  ASSUME NEW first, NEW p \in UNION {Productions[X] : X \in Nonterminals}
  PROVE  StartsOf(first, p) = IF p = <<>> THEN {} ELSE first[p[1]]
<1>1. p \in Seq(Symbols) /\ (p # <<>> => p[1] \in Symbols /\ p[1] \notin Nullable)
  BY Beginnings
<1>2. CASE p = <<>>
  BY <1>2 DEF StartsOf
<1>3. CASE p # <<>>
  <2>1. Len(p) \in Nat \ {0} /\ DOMAIN p = 1..Len(p)
    BY <1>1, <1>3
  <2>2. {j \in DOMAIN p : \A k \in 1..(j - 1) : p[k] \in Nullable} = {1}
    <3>1. \A j \in DOMAIN p : j # 1 => 1 \in 1..(j - 1)
      BY <2>1
    <3>2. 1 \in DOMAIN p /\ 1..(1 - 1) = {}
      BY <2>1
    <3> QED
      BY <1>1, <1>3, <3>1, <3>2
  <2> QED
    BY <1>3, <2>2 DEF StartsOf
<1> QED
  BY <1>2, <1>3

(* What the productions of a nonterminal begin with.                       *)
HeadsOf(X) == {p[1] : p \in {q \in Productions[X] : q # <<>>}}

LEMMA HeadsAre ==
  /\ HeadsOf("Program") = {"FUNCTION", "EXTERN", "VAR", "Expr"}
  /\ HeadsOf("Params") = {"CBRACE", "Param"}
  /\ HeadsOf("Param") = {"NAME"}
  /\ HeadsOf("MoreParams") = {"COMMA"}
  /\ HeadsOf("Block") = {"OCBRACE"}
  /\ HeadsOf("Stmts") = {"VAR", "Expr", "IF", "FOR", "RETURN"}
  /\ HeadsOf("Else") = {"ELSE"}
  /\ HeadsOf("Value") = {"SEMICOLON", "Expr"}
  /\ HeadsOf("Expr") = {"Prim"}
  /\ HeadsOf("MulRest") = {"MULT"}
  /\ HeadsOf("AddRest") = {"PLUS", "MINUS"}
  /\ HeadsOf("CmpRest") = {"LT"}
  /\ HeadsOf("Prim") = {"CONST", "NAME", "MINUS", "OBRACE"}
  /\ HeadsOf("NameRest") = {"ASSIGN", "OBRACE"}
  /\ HeadsOf("Args") = {"CBRACE", "COMMA"}
  /\ HeadsOf("Mul") = {} /\ HeadsOf("Add") = {} /\ HeadsOf("Cmp") = {}
<1>1. HeadsOf("Program") = {"FUNCTION", "EXTERN", "VAR", "Expr"}
  <2> DEFINE a == Header \o <<"Block", "Program">>
             b == <<"EXTERN">> \o Header \o <<"SEMICOLON", "Program">>
             c == Variable \o <<"Program">>
             d == <<"Expr", "SEMICOLON", "Program">>
  <2>1. /\ a # <<>> /\ a[1] = "FUNCTION"
        /\ b # <<>> /\ b[1] = "EXTERN"
        /\ c # <<>> /\ c[1] = "VAR"
        /\ d # <<>> /\ d[1] = "Expr"
    BY DEF Header, Variable
  <2>2. Productions["Program"] = {<<>>, a, b, c, d}
    BY ProductionsAre
  <2> HIDE DEF a, b, c, d
  <2> QED
    BY <2>1, <2>2 DEF HeadsOf
<1>2. HeadsOf("Params") = {"CBRACE", "Param"}
  <2> DEFINE a == <<"CBRACE">>
             b == <<"Param", "CBRACE">>
  <2>1. /\ a # <<>> /\ a[1] = "CBRACE"
        /\ b # <<>> /\ b[1] = "Param"
    OBVIOUS
  <2>2. Productions["Params"] = {a, b}
    BY ProductionsAre
  <2> HIDE DEF a, b
  <2> QED
    BY <2>1, <2>2 DEF HeadsOf
<1>3. HeadsOf("Param") = {"NAME"}
  <2> DEFINE a == <<"NAME", "MoreParams">>
  <2>1. /\ a # <<>> /\ a[1] = "NAME"
    OBVIOUS
  <2>2. Productions["Param"] = {a}
    BY ProductionsAre
  <2> HIDE DEF a
  <2> QED
    BY <2>1, <2>2 DEF HeadsOf
<1>4. HeadsOf("MoreParams") = {"COMMA"}
  <2> DEFINE a == <<"COMMA", "Param">>
  <2>1. /\ a # <<>> /\ a[1] = "COMMA"
    OBVIOUS
  <2>2. Productions["MoreParams"] = {<<>>, a}
    BY ProductionsAre
  <2> HIDE DEF a
  <2> QED
    BY <2>1, <2>2 DEF HeadsOf
<1>5. HeadsOf("Block") = {"OCBRACE"}
  <2> DEFINE a == <<"OCBRACE", "Stmts", "CCBRACE">>
  <2>1. /\ a # <<>> /\ a[1] = "OCBRACE"
    OBVIOUS
  <2>2. Productions["Block"] = {a}
    BY ProductionsAre
  <2> HIDE DEF a
  <2> QED
    BY <2>1, <2>2 DEF HeadsOf
<1>6. HeadsOf("Stmts") = {"VAR", "Expr", "IF", "FOR", "RETURN"}
  <2> DEFINE a == Variable \o <<"Stmts">>
             b == <<"Expr", "SEMICOLON", "Stmts">>
             c == <<"IF", "OBRACE", "Expr", "CBRACE", "Block", "Else", "Stmts">>
             d == <<"FOR", "OBRACE", "NAME", "ASSIGN", "Expr", "SEMICOLON", "Expr",
                    "SEMICOLON", "Expr", "CBRACE", "Block", "Stmts">>
             e == <<"RETURN", "Value", "Stmts">>
  <2>1. /\ a # <<>> /\ a[1] = "VAR"
        /\ b # <<>> /\ b[1] = "Expr"
        /\ c # <<>> /\ c[1] = "IF"
        /\ d # <<>> /\ d[1] = "FOR"
        /\ e # <<>> /\ e[1] = "RETURN"
    BY DEF Header, Variable
  <2>2. Productions["Stmts"] = {<<>>, a, b, c, d, e}
    BY ProductionsAre
  <2> HIDE DEF a, b, c, d, e
  <2> QED
    BY <2>1, <2>2 DEF HeadsOf
<1>7. HeadsOf("Else") = {"ELSE"}
  <2> DEFINE a == <<"ELSE", "Block">>
  <2>1. /\ a # <<>> /\ a[1] = "ELSE"
    OBVIOUS
  <2>2. Productions["Else"] = {<<>>, a}
    BY ProductionsAre
  <2> HIDE DEF a
  <2> QED
    BY <2>1, <2>2 DEF HeadsOf
<1>8. HeadsOf("Value") = {"SEMICOLON", "Expr"}
  <2> DEFINE a == <<"SEMICOLON">>
             b == <<"Expr", "SEMICOLON">>
  <2>1. /\ a # <<>> /\ a[1] = "SEMICOLON"
        /\ b # <<>> /\ b[1] = "Expr"
    OBVIOUS
  <2>2. Productions["Value"] = {a, b}
    BY ProductionsAre
  <2> HIDE DEF a, b
  <2> QED
    BY <2>1, <2>2 DEF HeadsOf
<1>9. HeadsOf("Expr") = {"Prim"}
  <2> DEFINE a == <<"Prim", "MulRest", "AddRest", "CmpRest">>
  <2>1. /\ a # <<>> /\ a[1] = "Prim"
    OBVIOUS
  <2>2. Productions["Expr"] = {a}
    BY ProductionsAre
  <2> HIDE DEF a
  <2> QED
    BY <2>1, <2>2 DEF HeadsOf
<1>10. HeadsOf("MulRest") = {"MULT"}
  <2> DEFINE a == <<"MULT", "Prim", "Mul", "MulRest">>
  <2>1. /\ a # <<>> /\ a[1] = "MULT"
    OBVIOUS
  <2>2. Productions["MulRest"] = {<<>>, a}
    BY ProductionsAre
  <2> HIDE DEF a
  <2> QED
    BY <2>1, <2>2 DEF HeadsOf
<1>11. HeadsOf("AddRest") = {"PLUS", "MINUS"}
  <2> DEFINE a == <<"PLUS", "Prim", "MulRest", "Add", "AddRest">>
             b == <<"MINUS", "Prim", "MulRest", "Add", "AddRest">>
  <2>1. /\ a # <<>> /\ a[1] = "PLUS"
        /\ b # <<>> /\ b[1] = "MINUS"
    OBVIOUS
  <2>2. Productions["AddRest"] = {<<>>, a, b}
    BY ProductionsAre
  <2> HIDE DEF a, b
  <2> QED
    BY <2>1, <2>2 DEF HeadsOf
<1>12. HeadsOf("CmpRest") = {"LT"}
  <2> DEFINE a == <<"LT", "Prim", "MulRest", "AddRest", "Cmp", "CmpRest">>
  <2>1. /\ a # <<>> /\ a[1] = "LT"
    OBVIOUS
  <2>2. Productions["CmpRest"] = {<<>>, a}
    BY ProductionsAre
  <2> HIDE DEF a
  <2> QED
    BY <2>1, <2>2 DEF HeadsOf
<1>13. HeadsOf("Prim") = {"CONST", "NAME", "MINUS", "OBRACE"}
  <2> DEFINE a == <<"CONST">>
             b == <<"NAME", "NameRest">>
             c == <<"MINUS", "Prim">>
             d == <<"OBRACE", "Expr", "CBRACE">>
  <2>1. /\ a # <<>> /\ a[1] = "CONST"
        /\ b # <<>> /\ b[1] = "NAME"
        /\ c # <<>> /\ c[1] = "MINUS"
        /\ d # <<>> /\ d[1] = "OBRACE"
    OBVIOUS
  <2>2. Productions["Prim"] = {a, b, c, d}
    BY ProductionsAre
  <2> HIDE DEF a, b, c, d
  <2> QED
    BY <2>1, <2>2 DEF HeadsOf
<1>14. HeadsOf("NameRest") = {"ASSIGN", "OBRACE"}
  <2> DEFINE a == <<"ASSIGN", "Expr">>
             b == <<"OBRACE", "Expr", "Args">>
  <2>1. /\ a # <<>> /\ a[1] = "ASSIGN"
        /\ b # <<>> /\ b[1] = "OBRACE"
    OBVIOUS
  <2>2. Productions["NameRest"] = {<<>>, a, b}
    BY ProductionsAre
  <2> HIDE DEF a, b
  <2> QED
    BY <2>1, <2>2 DEF HeadsOf
<1>15. HeadsOf("Args") = {"CBRACE", "COMMA"}
  <2> DEFINE a == <<"CBRACE">>
             b == <<"COMMA", "Expr", "Args">>
  <2>1. /\ a # <<>> /\ a[1] = "CBRACE"
        /\ b # <<>> /\ b[1] = "COMMA"
    OBVIOUS
  <2>2. Productions["Args"] = {a, b}
    BY ProductionsAre
  <2> HIDE DEF a, b
  <2> QED
    BY <2>1, <2>2 DEF HeadsOf
<1>16. HeadsOf("Mul") = {} /\ HeadsOf("Add") = {} /\ HeadsOf("Cmp") = {}
  <2>1. /\ Productions["Mul"] = {<<>>} /\ Productions["Add"] = {<<>>}
        /\ Productions["Cmp"] = {<<>>}
    BY ProductionsAre
  <2> QED
    BY <2>1 DEF HeadsOf
<1> QED
  BY <1>1, <1>2, <1>3, <1>4, <1>5, <1>6, <1>7, <1>8, <1>9, <1>10, <1>11, <1>12, <1>13, <1>14, <1>15, <1>16

LEMMA TerminalsFirst ==
  ASSUME NEW first, NEW X \in Terminals
  PROVE  Further(first)[X] = {X}
  BY SymbolsAre DEF Further

(* One round of what can come first in a nonterminal.                      *)
LEMMA FurtherIs ==
  ASSUME NEW first, NEW X \in Nonterminals
  PROVE  Further(first)[X] = UNION {first[h] : h \in HeadsOf(X)}
<1>1. X \in Symbols /\ X \notin Terminals
  BY SymbolsAre
<1>2. Further(first)[X] = UNION {StartsOf(first, p) : p \in Productions[X]}
  BY <1>1 DEF Further
<1>3. \A p \in Productions[X] : StartsOf(first, p) = IF p = <<>> THEN {} ELSE first[p[1]]
  BY StartsAre
<1> QED
  BY <1>2, <1>3 DEF HeadsOf

(* What can come first: in an expression, and in every nonterminal.        *)
Operands == {"CONST", "NAME", "MINUS", "OBRACE"}

LEMMA FirstIs ==
  /\ \A X \in Terminals : First[X] = {X}
  /\ First["Program"] = {"FUNCTION", "EXTERN", "VAR"} \cup Operands
  /\ First["Params"] = {"CBRACE", "NAME"}
  /\ First["Param"] = {"NAME"}
  /\ First["MoreParams"] = {"COMMA"}
  /\ First["Block"] = {"OCBRACE"}
  /\ First["Stmts"] = {"VAR", "IF", "FOR", "RETURN"} \cup Operands
  /\ First["Else"] = {"ELSE"}
  /\ First["Value"] = {"SEMICOLON"} \cup Operands
  /\ First["Expr"] = Operands
  /\ First["MulRest"] = {"MULT"}
  /\ First["AddRest"] = {"PLUS", "MINUS"}
  /\ First["CmpRest"] = {"LT"}
  /\ First["Mul"] = {} /\ First["Add"] = {} /\ First["Cmp"] = {}
  /\ First["Prim"] = Operands
  /\ First["NameRest"] = {"ASSIGN", "OBRACE"}
  /\ First["Args"] = {"CBRACE", "COMMA"}
<1> DEFINE r1 == Further([X \in Symbols |-> {}])
           r2 == Further(r1)
           r3 == Further(r2)
<1>1. \A X \in Terminals : r1[X] = {X} /\ r2[X] = {X} /\ r3[X] = {X} /\ First[X] = {X}
  BY TerminalsFirst DEF First
<1>2. \A X \in Nonterminals :
         /\ r2[X] = UNION {r1[h] : h \in HeadsOf(X)}
         /\ r3[X] = UNION {r2[h] : h \in HeadsOf(X)}
         /\ First[X] = UNION {r3[h] : h \in HeadsOf(X)}
  BY FurtherIs DEF First
<1> HIDE DEF r1, r2, r3
<1>3. \A X \in Terminals \cup Nonterminals : X \in Terminals \/ X \in Nonterminals
  OBVIOUS
<1>4. r2["Prim"] = Operands /\ r3["Prim"] = Operands /\ r2["Param"] = {"NAME"} /\ r3["Param"] = {"NAME"}
  <2>1. {"CONST", "NAME", "MINUS", "OBRACE"} \subseteq Terminals
    BY DEF Terminals
  <2>2. "Prim" \in Nonterminals /\ "Param" \in Nonterminals
    BY NonterminalsAre
  <2> QED
    BY <1>1, <1>2, <2>1, <2>2, HeadsAre DEF Operands
<1>5. r3["Expr"] = Operands
  <2>1. "Expr" \in Nonterminals /\ HeadsOf("Expr") = {"Prim"}
    BY NonterminalsAre, HeadsAre
  <2>2. r3["Expr"] = UNION {r2[h] : h \in {"Prim"}}
    BY <1>2, <2>1
  <2> QED
    BY <1>4, <2>2
<1>6. First["Program"] = {"FUNCTION", "EXTERN", "VAR"} \cup Operands
  <2>1. "Program" \in Nonterminals /\ HeadsOf("Program") = {"FUNCTION", "EXTERN", "VAR", "Expr"}
    BY NonterminalsAre, HeadsAre
  <2>2. {"FUNCTION", "EXTERN", "VAR"} \subseteq Terminals
    BY DEF Terminals
  <2> QED
    BY <1>1, <1>2, <2>1, <2>2, <1>4, <1>5
<1>7. First["Params"] = {"CBRACE", "NAME"}
  <2>1. "Params" \in Nonterminals /\ HeadsOf("Params") = {"CBRACE", "Param"}
    BY NonterminalsAre, HeadsAre
  <2>2. {"CBRACE"} \subseteq Terminals
    BY DEF Terminals
  <2> QED
    BY <1>1, <1>2, <2>1, <2>2, <1>4, <1>5
<1>8. First["Param"] = {"NAME"}
  <2>1. "Param" \in Nonterminals /\ HeadsOf("Param") = {"NAME"}
    BY NonterminalsAre, HeadsAre
  <2>2. {"NAME"} \subseteq Terminals
    BY DEF Terminals
  <2> QED
    BY <1>1, <1>2, <2>1, <2>2
<1>9. First["MoreParams"] = {"COMMA"}
  <2>1. "MoreParams" \in Nonterminals /\ HeadsOf("MoreParams") = {"COMMA"}
    BY NonterminalsAre, HeadsAre
  <2>2. {"COMMA"} \subseteq Terminals
    BY DEF Terminals
  <2> QED
    BY <1>1, <1>2, <2>1, <2>2
<1>10. First["Block"] = {"OCBRACE"}
  <2>1. "Block" \in Nonterminals /\ HeadsOf("Block") = {"OCBRACE"}
    BY NonterminalsAre, HeadsAre
  <2>2. {"OCBRACE"} \subseteq Terminals
    BY DEF Terminals
  <2> QED
    BY <1>1, <1>2, <2>1, <2>2
<1>11. First["Stmts"] = {"VAR", "IF", "FOR", "RETURN"} \cup Operands
  <2>1. "Stmts" \in Nonterminals /\ HeadsOf("Stmts") = {"VAR", "Expr", "IF", "FOR", "RETURN"}
    BY NonterminalsAre, HeadsAre
  <2>2. {"VAR", "IF", "FOR", "RETURN"} \subseteq Terminals
    BY DEF Terminals
  <2> QED
    BY <1>1, <1>2, <2>1, <2>2, <1>4, <1>5
<1>12. First["Else"] = {"ELSE"}
  <2>1. "Else" \in Nonterminals /\ HeadsOf("Else") = {"ELSE"}
    BY NonterminalsAre, HeadsAre
  <2>2. {"ELSE"} \subseteq Terminals
    BY DEF Terminals
  <2> QED
    BY <1>1, <1>2, <2>1, <2>2
<1>13. First["Value"] = {"SEMICOLON"} \cup Operands
  <2>1. "Value" \in Nonterminals /\ HeadsOf("Value") = {"SEMICOLON", "Expr"}
    BY NonterminalsAre, HeadsAre
  <2>2. {"SEMICOLON"} \subseteq Terminals
    BY DEF Terminals
  <2> QED
    BY <1>1, <1>2, <2>1, <2>2, <1>4, <1>5
<1>14. First["Expr"] = Operands
  <2>1. "Expr" \in Nonterminals /\ HeadsOf("Expr") = {"Prim"}
    BY NonterminalsAre, HeadsAre
  <2>2. First["Expr"] = UNION {r3[h] : h \in {"Prim"}}
    BY <1>2, <2>1
  <2> QED
    BY <1>4, <2>2
<1>15. First["MulRest"] = {"MULT"}
  <2>1. "MulRest" \in Nonterminals /\ HeadsOf("MulRest") = {"MULT"}
    BY NonterminalsAre, HeadsAre
  <2>2. {"MULT"} \subseteq Terminals
    BY DEF Terminals
  <2> QED
    BY <1>1, <1>2, <2>1, <2>2
<1>16. First["AddRest"] = {"PLUS", "MINUS"}
  <2>1. "AddRest" \in Nonterminals /\ HeadsOf("AddRest") = {"PLUS", "MINUS"}
    BY NonterminalsAre, HeadsAre
  <2>2. {"PLUS", "MINUS"} \subseteq Terminals
    BY DEF Terminals
  <2> QED
    BY <1>1, <1>2, <2>1, <2>2
<1>17. First["CmpRest"] = {"LT"}
  <2>1. "CmpRest" \in Nonterminals /\ HeadsOf("CmpRest") = {"LT"}
    BY NonterminalsAre, HeadsAre
  <2>2. {"LT"} \subseteq Terminals
    BY DEF Terminals
  <2> QED
    BY <1>1, <1>2, <2>1, <2>2
<1>18. First["Prim"] = Operands
  <2>1. "Prim" \in Nonterminals /\ HeadsOf("Prim") = {"CONST", "NAME", "MINUS", "OBRACE"}
    BY NonterminalsAre, HeadsAre
  <2>2. {"CONST", "NAME", "MINUS", "OBRACE"} \subseteq Terminals
    BY DEF Terminals
  <2> QED
    BY <1>1, <1>2, <2>1, <2>2 DEF Operands
<1>19. First["NameRest"] = {"ASSIGN", "OBRACE"}
  <2>1. "NameRest" \in Nonterminals /\ HeadsOf("NameRest") = {"ASSIGN", "OBRACE"}
    BY NonterminalsAre, HeadsAre
  <2>2. {"ASSIGN", "OBRACE"} \subseteq Terminals
    BY DEF Terminals
  <2> QED
    BY <1>1, <1>2, <2>1, <2>2
<1>20. First["Args"] = {"CBRACE", "COMMA"}
  <2>1. "Args" \in Nonterminals /\ HeadsOf("Args") = {"CBRACE", "COMMA"}
    BY NonterminalsAre, HeadsAre
  <2>2. {"CBRACE", "COMMA"} \subseteq Terminals
    BY DEF Terminals
  <2> QED
    BY <1>1, <1>2, <2>1, <2>2
<1>21. First["Mul"] = {} /\ First["Add"] = {} /\ First["Cmp"] = {}
  <2>1. /\ {"Mul", "Add", "Cmp"} \subseteq Nonterminals
        /\ HeadsOf("Mul") = {} /\ HeadsOf("Add") = {} /\ HeadsOf("Cmp") = {}
    BY NonterminalsAre, HeadsAre
  <2> QED
    BY <1>2, <2>1
<1> QED
  BY <1>1, <1>6, <1>7, <1>8, <1>9, <1>10, <1>11, <1>12, <1>13, <1>14, <1>15, <1>16, <1>17, <1>18, <1>19, <1>20, <1>21

LEMMA LeastOf ==
  ASSUME NEW S \in SUBSET Nat, S # {}
  PROVE  \E m \in S : \A k \in S : m <= k
<1> DEFINE R == {p \in Nat \X Nat : p[1] < p[2]}
<1>1. IsWellFoundedOn(R, Nat)
  BY NatLessThanWellFounded DEF OpToRel
<1>2. \A i, j \in Nat : i < j => <<i, j>> \in R
  OBVIOUS
<1> HIDE DEF R
<1>3. PICK m \in S : \A k \in S : <<k, m>> \notin R
  BY <1>1, WFMin
<1>4. \A k \in S : ~(k < m)
  BY <1>2, <1>3
<1> QED
  BY <1>4

LEMMA Induction ==
  ASSUME NEW S \in SUBSET Nat, 0 \in S, \A n \in S : n + 1 \in S
  PROVE  Nat \subseteq S
<1> SUFFICES ASSUME Nat \ S # {} PROVE FALSE
  OBVIOUS
<1>1. PICK m \in Nat \ S : \A k \in Nat \ S : m <= k
  BY LeastOf
<1>2. m - 1 \in S
  BY <1>1
<1> QED
  BY <1>1, <1>2

LEMMA SameSequence ==
  ASSUME NEW S, NEW s \in Seq(S), NEW t \in Seq(S), Len(s) = Len(t),
         \A i \in 1..Len(s) : s[i] = t[i]
  PROVE  s = t
  OBVIOUS

-----------------------------------------------------------------------------
(* What the items of a list can stand for: symbols, or what no item that   *)
(* the parser keeps expects.                                               *)
Spellings == Symbols \cup {"TYPE", ""}

LEMMA SymbolsSpelled ==
  /\ \A X \in Symbols : X \in Spellings
  /\ \A s \in Seq(Symbols) : s \in Seq(Spellings)
<1>1. Symbols \subseteq Spellings
  BY DEF Spellings
<1> HIDE DEF Spellings
<1>2. \A s \in Seq(Symbols) : s \in Seq(Spellings)
  BY <1>1
<1> QED
  BY <1>1, <1>2

(* Symbols are settled from the first one on.                              *)
Remains(X, t) == X \notin Nullable \/ t \in First[X]

FirstLeft(s, t) ==
  CHOOSE j \in DOMAIN s : Remains(s[j], t) /\ \A k \in 1..(j - 1) : ~Remains(s[k], t)

LEMMA SettleIs ==
  ASSUME NEW s, NEW t
  PROVE  Settle(s, t) =
           IF \A j \in DOMAIN s : ~Remains(s[j], t) THEN <<>>
           ELSE IF t \in First[s[FirstLeft(s, t)]] THEN SubSeq(s, FirstLeft(s, t), Len(s))
           ELSE Stuck
  BY DEF Settle, Remains, FirstLeft

LEMMA FirstLeftIs ==
  ASSUME NEW s \in Seq(Spellings), NEW t, NEW i \in 1..Len(s), Remains(s[i], t),
         \A k \in 1..(i - 1) : ~Remains(s[k], t)
  PROVE  FirstLeft(s, t) = i
<1>1. DOMAIN s = 1..Len(s) /\ Len(s) \in Nat
  OBVIOUS
<1>2. \A j \in 1..Len(s) :
         Remains(s[j], t) /\ (\A k \in 1..(j - 1) : ~Remains(s[k], t)) => j = i
  <2> TAKE j \in 1..Len(s)
  <2> HAVE Remains(s[j], t) /\ (\A k \in 1..(j - 1) : ~Remains(s[k], t))
  <2>1. i \notin 1..(j - 1) /\ j \notin 1..(i - 1)
    OBVIOUS
  <2> QED
    BY <1>1, <2>1
<1> QED
  BY <1>1, <1>2 DEF FirstLeft

LEMMA SettleNothing ==
  ASSUME NEW t
  PROVE  Settle(<<>>, t) = <<>>
<1>1. DOMAIN <<>> = {}
  OBVIOUS
<1> QED
  BY <1>1, SettleIs

LEMMA SettleStays ==
  ASSUME NEW s \in Seq(Spellings), s # <<>>, NEW t \in First[s[1]]
  PROVE  Settle(s, t) = s
<1>1. 1 \in 1..Len(s) /\ DOMAIN s = 1..Len(s) /\ 1..(1 - 1) = {} /\ Len(s) \in Nat
  OBVIOUS
<1>2. Remains(s[1], t)
  BY DEF Remains
<1>3. FirstLeft(s, t) = 1
  BY <1>1, <1>2, FirstLeftIs
<1>4. SubSeq(s, 1, Len(s)) = s
  OBVIOUS
<1> QED
  BY <1>1, <1>2, <1>3, <1>4, SettleIs

LEMMA SettleSticks ==
  ASSUME NEW X \in Symbols \ Nullable, NEW s \in Seq(Spellings), NEW t, t \notin First[X]
  PROVE  Settle(<<X>> \o s, t) = Stuck
<1> DEFINE u == <<X>> \o s
<1>1. u \in Seq(Spellings) /\ u # <<>> /\ u[1] = X
  BY InFront, SymbolsSpelled
<1> HIDE DEF u
<1>2. 1 \in 1..Len(u) /\ DOMAIN u = 1..Len(u) /\ 1..(1 - 1) = {} /\ Len(u) \in Nat
  BY <1>1
<1>3. Remains(u[1], t)
  BY <1>1 DEF Remains
<1>4. FirstLeft(u, t) = 1
  BY <1>1, <1>2, <1>3, FirstLeftIs
<1>5. Settle(u, t) = Stuck
  BY <1>1, <1>2, <1>3, <1>4, SettleIs
<1> QED
  BY <1>5 DEF u

LEMMA SettleDrops ==
  ASSUME NEW X \in Nullable, NEW s \in Seq(Spellings), NEW t, t \notin First[X]
  PROVE  Settle(<<X>> \o s, t) = Settle(s, t)
<1> DEFINE u == <<X>> \o s
<1>1. X \in Spellings
  BY SymbolsAre, SymbolsSpelled DEF Nullable
<1>2. /\ u \in Seq(Spellings) /\ u # <<>> /\ u[1] = X /\ Len(u) = Len(s) + 1
      /\ \A j \in 1..Len(s) : u[j + 1] = s[j]
  BY <1>1, InFront
<1> HIDE DEF u
<1>4. DOMAIN u = 1..Len(u) /\ DOMAIN s = 1..Len(s) /\ Len(s) \in Nat
  BY <1>2
<1>5. ~Remains(u[1], t)
  BY <1>2 DEF Remains
<1>6. \A j \in 1..Len(u) : j = 1 \/ (j - 1 \in 1..Len(s) /\ u[j] = s[j - 1])
  <2> TAKE j \in 1..Len(u)
  <2>1. j = 1 \/ j - 1 \in 1..Len(s)
    BY <1>2, <1>4
  <2>2. (j - 1) + 1 = j
    BY <1>4
  <2> QED
    BY <1>2, <2>1, <2>2
<1>7. CASE \A j \in DOMAIN s : ~Remains(s[j], t)
  <2>1. \A j \in DOMAIN u : ~Remains(u[j], t)
    BY <1>4, <1>5, <1>6, <1>7
  <2>2. Settle(u, t) = <<>> /\ Settle(s, t) = <<>>
    BY <1>7, <2>1, SettleIs
  <2> QED
    BY <2>2 DEF u
<1>8. CASE \E j \in DOMAIN s : Remains(s[j], t)
  <2>1. PICK i \in 1..Len(s) : Remains(s[i], t) /\ \A k \in 1..(i - 1) : ~Remains(s[k], t)
    <3> DEFINE J == {j \in 1..Len(s) : Remains(s[j], t)}
    <3>1. J \in SUBSET Nat /\ J # {}
      BY <1>4, <1>8
    <3>2. PICK i \in J : \A k \in J : i <= k
      BY <3>1, LeastOf
    <3>3. \A k \in 1..(i - 1) : k \in 1..Len(s) /\ ~(i <= k)
      BY <1>4, <3>2
    <3> QED
      BY <3>2, <3>3
  <2>2. i + 1 \in 1..Len(u) /\ u[i + 1] = s[i] /\ Remains(u[i + 1], t)
    BY <1>2, <1>4, <2>1
  <2>3. \A k \in 1..((i + 1) - 1) : ~Remains(u[k], t)
    <3> TAKE k \in 1..((i + 1) - 1)
    <3>1. k \in 1..Len(u) /\ (k = 1 \/ k - 1 \in 1..(i - 1))
      BY <1>2, <1>4
    <3> QED
      BY <1>5, <1>6, <2>1, <3>1
  <2>4. FirstLeft(u, t) = i + 1 /\ FirstLeft(s, t) = i
    BY <1>2, <2>1, <2>2, <2>3, FirstLeftIs
  <2>5. SubSeq(u, i + 1, Len(u)) = SubSeq(s, i, Len(s))
    <3> DEFINE v == SubSeq(u, i + 1, Len(u))
               w == SubSeq(s, i, Len(s))
    <3>1. v \in Seq(Spellings) /\ w \in Seq(Spellings) /\ Len(v) = Len(w)
      BY <1>2, <1>4, <2>1
    <3>2. \A k \in 1..Len(w) : v[k] = u[(i + k) - 1 + 1] /\ w[k] = s[(i + k) - 1] /\ (i + k) - 1 \in 1..Len(s)
      BY <1>2, <1>4, <2>1
    <3>3. \A k \in 1..Len(w) : v[k] = w[k]
      BY <1>2, <3>2
    <3> HIDE DEF v, w
    <3>4. v = w
      BY <3>1, <3>3, SameSequence
    <3> QED
      BY <3>4 DEF v, w
  <2>6. Settle(u, t) = Settle(s, t)
    BY <1>4, <2>1, <2>2, <2>4, <2>5, SettleIs
  <2> QED
    BY <2>6 DEF u
<1> QED
  BY <1>7, <1>8

(* The grammar of the language is the one that is instantiated.            *)
LEMMA SameGrammar ==
  /\ Language!Terminals = Terminals
  /\ Language!Nonterminals = Nonterminals
  /\ Language!Stuck = Stuck
  /\ Language!Predicted = Predicted
  /\ \A s, t : Language!Settle(s, t) = Settle(s, t)
<1>1. Language!Terminals = Terminals
  BY DEF Language!Terminals, Terminals
<1>2. Language!Productions = Productions
  BY DEF Language!Productions, Productions, Language!Header, Header, Language!Variable, Variable
<1>3. Language!Nonterminals = Nonterminals
  BY <1>2 DEF Language!Nonterminals, Nonterminals
<1>4. Language!Nullable = Nullable
  BY <1>2, <1>3 DEF Language!Nullable, Nullable
<1>5. Language!Symbols = Symbols
  BY <1>1, <1>3 DEF Language!Symbols, Symbols
<1>6. \A f, s : Language!StartsOf(f, s) = StartsOf(f, s)
  BY <1>4 DEF Language!StartsOf, StartsOf
<1>7. \A f : Language!Further(f) = Further(f)
  BY <1>1, <1>2, <1>5, <1>6 DEF Language!Further, Further
<1>8. Language!First = First
  BY <1>5, <1>7 DEF Language!First, First
<1>9. Language!Predicted = Predicted
  BY <1>1, <1>2, <1>3, <1>6, <1>8 DEF Language!Predicted, Predicted
<1>10. Language!Stuck = Stuck
  BY DEF Language!Stuck, Stuck
<1>11. \A s, t : Language!Settle(s, t) = Settle(s, t)
  BY <1>4, <1>8, <1>10 DEF Language!Settle, Settle
<1> QED
  BY <1>1, <1>3, <1>9, <1>10, <1>11

(* What comes first in the first symbol of a production comes first.       *)
LEMMA FirstGoesOn ==
  ASSUME NEW X \in Nonterminals, NEW h \in HeadsOf(X), NEW t \in First[h]
  PROVE  t \in First[X]
<1>1. \A k \in Terminals : First[k] = {k}
  BY FirstIs
<1>2. CASE h \in Terminals
  <2>1. t = h
    BY <1>1, <1>2
  <2>2. X \in {"Program", "Stmts", "Value", "Prim", "NameRest", "Args"} => t \in First[X]
    BY <1>2, <2>1, HeadsAre, FirstIs, SymbolsAre, NonterminalsAre DEF Operands
  <2>3. X \in {"Params", "Param", "MoreParams", "Block", "Else", "Expr"} => t \in First[X]
    BY <1>2, <2>1, HeadsAre, FirstIs, SymbolsAre, NonterminalsAre DEF Operands
  <2>4. X \in {"MulRest", "AddRest", "CmpRest", "Mul", "Add", "Cmp"} => t \in First[X]
    BY <1>2, <2>1, HeadsAre, FirstIs, SymbolsAre, NonterminalsAre DEF Operands
  <2> QED
    BY <2>2, <2>3, <2>4, NonterminalsAre
<1>3. CASE h \notin Terminals
  <2>1. \/ X \in {"Program", "Stmts", "Value"} /\ h = "Expr"
        \/ X = "Params" /\ h = "Param"
        \/ X = "Expr" /\ h = "Prim"
    <3>1. {"FUNCTION", "EXTERN", "VAR", "CBRACE", "NAME", "COMMA", "OCBRACE", "IF", "FOR",
           "RETURN", "ELSE", "SEMICOLON", "MULT", "PLUS", "MINUS", "LT", "CONST",
           "OBRACE", "ASSIGN"} \subseteq Terminals
      BY DEF Terminals
    <3> QED
      BY <1>3, <3>1, HeadsAre, NonterminalsAre
  <2> QED
    BY <2>1, FirstIs DEF Operands
<1> QED
  BY <1>2, <1>3

(* The strings that replacing the first symbol of s gives before t.        *)
ExpansionsOf(s, t) ==
  IF Head(s) \in Nonterminals THEN {p \o Tail(s) : p \in Predicted[Head(s)][t]} ELSE {}

(* What is left of w, a token t ahead, is what is left of v, or the first  *)
(* symbol is replaced to get there.                                        *)
Becomes(w, v, t) ==
  \/ Settle(v, t) = Settle(w, t)
  \/ /\ Settle(w, t) \notin {<<>>, Stuck}
     /\ Settle(v, t) \in ExpansionsOf(Settle(w, t), t)

(* Consuming t leaves v of w.                                              *)
Takes(w, v, t) ==
  /\ Settle(w, t) \notin {<<>>, Stuck}
  /\ \E u \in {Settle(w, t)} \cup ExpansionsOf(Settle(w, t), t) : Head(u) = t /\ v = Tail(u)

LEMMA NotStuck ==
  ASSUME NEW X \in Symbols, NEW s \in Seq(Spellings)
  PROVE  <<X>> \o s \notin {<<>>, Stuck}
<1>1. "stuck" \notin Symbols
  BY NonterminalsAre DEF Symbols, Terminals
<1>2. (<<X>> \o s)[1] = X /\ <<X>> \o s # <<>>
  BY InFront, SymbolsSpelled
<1>3. Stuck[1] = "stuck"
  BY DEF Stuck
<1> QED
  BY <1>1, <1>2, <1>3

LEMMA Predicts ==
  ASSUME NEW X \in Nonterminals, NEW p \in Productions[X], p # <<>>,
         NEW t \in Terminals, t \in First[p[1]]
  PROVE  p \in Predicted[X][t] /\ t \in First[X] /\ X \in Symbols /\ p \in Seq(Spellings)
<1>1. t \in StartsOf(First, p)
  BY StartsAre
<1>2. p[1] \in HeadsOf(X)
  BY DEF HeadsOf
<1>3. t \in First[X]
  BY <1>2, FirstGoesOn
<1>4. p \in Seq(Spellings)
  BY Beginnings, SymbolsSpelled
<1> QED
  BY <1>1, <1>3, <1>4, SymbolsAre DEF Predicted

LEMMA Replacing ==
  ASSUME NEW X \in Nonterminals, NEW p \in Productions[X], p # <<>>,
         NEW r \in Seq(Spellings), NEW t \in Terminals,
         t \in First[X] => t \in First[p[1]],
         X \in Nullable /\ t \notin First[X] => Settle(r, t) = Stuck
  PROVE  Becomes(<<X>> \o r, p \o r, t)
<1>1. /\ p \in Seq(Spellings) /\ p[1] \in Symbols \ Nullable
      /\ X \in Symbols /\ X \in Spellings
  BY Beginnings, SymbolsAre, SymbolsSpelled
<1>2. CASE t \in First[p[1]]
  <2>1. p \in Predicted[X][t] /\ t \in First[X]
    BY <1>2, Predicts
  <2>2. /\ <<X>> \o r \in Seq(Spellings) /\ <<X>> \o r # <<>> /\ (<<X>> \o r)[1] = X
        /\ Head(<<X>> \o r) = X /\ Tail(<<X>> \o r) = r
    BY <1>1, InFront
  <2>3. p \o r \in Seq(Spellings) /\ p \o r # <<>> /\ (p \o r)[1] = p[1]
    BY <1>1, FirstOf
  <2>4. Settle(<<X>> \o r, t) = <<X>> \o r
    BY <2>1, <2>2, SettleStays
  <2>5. Settle(p \o r, t) = p \o r
    BY <1>2, <2>3, SettleStays
  <2>6. <<X>> \o r \notin {<<>>, Stuck}
    BY <1>1, NotStuck
  <2>7. p \o r \in ExpansionsOf(<<X>> \o r, t)
    BY <2>1, <2>2 DEF ExpansionsOf
  <2> QED
    BY <2>4, <2>5, <2>6, <2>7 DEF Becomes
<1>3. CASE t \notin First[p[1]]
  <2>1. p \o r = <<p[1]>> \o (Tail(p) \o r) /\ Tail(p) \o r \in Seq(Spellings)
    <3>1. p = <<p[1]>> \o Tail(p) /\ <<p[1]>> \in Seq(Spellings) /\ Tail(p) \in Seq(Spellings)
      BY <1>1, HeadInFront, InFront
    <3> QED
      BY <3>1, Regrouped
  <2>2. Settle(p \o r, t) = Stuck
    BY <1>1, <1>3, <2>1, SettleSticks
  <2>3. CASE X \notin Nullable
    <3>1. Settle(<<X>> \o r, t) = Stuck
      BY <1>1, <1>3, <2>3, SettleSticks
    <3> QED
      BY <2>2, <3>1 DEF Becomes
  <2>4. CASE X \in Nullable
    <3>1. Settle(<<X>> \o r, t) = Settle(r, t)
      BY <1>3, <2>4, SettleDrops
    <3> QED
      BY <1>3, <2>2, <2>4, <3>1 DEF Becomes
  <2> QED
    BY <2>3, <2>4
<1> QED
  BY <1>2, <1>3

LEMMA Dropping ==
  ASSUME NEW X \in Nullable, NEW r \in Seq(Spellings), NEW t, t \notin First[X]
  PROVE  Becomes(<<X>> \o r, r, t)
  BY SettleDrops DEF Becomes

LEMMA TakesTerminal ==
  ASSUME NEW t \in Terminals, NEW r \in Seq(Spellings)
  PROVE  Takes(<<t>> \o r, r, t)
<1> DEFINE s == <<t>> \o r
<1>1. t \in Symbols /\ t \in Spellings /\ t \in First[t]
  BY SymbolsAre, FirstIs, SymbolsSpelled
<1>2. s \in Seq(Spellings) /\ s # <<>> /\ s[1] = t /\ Head(s) = t /\ Tail(s) = r
  BY <1>1, InFront
<1>3. s \notin {<<>>, Stuck}
  BY <1>1, NotStuck
<1> HIDE DEF s
<1>4. Settle(s, t) = s
  BY <1>1, <1>2, SettleStays
<1>5. Takes(s, r, t)
  BY <1>2, <1>3, <1>4 DEF Takes
<1> QED
  BY <1>5 DEF s

LEMMA TakesFirst ==
  ASSUME NEW X \in Nonterminals, NEW p \in Productions[X], p # <<>>, p[1] \in Terminals,
         NEW r \in Seq(Spellings)
  PROVE  Takes(<<X>> \o r, Tail(p) \o r, p[1])
<1> DEFINE s == <<X>> \o r
           t == p[1]
<1>1. t \in First[p[1]]
  BY FirstIs
<1>2. p \in Predicted[X][t] /\ t \in First[X] /\ X \in Symbols /\ p \in Seq(Spellings)
  BY <1>1, Predicts
<1>3. s \in Seq(Spellings) /\ s # <<>> /\ s[1] = X /\ Head(s) = X /\ Tail(s) = r
  BY <1>2, InFront, SymbolsSpelled
<1>4. s \notin {<<>>, Stuck}
  BY <1>2, NotStuck
<1>5. p \o r # <<>> /\ Head(p \o r) = t /\ Tail(p \o r) = Tail(p) \o r
  <2>1. /\ p \o r # <<>> /\ (p \o r)[1] = t /\ Tail(p \o r) = Tail(p) \o r
        /\ p \o r \in Seq(Spellings)
    BY <1>2, FirstOf
  <2> QED
    BY <2>1, HeadInFront
<1> HIDE DEF s, t
<1>6. Settle(s, t) = s
  BY <1>2, <1>3, SettleStays
<1>7. p \o r \in ExpansionsOf(s, t)
  BY <1>2, <1>3 DEF ExpansionsOf
<1>8. Takes(s, Tail(p) \o r, t)
  BY <1>4, <1>5, <1>6, <1>7 DEF Takes
<1> QED
  BY <1>8 DEF s, t

-----------------------------------------------------------------------------
(* What an item derives.                                                   *)
LEMMA DerivingIs ==
  Deriving = {"program", "block", "stmts", "retval", "else", "params", "param",
              "moreparams", "expr", "prim", "name", "args"}
  BY DEF Derived, Deriving

LEMMA SymbolsIs ==
  ASSUME NEW x, NEW h
  PROVE  /\ x.op = "expect" => SymbolsOf(x, h) = <<x.tok>>
         /\ x.op = "rhs" => SymbolsOf(x, h) = Rests(x.n, h)
         /\ x.op = "inner" => SymbolsOf(x, h) = Rests(x.n + 1, h) \o Complete(x.n)
         /\ x.op \in Deriving => SymbolsOf(x, h) = Derived[x.op]
         /\ x.op \notin Deriving \cup {"expect", "rhs", "inner"} => SymbolsOf(x, h) = <<>>
  BY DerivingIs DEF SymbolsOf

LEMMA RestsSpelled ==
  ASSUME NEW n, NEW h
  PROVE  Rests(n, h) \in Seq(Spellings) /\ Complete(n) \in Seq(Spellings)
<1> DEFINE m == IF 13 \in n..h THEN <<"MulRest">> ELSE <<>>
           a == IF 12 \in n..h THEN <<"AddRest">> ELSE <<>>
           c == IF 10 \in n..h THEN <<"CmpRest">> ELSE <<>>
<1>1. /\ "MulRest" \in Spellings /\ "AddRest" \in Spellings /\ "CmpRest" \in Spellings
      /\ "Mul" \in Spellings /\ "Add" \in Spellings /\ "Cmp" \in Spellings
  BY NonterminalsAre, SymbolsAre, SymbolsSpelled
<1>2. <<"MulRest">> \in Seq(Spellings) /\ <<"AddRest">> \in Seq(Spellings)
  BY <1>1
<1>3. <<"CmpRest">> \in Seq(Spellings) /\ <<>> \in Seq(Spellings)
  BY <1>1
<1>4. m \in Seq(Spellings) /\ a \in Seq(Spellings) /\ c \in Seq(Spellings)
  BY <1>2, <1>3
<1>5. Rests(n, h) = m \o a \o c
  BY DEF Rests
<1> HIDE DEF m, a, c
<1>6. Rests(n, h) \in Seq(Spellings)
  BY <1>4, <1>5
<1>7. Complete(n) \in {<<"Mul">>, <<"Add">>, <<"Cmp">>}
  BY DEF Complete
<1>8. <<"Mul">> \in Seq(Spellings) /\ <<"Add">> \in Seq(Spellings) /\ <<"Cmp">> \in Seq(Spellings)
  BY <1>1
<1> QED
  BY <1>6, <1>7, <1>8

LEMMA ItemSpelled ==
  ASSUME NEW x \in Items, NEW h
  PROVE  SymbolsOf(x, h) \in Seq(Spellings)
<1>1. CASE x.op = "expect"
  <2>1. x.tok \in Spellings
    <3>1. AllTokens \cup {"END", ""} \subseteq Terminals \cup {"TYPE", ""}
      BY DEF AllTokens, Terminals
    <3> QED
      BY <3>1, SymbolsAre DEF Spellings, Items
  <2>2. SymbolsOf(x, h) = <<x.tok>>
    BY <1>1, SymbolsIs
  <2> QED
    BY <2>1, <2>2
<1>2. CASE x.op = "rhs"
  BY <1>2, SymbolsIs, RestsSpelled
<1>3. CASE x.op = "inner"
  <2>1. SymbolsOf(x, h) = Rests(x.n + 1, h) \o Complete(x.n)
    BY <1>3, SymbolsIs
  <2>2. Rests(x.n + 1, h) \in Seq(Spellings) /\ Complete(x.n) \in Seq(Spellings)
    BY RestsSpelled
  <2> QED
    BY <2>1, <2>2
<1>4. CASE x.op \in Deriving
  <2>1. \A op \in Deriving : \E X \in Nonterminals : Derived[op] = <<X>>
    BY DerivingIs, NonterminalsAre DEF Derived
  <2>2. \A X \in Nonterminals : <<X>> \in Seq(Spellings)
    BY SymbolsAre, SymbolsSpelled
  <2> QED
    BY <1>4, <2>1, <2>2, SymbolsIs
<1>5. CASE x.op \notin Deriving \cup {"expect", "rhs", "inner"}
  <2>1. SymbolsOf(x, h) = <<>>
    BY <1>5, SymbolsIs
  <2> QED
    BY <2>1
<1> QED
  BY <1>1, <1>2, <1>3, <1>4, <1>5

(* Behind is what its definition says: it is unfolded as often as a list   *)
(* is long.                                                                *)
Short(n) == {s \in Seq(Items) : Len(s) <= n}

BehindBy(f, s) ==
  IF Len(s) < 2 THEN <<>> ELSE SymbolsOf(s[2], Highest(s[1])) \o f[Tail(s)]

BehindTo(n) ==
  {f \in [Short(n) -> Seq(Spellings)] : \A s \in Short(n) : f[s] = BehindBy(f, s)}

LEMMA TailShort ==
  ASSUME NEW n \in Nat, NEW s \in Short(n + 1), ~(Len(s) < 2)
  PROVE  Tail(s) \in Short(n) /\ s[2] \in Items
  BY DEF Short

LEMMA BehindStep ==
  ASSUME NEW n \in Nat, NEW s \in Short(n + 1), NEW f \in [Short(n) -> Seq(Spellings)]
  PROVE  BehindBy(f, s) \in Seq(Spellings)
<1>1. CASE Len(s) < 2
  BY <1>1 DEF BehindBy
<1>2. CASE ~(Len(s) < 2)
  <2>1. f[Tail(s)] \in Seq(Spellings) /\ SymbolsOf(s[2], Highest(s[1])) \in Seq(Spellings)
    BY <1>2, TailShort, ItemSpelled
  <2> QED
    BY <1>2, <2>1 DEF BehindBy
<1> QED
  BY <1>1, <1>2

LEMMA BehindThere ==
  ASSUME NEW m \in Nat
  PROVE  BehindTo(m) # {}
<1> DEFINE S == {n \in Nat : BehindTo(n) # {}}
<1>1. 0 \in S
  <2> DEFINE f == [s \in Short(0) |-> <<>>]
  <2>1. \A s \in Short(0) : Len(s) < 2 /\ f[s] = <<>>
    BY DEF Short
  <2>2. <<>> \in Seq(Spellings)
    OBVIOUS
  <2>3. f \in [Short(0) -> Seq(Spellings)]
    BY <2>2
  <2> HIDE DEF f
  <2>4. f \in BehindTo(0)
    BY <2>1, <2>3 DEF BehindTo, BehindBy
  <2> QED
    BY <2>4
<1>2. ASSUME NEW n \in S PROVE n + 1 \in S
  <2>1. PICK f \in BehindTo(n) : TRUE
    OBVIOUS
  <2>2. n \in Nat /\ f \in [Short(n) -> Seq(Spellings)] /\ \A s \in Short(n) : f[s] = BehindBy(f, s)
    BY <2>1 DEF BehindTo
  <2> DEFINE g == [s \in Short(n + 1) |-> BehindBy(f, s)]
  <2>3. g \in [Short(n + 1) -> Seq(Spellings)]
    BY <2>2, BehindStep
  <2>4. \A s \in Short(n + 1) : g[s] = BehindBy(f, s)
    OBVIOUS
  <2> HIDE DEF g
  <2>5. \A s \in Short(n) : s \in Short(n + 1)
    BY <2>2 DEF Short
  <2>6. ASSUME NEW s \in Short(n + 1) PROVE g[s] = BehindBy(g, s)
    <3>1. CASE Len(s) < 2
      BY <2>4, <3>1 DEF BehindBy
    <3>2. CASE ~(Len(s) < 2)
      <4>1. Tail(s) \in Short(n)
        BY <2>2, <3>2, TailShort
      <4>2. g[Tail(s)] = f[Tail(s)]
        BY <2>2, <2>4, <2>5, <4>1
      <4> QED
        BY <2>4, <4>2 DEF BehindBy
    <3> QED
      BY <3>1, <3>2
  <2>7. g \in BehindTo(n + 1)
    BY <2>3, <2>6 DEF BehindTo
  <2> QED
    BY <2>2, <2>7
<1>3. S \in SUBSET Nat
  OBVIOUS
<1> HIDE DEF S
<1>4. m \in S
  BY <1>1, <1>2, <1>3, Induction
<1> QED
  BY <1>4 DEF S

LEMMA BehindAgrees ==
  ASSUME NEW m \in Nat, NEW n \in Nat, NEW f \in BehindTo(m), NEW g \in BehindTo(n),
         NEW k \in Nat
  PROVE  \A s \in Short(k) : s \in Short(m) /\ s \in Short(n) => f[s] = g[s]
<1> DEFINE S == {i \in Nat : \A s \in Short(i) : s \in Short(m) /\ s \in Short(n) => f[s] = g[s]}
<1>1. /\ \A s \in Short(m) : f[s] = BehindBy(f, s)
      /\ \A s \in Short(n) : g[s] = BehindBy(g, s)
  BY DEF BehindTo
<1>2. 0 \in S
  <2>1. \A s \in Short(0) : Len(s) < 2
    BY DEF Short
  <2> QED
    BY <1>1, <2>1 DEF BehindBy
<1>3. ASSUME NEW i \in S PROVE i + 1 \in S
  <2>0. i \in Nat /\ i + 1 \in Nat
    OBVIOUS
  <2> SUFFICES ASSUME NEW s \in Short(i + 1), s \in Short(m), s \in Short(n)
               PROVE  f[s] = g[s]
    BY <2>0
  <2>1. CASE Len(s) < 2
    BY <1>1, <2>1 DEF BehindBy
  <2>2. CASE ~(Len(s) < 2)
    <3>1. Tail(s) \in Short(i) /\ Tail(s) \in Short(m) /\ Tail(s) \in Short(n)
      BY <2>0, <2>2 DEF Short
    <3>2. f[Tail(s)] = g[Tail(s)]
      BY <3>1
    <3> QED
      BY <1>1, <3>2 DEF BehindBy
  <2> QED
    BY <2>1, <2>2
<1>4. S \in SUBSET Nat
  OBVIOUS
<1> HIDE DEF S
<1>5. k \in S
  BY <1>2, <1>3, <1>4, Induction
<1> QED
  BY <1>5 DEF S

LEMMA BehindFollows ==
  ASSUME NEW s \in Seq(Items)
  PROVE  Behind[s] = BehindBy(Behind, s)
<1> DEFINE f(n) == CHOOSE g \in BehindTo(n) : TRUE
           G == [t \in Seq(Items) |-> f(Len(t))[t]]
<1>1. \A n \in Nat : f(n) \in BehindTo(n)
  BY BehindThere
<1> HIDE DEF f
<1>2. \A t \in Seq(Items) : Len(t) \in Nat /\ t \in Short(Len(t))
  BY DEF Short
<1>3. \A t \in Seq(Items) : f(Len(t))[t] = BehindBy(f(Len(t)), t) /\ f(Len(t))[t] \in Seq(Spellings)
  BY <1>1, <1>2 DEF BehindTo
<1>4. \A t \in Seq(Items) : G[t] = f(Len(t))[t]
  OBVIOUS
<1>5. ASSUME NEW t \in Seq(Items) PROVE G[t] = BehindBy(G, t)
  <2>1. CASE Len(t) < 2
    BY <1>3, <1>4, <2>1 DEF BehindBy
  <2>2. CASE ~(Len(t) < 2)
    <3>1. Tail(t) \in Seq(Items) /\ Len(Tail(t)) <= Len(t)
      BY <2>2
    <3>2. /\ Tail(t) \in Short(Len(t)) /\ Tail(t) \in Short(Len(Tail(t)))
          /\ Len(t) \in Nat /\ Len(Tail(t)) \in Nat
      BY <1>2, <3>1 DEF Short
    <3>3. f(Len(t))[Tail(t)] = f(Len(Tail(t)))[Tail(t)]
      BY <1>1, <3>2, BehindAgrees
    <3>4. G[Tail(t)] = f(Len(t))[Tail(t)]
      BY <1>4, <3>1, <3>3
    <3> HIDE DEF G
    <3> QED
      BY <1>3, <1>4, <3>4 DEF BehindBy
  <2> QED
    BY <2>1, <2>2
<1>6. G = [t \in Seq(Items) |-> IF Len(t) < 2 THEN <<>>
                                ELSE SymbolsOf(t[2], Highest(t[1])) \o G[Tail(t)]]
  <2>1. G = [t \in Seq(Items) |-> G[t]]
    OBVIOUS
  <2> HIDE DEF G
  <2> QED
    BY <1>5, <2>1 DEF BehindBy
<1> HIDE DEF G
<1>7. Behind = [t \in Seq(Items) |-> IF Len(t) < 2 THEN <<>>
                                     ELSE SymbolsOf(t[2], Highest(t[1])) \o Behind[Tail(t)]]
  BY <1>6 DEF Behind
<1>8. Behind[s] = BehindBy(Behind, s)
  BY <1>7 DEF BehindBy
<1> QED
  BY <1>8

LEMMA BehindIs ==
  ASSUME NEW s \in Seq(Items)
  PROVE  Behind[s] = BehindBy(Behind, s) /\ Behind[s] \in Seq(Spellings)
<1> DEFINE S == {n \in Nat : \A t \in Short(n) : Behind[t] \in Seq(Spellings)}
<1>1. \A n \in Nat : \A t \in Short(n) : t \in Seq(Items) /\ Behind[t] = BehindBy(Behind, t)
  BY BehindFollows DEF Short
<1>2. 0 \in S
  <2>1. \A t \in Short(0) : Len(t) < 2
    BY DEF Short
  <2>2. <<>> \in Seq(Spellings)
    OBVIOUS
  <2>3. \A t \in Short(0) : Behind[t] \in Seq(Spellings)
    BY <1>1, <2>1, <2>2 DEF BehindBy
  <2> QED
    BY <2>3
<1>3. ASSUME NEW n \in S PROVE n + 1 \in S
  <2>0. n \in Nat /\ n + 1 \in Nat /\ \A t \in Short(n) : Behind[t] \in Seq(Spellings)
    OBVIOUS
  <2>1. ASSUME NEW t \in Short(n + 1) PROVE Behind[t] \in Seq(Spellings)
    <3>1. CASE Len(t) < 2
      <4>1. Behind[t] = <<>>
        BY <1>1, <2>0, <3>1 DEF BehindBy
      <4> QED
        BY <4>1
    <3>2. CASE ~(Len(t) < 2)
      <4>1. Behind[Tail(t)] \in Seq(Spellings) /\ SymbolsOf(t[2], Highest(t[1])) \in Seq(Spellings)
        BY <2>0, <3>2, TailShort, ItemSpelled
      <4>2. Behind[t] = SymbolsOf(t[2], Highest(t[1])) \o Behind[Tail(t)]
        BY <1>1, <2>0, <3>2 DEF BehindBy
      <4> QED
        BY <4>1, <4>2
    <3> QED
      BY <3>1, <3>2
  <2> QED
    BY <2>0, <2>1
<1>4. S \in SUBSET Nat
  OBVIOUS
<1>5. Len(s) \in Nat /\ s \in Short(Len(s))
  BY DEF Short
<1> HIDE DEF S
<1>6. Len(s) \in S
  BY <1>2, <1>3, <1>4, <1>5, Induction
<1> QED
  BY <1>5, <1>6, BehindFollows DEF S

(* What a list derives, if operators from highest on are left to it.       *)
WordsOf(s, highest) == IF s = <<>> THEN <<>> ELSE SymbolsOf(s[1], highest) \o Behind[s]

LEMMA WordsIs ==
  ASSUME NEW x \in Items, NEW s \in Seq(Items), NEW h
  PROVE  /\ WordsOf(<<x>> \o s, h) = SymbolsOf(x, h) \o WordsOf(s, Highest(x))
         /\ WordsOf(s, h) \in Seq(Spellings)
<1> DEFINE u == <<x>> \o s
<1>1. u \in Seq(Items) /\ u # <<>> /\ u[1] = x /\ Tail(u) = s /\ Len(u) = Len(s) + 1
  BY InFront
<1>2. s # <<>> => u[2] = s[1] /\ Len(u) >= 2 /\ s[1] \in Items
  BY <1>1
<1>3. s = <<>> => Len(u) < 2
  BY <1>1
<1> HIDE DEF u
<1>4. Behind[u] = BehindBy(Behind, u)
  BY <1>1, BehindIs
<1>5. Behind[u] = WordsOf(s, Highest(x))
  <2>1. CASE s = <<>>
    BY <1>3, <1>4, <2>1 DEF BehindBy, WordsOf
  <2>2. CASE s # <<>>
    <3>1. Behind[u] = SymbolsOf(u[2], Highest(u[1])) \o Behind[Tail(u)]
      BY <1>1, <1>2, <1>4, <2>2 DEF BehindBy
    <3>2. WordsOf(s, Highest(x)) = SymbolsOf(s[1], Highest(x)) \o Behind[s]
      BY <2>2 DEF WordsOf
    <3> QED
      BY <1>1, <1>2, <2>2, <3>1, <3>2
  <2> QED
    BY <2>1, <2>2
<1>6. WordsOf(u, h) = SymbolsOf(x, h) \o Behind[u]
  BY <1>1 DEF WordsOf
<1>7. WordsOf(s, h) \in Seq(Spellings)
  <2>1. CASE s # <<>>
    <3>1. SymbolsOf(s[1], h) \in Seq(Spellings) /\ Behind[s] \in Seq(Spellings)
      BY <1>2, <2>1, BehindIs, ItemSpelled
    <3> QED
      BY <2>1, <3>1 DEF WordsOf
  <2> QED
    BY <2>1 DEF WordsOf
<1> QED
  BY <1>5, <1>6, <1>7 DEF u

(* The items p in front of any others put the symbols q in front of what   *)
(* those derive.                                                           *)
Spells(p, q) ==
  /\ p \in Seq(Items) /\ q \in Seq(Spellings)
  /\ \A s \in Seq(Items) : WordsOf(p \o s, 15) = q \o WordsOf(s, 15)

LEMMA SpellsNothing ==
  Spells(<<>>, <<>>)
<1>1. \A s \in Seq(Items) : <<>> \o s = s /\ <<>> \o WordsOf(s, 15) = WordsOf(s, 15)
  <2> TAKE s \in Seq(Items)
  <2>1. WordsOf(s, 15) \in Seq(Spellings)
    <3>1. PICK x \in Items : TRUE
      BY ItemFields DEF Ops
    <3> QED
      BY <3>1, WordsIs
  <2> QED
    BY <2>1, NoneAround
<1>2. <<>> \in Seq(Items) /\ <<>> \in Seq(Spellings)
  OBVIOUS
<1> QED
  BY <1>1, <1>2 DEF Spells

LEMMA SpellsItem ==
  ASSUME NEW x \in Items, Highest(x) = 15
  PROVE  Spells(<<x>>, SymbolsOf(x, 15))
<1>1. <<x>> \in Seq(Items) /\ SymbolsOf(x, 15) \in Seq(Spellings)
  BY InFront, ItemSpelled
<1> QED
  BY <1>1, WordsIs DEF Spells

LEMMA SpellsBoth ==
  ASSUME NEW p, NEW q, NEW r, NEW t, Spells(p, q), Spells(r, t)
  PROVE  Spells(p \o r, q \o t)
<1>1. /\ p \in Seq(Items) /\ q \in Seq(Spellings) /\ r \in Seq(Items) /\ t \in Seq(Spellings)
      /\ p \o r \in Seq(Items) /\ q \o t \in Seq(Spellings)
  BY DEF Spells
<1>2. ASSUME NEW s \in Seq(Items)
      PROVE  WordsOf((p \o r) \o s, 15) = (q \o t) \o WordsOf(s, 15)
  <2>1. (p \o r) \o s = p \o (r \o s) /\ r \o s \in Seq(Items)
    <3>1. Associate(p, r, s) /\ r \o s \in Seq(Items)
      BY <1>1, Associated, Joined, Zenon
    <3> QED
      BY <3>1, Zenon DEF Associate
  <2>2. WordsOf(p \o (r \o s), 15) = q \o WordsOf(r \o s, 15)
    BY <2>1 DEF Spells
  <2>3. WordsOf(r \o s, 15) = t \o WordsOf(s, 15)
    BY DEF Spells
  <2>4. WordsOf(s, 15) \in Seq(Spellings)
    <3>1. PICK x \in Items : TRUE
      BY ItemFields DEF Ops
    <3> QED
      BY <3>1, WordsIs
  <2>5. Associate(q, t, WordsOf(s, 15))
    BY <1>1, <2>4, Associated, Zenon
  <2> QED
    BY <2>1, <2>2, <2>3, <2>5, Zenon DEF Associate
<1> QED
  BY <1>1, <1>2 DEF Spells

LEMMA Calls ==
  ASSUME NEW x \in Items
  PROVE  /\ x.op \in Deriving => Spells(<<x>>, Derived[x.op])
         /\ x.op \notin Deriving \cup {"expect", "rhs", "inner"} => Spells(<<x>>, <<>>)
         /\ x.op = "expect" => Spells(<<x>>, <<x.tok>>)
<1>1. x.op \notin {"rhs", "inner"} => Highest(x) = 15
  BY DEF Highest
<1>2. x.op \in Deriving => x.op \notin {"rhs", "inner"}
  BY DerivingIs
<1> QED
  BY <1>1, <1>2, SpellsItem, SymbolsIs

(* Item by item: the first k items of p spell the first j symbols of q.    *)
SpelledTo(p, k, q, j) ==
  /\ p \in Seq(Items) /\ q \in Seq(Spellings)
  /\ Spells(SubSeq(p, 1, k), SubSeq(q, 1, j))

Spelled(p, k, q, j) ==
  k \in 1..Len(p) /\ j \in 1..Len(q) /\ Spells(<<p[k]>>, <<q[j]>>)

Silent(p, k) == k \in 1..Len(p) /\ Spells(<<p[k]>>, <<>>)

After(k, i) == k \in Nat /\ i = k + 1

Texts(p, m, q, n) ==
  p \in Seq(Items) /\ Len(p) = m /\ q \in Seq(Spellings) /\ Len(q) = n

LEMMA Counting ==
  /\ After(0, 1) /\ After(1, 2) /\ After(2, 3) /\ After(3, 4) /\ After(4, 5)
  /\ After(5, 6) /\ After(6, 7) /\ After(7, 8) /\ After(8, 9) /\ After(9, 10)
  /\ After(10, 11)
  BY DEF After

LEMMA OneMore ==
  ASSUME NEW S, NEW s \in Seq(S), NEW k \in 0..(Len(s) - 1)
  PROVE  /\ SubSeq(s, 1, k + 1) = SubSeq(s, 1, k) \o <<s[k + 1]>>
         /\ SubSeq(s, 1, k) \in Seq(S) /\ s[k + 1] \in S
         /\ SubSeq(s, 1, 0) = <<>> /\ SubSeq(s, 1, Len(s)) = s
<1> DEFINE u == SubSeq(s, 1, k + 1)
           v == SubSeq(s, 1, k)
           w == v \o <<s[k + 1]>>
<1>1. Len(s) \in Nat /\ k \in Nat /\ k + 1 \in 1..Len(s) /\ s[k + 1] \in S
  OBVIOUS
<1>2. u \in Seq(S) /\ Len(u) = k + 1 /\ \A i \in 1..(k + 1) : u[i] = s[i]
  BY <1>1
<1>3. v \in Seq(S) /\ Len(v) = k /\ \A i \in 1..k : v[i] = s[i]
  BY <1>1
<1>4. <<s[k + 1]>> \in Seq(S) /\ Len(<<s[k + 1]>>) = 1 /\ <<s[k + 1]>>[1] = s[k + 1]
  BY <1>1
<1> HIDE DEF u, v
<1>5. w \in Seq(S) /\ Len(w) = k + 1 /\ w[k + 1] = s[k + 1] /\ \A i \in 1..k : w[i] = s[i]
  BY <1>1, <1>3, <1>4
<1> HIDE DEF w
<1>6. \A i \in 1..(k + 1) : u[i] = w[i]
  BY <1>1, <1>2, <1>5
<1>7. u = w
  BY <1>2, <1>5, <1>6, SameSequence
<1>8. SubSeq(s, 1, 0) = <<>> /\ SubSeq(s, 1, Len(s)) = s
  BY <1>1
<1> QED
  BY <1>1, <1>3, <1>7, <1>8 DEF u, v, w

LEMMA SpellingStarts ==
  ASSUME NEW p, NEW m, NEW q, NEW n, Texts(p, m, q, n)
  PROVE  /\ SpelledTo(p, 0, q, 0)
         /\ SpelledTo(p, m, q, n) => Spells(p, q)
<1>1. p \in Seq(Items) /\ Len(p) = m /\ q \in Seq(Spellings) /\ Len(q) = n
  BY DEF Texts
<1>2. /\ SubSeq(p, 1, 0) = <<>> /\ SubSeq(q, 1, 0) = <<>>
      /\ SubSeq(p, 1, m) = p /\ SubSeq(q, 1, n) = q
  BY <1>1
<1> QED
  BY <1>1, <1>2, SpellsNothing DEF SpelledTo

LEMMA SpellingGoesOn ==
  ASSUME NEW p, NEW k, NEW q, NEW j, SpelledTo(p, k, q, j),
         NEW i, NEW l, Spelled(p, i, q, l), After(k, i), After(j, l)
  PROVE  SpelledTo(p, i, q, l)
<1>1. /\ p \in Seq(Items) /\ q \in Seq(Spellings)
      /\ k \in 0..(Len(p) - 1) /\ i = k + 1 /\ j \in 0..(Len(q) - 1) /\ l = j + 1
  BY DEF SpelledTo, Spelled, After
<1>2. SubSeq(p, 1, i) = SubSeq(p, 1, k) \o <<p[i]>>
  BY <1>1, OneMore
<1>3. SubSeq(q, 1, l) = SubSeq(q, 1, j) \o <<q[l]>>
  BY <1>1, OneMore
<1> QED
  BY <1>1, <1>2, <1>3, SpellsBoth DEF SpelledTo, Spelled

LEMMA SpellingWaits ==
  ASSUME NEW p, NEW k, NEW q, NEW j, SpelledTo(p, k, q, j),
         NEW i, Silent(p, i), After(k, i)
  PROVE  SpelledTo(p, i, q, j)
<1>1. /\ p \in Seq(Items) /\ q \in Seq(Spellings)
      /\ k \in 0..(Len(p) - 1) /\ i = k + 1
  BY DEF SpelledTo, Silent, After
<1>2. SubSeq(p, 1, i) = SubSeq(p, 1, k) \o <<p[i]>>
  BY <1>1, OneMore
<1>3. SubSeq(q, 1, j) \o <<>> = SubSeq(q, 1, j)
  BY NoneAround DEF SpelledTo, Spells
<1> QED
  BY <1>1, <1>2, <1>3, SpellsBoth DEF SpelledTo, Silent

(* What the routines of the parser spell.                                  *)
LEMMA TokensSpell ==
  ASSUME NEW tok \in AllTokens \cup {"END"}
  PROVE  /\ Expect(tok) \in Items /\ tok \in Spellings
         /\ Spells(<<Expect(tok)>>, <<tok>>)
<1>1. Expect(tok) \in Items /\ Expect(tok).op = "expect" /\ Expect(tok).tok = tok
  BY ExpectFields
<1>2. Spells(<<Expect(tok)>>, <<tok>>)
  BY <1>1, Calls
<1>3. tok \in Spellings
  BY SymbolsAre, SymbolsSpelled DEF Spellings
<1> QED
  BY <1>1, <1>2, <1>3

LEMMA RoutinesSpell ==
  /\ Spells(IfStmt, <<"IF", "OBRACE", "Expr", "CBRACE", "Block", "Else">>)
  /\ Spells(VarDecl, Variable)
  /\ Spells(ForStmt, <<"FOR", "OBRACE", "NAME", "ASSIGN", "Expr", "SEMICOLON", "Expr",
                       "SEMICOLON", "Expr", "CBRACE", "Block">>)
  /\ Spells(FunctionDef, Header \o <<"Block">>)
  /\ Spells(ExternDef, (<<"EXTERN">> \o Header) \o <<"SEMICOLON">>)
  /\ Spells(ExprStmt, <<"Expr", "SEMICOLON">>)
  /\ Spells(BlockBody, <<"OCBRACE", "Stmts", "CCBRACE">>)
<1>1. /\ \A tok \in {"IF", "OBRACE", "CBRACE", "FOR", "NAME", "ASSIGN", "SEMICOLON",
                     "VAR", "COLON", "FUNCTION", "RETTYPE", "EXTERN",
                     "OCBRACE", "CCBRACE"} :
           /\ Expect(tok) \in Items /\ tok \in Spellings
           /\ Spells(<<Expect(tok)>>, <<tok>>)
  BY TokensSpell DEF AllTokens
<1>2. /\ Item("expr") \in Items /\ Spells(<<Item("expr")>>, <<"Expr">>) /\ "Expr" \in Spellings
      /\ Item("block") \in Items /\ Spells(<<Item("block")>>, <<"Block">>) /\ "Block" \in Spellings
      /\ Item("else") \in Items /\ Spells(<<Item("else")>>, <<"Else">>) /\ "Else" \in Spellings
      /\ Item("params") \in Items /\ Spells(<<Item("params")>>, <<"Params">>)
      /\ Item("stmts") \in Items /\ Spells(<<Item("stmts")>>, <<"Stmts">>)
      /\ "Params" \in Spellings /\ "Stmts" \in Spellings
  <2>1. {"expr", "block", "else", "params", "stmts"} \subseteq Ops \cap Deriving
    BY DerivingIs DEF Ops
  <2>2. \A op \in {"expr", "block", "else", "params", "stmts"} :
          Item(op) \in Items /\ Spells(<<Item(op)>>, Derived[op])
    BY <2>1, ItemFields, Calls
  <2>3. /\ Derived["expr"] = <<"Expr">> /\ Derived["block"] = <<"Block">>
        /\ Derived["else"] = <<"Else">> /\ Derived["params"] = <<"Params">>
        /\ Derived["stmts"] = <<"Stmts">>
    BY DEF Derived
  <2>4. {"Expr", "Block", "Else", "Params", "Stmts"} \subseteq Spellings
    BY NonterminalsAre, SymbolsAre, SymbolsSpelled
  <2> QED
    BY <2>2, <2>3, <2>4
<1>3. \A op \in {"typename", "typecheck", "funname", "define", "endblock"} :
        Item(op) \in Items /\ Spells(<<Item(op)>>, <<>>)
  <2>1. \A op \in {"typename", "typecheck", "funname", "define", "endblock"} :
          op \in Ops /\ op \notin Deriving \cup {"expect", "rhs", "inner"}
    BY DerivingIs DEF Ops
  <2> QED
    BY <2>1, ItemFields, Calls
<1>4. Spells(IfStmt, <<"IF", "OBRACE", "Expr", "CBRACE", "Block", "Else">>)
  <2> DEFINE p == IfStmt
             q == <<"IF", "OBRACE", "Expr", "CBRACE", "Block", "Else">>
  <2>1. Texts(p, 6, q, 6)
    BY <1>1, <1>2 DEF IfStmt, Texts
  <2>2. /\ Spelled(p, 1, q, 1) /\ Spelled(p, 2, q, 2) /\ Spelled(p, 3, q, 3)
        /\ Spelled(p, 4, q, 4) /\ Spelled(p, 5, q, 5) /\ Spelled(p, 6, q, 6)
    BY <1>1, <1>2 DEF IfStmt, Spelled, Silent
  <2> HIDE DEF p, q
  <2>3. SpelledTo(p, 0, q, 0)
    BY <2>1, SpellingStarts, Zenon
  <2>4. SpelledTo(p, 1, q, 1)
    BY <2>2, <2>3, Counting, SpellingGoesOn, Zenon
  <2>5. SpelledTo(p, 2, q, 2)
    BY <2>2, <2>4, Counting, SpellingGoesOn, Zenon
  <2>6. SpelledTo(p, 3, q, 3)
    BY <2>2, <2>5, Counting, SpellingGoesOn, Zenon
  <2>7. SpelledTo(p, 4, q, 4)
    BY <2>2, <2>6, Counting, SpellingGoesOn, Zenon
  <2>8. SpelledTo(p, 5, q, 5)
    BY <2>2, <2>7, Counting, SpellingGoesOn, Zenon
  <2>9. SpelledTo(p, 6, q, 6)
    BY <2>2, <2>8, Counting, SpellingGoesOn, Zenon
  <2>10. Spells(p, q)
    BY <2>1, <2>9, SpellingStarts, Zenon
  <2> QED
    BY <2>10 DEF p, q
<1>5. Spells(VarDecl, Variable)
  <2> DEFINE p == VarDecl
             q == Variable
  <2>1. Texts(p, 9, q, 7)
    BY <1>1, <1>2, <1>3 DEF VarDecl, Variable, Texts
  <2>2. /\ Spelled(p, 1, q, 1) /\ Spelled(p, 2, q, 2) /\ Spelled(p, 3, q, 3)
        /\ Silent(p, 4) /\ Spelled(p, 5, q, 4) /\ Spelled(p, 6, q, 5)
        /\ Spelled(p, 7, q, 6) /\ Spelled(p, 8, q, 7) /\ Silent(p, 9)
    BY <1>1, <1>2, <1>3 DEF VarDecl, Variable, Spelled, Silent
  <2> HIDE DEF p, q
  <2>3. SpelledTo(p, 0, q, 0)
    BY <2>1, SpellingStarts, Zenon
  <2>4. SpelledTo(p, 1, q, 1)
    BY <2>2, <2>3, Counting, SpellingGoesOn, Zenon
  <2>5. SpelledTo(p, 2, q, 2)
    BY <2>2, <2>4, Counting, SpellingGoesOn, Zenon
  <2>6. SpelledTo(p, 3, q, 3)
    BY <2>2, <2>5, Counting, SpellingGoesOn, Zenon
  <2>7. SpelledTo(p, 4, q, 3)
    BY <2>2, <2>6, Counting, SpellingWaits, Zenon
  <2>8. SpelledTo(p, 5, q, 4)
    BY <2>2, <2>7, Counting, SpellingGoesOn, Zenon
  <2>9. SpelledTo(p, 6, q, 5)
    BY <2>2, <2>8, Counting, SpellingGoesOn, Zenon
  <2>10. SpelledTo(p, 7, q, 6)
    BY <2>2, <2>9, Counting, SpellingGoesOn, Zenon
  <2>11. SpelledTo(p, 8, q, 7)
    BY <2>2, <2>10, Counting, SpellingGoesOn, Zenon
  <2>12. SpelledTo(p, 9, q, 7)
    BY <2>2, <2>11, Counting, SpellingWaits, Zenon
  <2>13. Spells(p, q)
    BY <2>1, <2>12, SpellingStarts, Zenon
  <2> QED
    BY <2>13 DEF p, q
<1>6. Spells(ForStmt, <<"FOR", "OBRACE", "NAME", "ASSIGN", "Expr", "SEMICOLON", "Expr", "SEMICOLON", "Expr", "CBRACE", "Block">>)
  <2> DEFINE p == ForStmt
             q == <<"FOR", "OBRACE", "NAME", "ASSIGN", "Expr", "SEMICOLON", "Expr", "SEMICOLON", "Expr", "CBRACE", "Block">>
  <2>1. Texts(p, 11, q, 11)
    BY <1>1, <1>2 DEF ForStmt, Texts
  <2>2. /\ Spelled(p, 1, q, 1) /\ Spelled(p, 2, q, 2) /\ Spelled(p, 3, q, 3)
        /\ Spelled(p, 4, q, 4) /\ Spelled(p, 5, q, 5) /\ Spelled(p, 6, q, 6)
        /\ Spelled(p, 7, q, 7) /\ Spelled(p, 8, q, 8) /\ Spelled(p, 9, q, 9)
        /\ Spelled(p, 10, q, 10) /\ Spelled(p, 11, q, 11)
    BY <1>1, <1>2 DEF ForStmt, Spelled, Silent
  <2> HIDE DEF p, q
  <2>3. SpelledTo(p, 0, q, 0)
    BY <2>1, SpellingStarts, Zenon
  <2>4. SpelledTo(p, 1, q, 1)
    BY <2>2, <2>3, Counting, SpellingGoesOn, Zenon
  <2>5. SpelledTo(p, 2, q, 2)
    BY <2>2, <2>4, Counting, SpellingGoesOn, Zenon
  <2>6. SpelledTo(p, 3, q, 3)
    BY <2>2, <2>5, Counting, SpellingGoesOn, Zenon
  <2>7. SpelledTo(p, 4, q, 4)
    BY <2>2, <2>6, Counting, SpellingGoesOn, Zenon
  <2>8. SpelledTo(p, 5, q, 5)
    BY <2>2, <2>7, Counting, SpellingGoesOn, Zenon
  <2>9. SpelledTo(p, 6, q, 6)
    BY <2>2, <2>8, Counting, SpellingGoesOn, Zenon
  <2>10. SpelledTo(p, 7, q, 7)
    BY <2>2, <2>9, Counting, SpellingGoesOn, Zenon
  <2>11. SpelledTo(p, 8, q, 8)
    BY <2>2, <2>10, Counting, SpellingGoesOn, Zenon
  <2>12. SpelledTo(p, 9, q, 9)
    BY <2>2, <2>11, Counting, SpellingGoesOn, Zenon
  <2>13. SpelledTo(p, 10, q, 10)
    BY <2>2, <2>12, Counting, SpellingGoesOn, Zenon
  <2>14. SpelledTo(p, 11, q, 11)
    BY <2>2, <2>13, Counting, SpellingGoesOn, Zenon
  <2>15. Spells(p, q)
    BY <2>1, <2>14, SpellingStarts, Zenon
  <2> QED
    BY <2>15 DEF p, q
<1>7. Spells(FunctionDecl, Header)
  <2> DEFINE p == FunctionDecl
             q == Header
  <2>1. Texts(p, 9, q, 6)
    BY <1>1, <1>2, <1>3 DEF FunctionDecl, Header, Texts
  <2>2. /\ Spelled(p, 1, q, 1) /\ Silent(p, 2) /\ Spelled(p, 3, q, 2)
        /\ Spelled(p, 4, q, 3) /\ Spelled(p, 5, q, 4) /\ Spelled(p, 6, q, 5)
        /\ Silent(p, 7) /\ Spelled(p, 8, q, 6) /\ Silent(p, 9)
    BY <1>1, <1>2, <1>3 DEF FunctionDecl, Header, Spelled, Silent
  <2> HIDE DEF p, q
  <2>3. SpelledTo(p, 0, q, 0)
    BY <2>1, SpellingStarts, Zenon
  <2>4. SpelledTo(p, 1, q, 1)
    BY <2>2, <2>3, Counting, SpellingGoesOn, Zenon
  <2>5. SpelledTo(p, 2, q, 1)
    BY <2>2, <2>4, Counting, SpellingWaits, Zenon
  <2>6. SpelledTo(p, 3, q, 2)
    BY <2>2, <2>5, Counting, SpellingGoesOn, Zenon
  <2>7. SpelledTo(p, 4, q, 3)
    BY <2>2, <2>6, Counting, SpellingGoesOn, Zenon
  <2>8. SpelledTo(p, 5, q, 4)
    BY <2>2, <2>7, Counting, SpellingGoesOn, Zenon
  <2>9. SpelledTo(p, 6, q, 5)
    BY <2>2, <2>8, Counting, SpellingGoesOn, Zenon
  <2>10. SpelledTo(p, 7, q, 5)
    BY <2>2, <2>9, Counting, SpellingWaits, Zenon
  <2>11. SpelledTo(p, 8, q, 6)
    BY <2>2, <2>10, Counting, SpellingGoesOn, Zenon
  <2>12. SpelledTo(p, 9, q, 6)
    BY <2>2, <2>11, Counting, SpellingWaits, Zenon
  <2>13. Spells(p, q)
    BY <2>1, <2>12, SpellingStarts, Zenon
  <2> QED
    BY <2>13 DEF p, q
<1>8. Spells(ExprStmt, <<"Expr", "SEMICOLON">>)
  <2> DEFINE p == ExprStmt
             q == <<"Expr", "SEMICOLON">>
  <2>1. Texts(p, 2, q, 2)
    BY <1>1, <1>2 DEF ExprStmt, Texts
  <2>2. /\ Spelled(p, 1, q, 1) /\ Spelled(p, 2, q, 2)
    BY <1>1, <1>2 DEF ExprStmt, Spelled, Silent
  <2> HIDE DEF p, q
  <2>3. SpelledTo(p, 0, q, 0)
    BY <2>1, SpellingStarts, Zenon
  <2>4. SpelledTo(p, 1, q, 1)
    BY <2>2, <2>3, Counting, SpellingGoesOn, Zenon
  <2>5. SpelledTo(p, 2, q, 2)
    BY <2>2, <2>4, Counting, SpellingGoesOn, Zenon
  <2>6. Spells(p, q)
    BY <2>1, <2>5, SpellingStarts, Zenon
  <2> QED
    BY <2>6 DEF p, q
<1>9. Spells(BlockBody, <<"OCBRACE", "Stmts", "CCBRACE">>)
  <2> DEFINE p == BlockBody
             q == <<"OCBRACE", "Stmts", "CCBRACE">>
  <2>1. Texts(p, 4, q, 3)
    BY <1>1, <1>2, <1>3 DEF BlockBody, Texts
  <2>2. /\ Spelled(p, 1, q, 1) /\ Spelled(p, 2, q, 2) /\ Spelled(p, 3, q, 3)
        /\ Silent(p, 4)
    BY <1>1, <1>2, <1>3 DEF BlockBody, Spelled, Silent
  <2> HIDE DEF p, q
  <2>3. SpelledTo(p, 0, q, 0)
    BY <2>1, SpellingStarts, Zenon
  <2>4. SpelledTo(p, 1, q, 1)
    BY <2>2, <2>3, Counting, SpellingGoesOn, Zenon
  <2>5. SpelledTo(p, 2, q, 2)
    BY <2>2, <2>4, Counting, SpellingGoesOn, Zenon
  <2>6. SpelledTo(p, 3, q, 3)
    BY <2>2, <2>5, Counting, SpellingGoesOn, Zenon
  <2>7. SpelledTo(p, 4, q, 3)
    BY <2>2, <2>6, Counting, SpellingWaits, Zenon
  <2>8. Spells(p, q)
    BY <2>1, <2>7, SpellingStarts, Zenon
  <2> QED
    BY <2>8 DEF p, q
<1>10. Spells(<<Item("define"), Item("block")>>, <<"Block">>)
  <2> DEFINE p == <<Item("define"), Item("block")>>
             q == <<"Block">>
  <2>1. Texts(p, 2, q, 1)
    BY <1>2, <1>3 DEF Texts
  <2>2. /\ Silent(p, 1) /\ Spelled(p, 2, q, 1)
    BY <1>2, <1>3 DEF Spelled, Silent
  <2> HIDE DEF p, q
  <2>3. SpelledTo(p, 0, q, 0)
    BY <2>1, SpellingStarts, Zenon
  <2>4. SpelledTo(p, 1, q, 0)
    BY <2>2, <2>3, Counting, SpellingWaits, Zenon
  <2>5. SpelledTo(p, 2, q, 1)
    BY <2>2, <2>4, Counting, SpellingGoesOn, Zenon
  <2>6. Spells(p, q)
    BY <2>1, <2>5, SpellingStarts, Zenon
  <2> QED
    BY <2>6 DEF p, q
<1>11. Spells(<<Item("define"), Expect("SEMICOLON")>>, <<"SEMICOLON">>)
  <2> DEFINE p == <<Item("define"), Expect("SEMICOLON")>>
             q == <<"SEMICOLON">>
  <2>1. Texts(p, 2, q, 1)
    BY <1>1, <1>3 DEF Texts
  <2>2. /\ Silent(p, 1) /\ Spelled(p, 2, q, 1)
    BY <1>1, <1>3 DEF Spelled, Silent
  <2> HIDE DEF p, q
  <2>3. SpelledTo(p, 0, q, 0)
    BY <2>1, SpellingStarts, Zenon
  <2>4. SpelledTo(p, 1, q, 0)
    BY <2>2, <2>3, Counting, SpellingWaits, Zenon
  <2>5. SpelledTo(p, 2, q, 1)
    BY <2>2, <2>4, Counting, SpellingGoesOn, Zenon
  <2>6. Spells(p, q)
    BY <2>1, <2>5, SpellingStarts, Zenon
  <2> QED
    BY <2>6 DEF p, q
<1>12. Spells(FunctionDef, Header \o <<"Block">>)
  BY <1>7, <1>10, SpellsBoth DEF FunctionDef
<1>13. Spells(ExternDef, (<<"EXTERN">> \o Header) \o <<"SEMICOLON">>)
  <2>1. Spells(<<Expect("EXTERN")>>, <<"EXTERN">>)
    BY <1>1
  <2>2. Spells(<<Expect("EXTERN")>> \o FunctionDecl, <<"EXTERN">> \o Header)
    BY <1>7, <2>1, SpellsBoth
  <2>3. ExternDef = (<<Expect("EXTERN")>> \o FunctionDecl) \o <<Item("define"), Expect("SEMICOLON")>>
    BY DEF ExternDef
  <2> QED
    BY <1>11, <2>2, <2>3, SpellsBoth
<1> QED
  BY <1>4, <1>5, <1>6, <1>8, <1>9, <1>12, <1>13

(* The sequence t is s and x behind it.                                    *)
Extends(S, t, s, x) ==
  /\ s \in Seq(S) /\ t \in Seq(S) /\ x \in S
  /\ Len(t) = Len(s) + 1 /\ t[Len(s) + 1] = x
  /\ \A i \in 1..Len(s) : t[i] = s[i]

LEMMA Extended ==
  ASSUME NEW S, NEW s, NEW t, NEW x, Extends(S, t, s, x)
  PROVE  s \o <<x>> = t
<1> DEFINE u == s \o <<x>>
<1>1. s \in Seq(S) /\ t \in Seq(S) /\ x \in S /\ Len(s) \in Nat
  BY DEF Extends
<1>2. <<x>> \in Seq(S) /\ Len(<<x>>) = 1 /\ <<x>>[1] = x
  BY <1>1
<1>3. u \in Seq(S) /\ Len(u) = Len(s) + 1 /\ u[Len(s) + 1] = x
      /\ \A i \in 1..Len(s) : u[i] = s[i]
  BY <1>1, <1>2, Concatenated
<1> HIDE DEF u
<1>4. Len(t) = Len(u) /\ \A i \in 1..Len(u) : u[i] = t[i]
  BY <1>1, <1>3 DEF Extends
<1>5. u = t
  BY <1>1, <1>3, <1>4, SameSequence
<1> QED
  BY <1>5 DEF u

(* Concatenations that productions are written as.                         *)
LEMMA Literals ==
  /\ <<"IF", "OBRACE", "Expr", "CBRACE", "Block", "Else">> \o <<"Stmts">> =
       <<"IF", "OBRACE", "Expr", "CBRACE", "Block", "Else", "Stmts">>
  /\ <<"FOR", "OBRACE", "NAME", "ASSIGN", "Expr", "SEMICOLON", "Expr", "SEMICOLON", "Expr",
       "CBRACE", "Block">> \o <<"Stmts">> =
       <<"FOR", "OBRACE", "NAME", "ASSIGN", "Expr", "SEMICOLON", "Expr",
         "SEMICOLON", "Expr", "CBRACE", "Block", "Stmts">>
  /\ <<"Expr", "SEMICOLON">> \o <<"Stmts">> = <<"Expr", "SEMICOLON", "Stmts">>
  /\ <<"Expr", "SEMICOLON">> \o <<"Program">> = <<"Expr", "SEMICOLON", "Program">>
  /\ <<"Block">> \o <<"Program">> = <<"Block", "Program">>
  /\ <<"SEMICOLON">> \o <<"Program">> = <<"SEMICOLON", "Program">>
<1>1. {"IF", "OBRACE", "Expr", "CBRACE", "Block", "Else", "Stmts", "FOR", "NAME", "ASSIGN",
       "SEMICOLON", "Program"} \subseteq Spellings
  BY NonterminalsAre DEF Spellings, Symbols, Terminals
<1>2. Extends(Spellings, <<"IF", "OBRACE", "Expr", "CBRACE", "Block", "Else", "Stmts">>,
              <<"IF", "OBRACE", "Expr", "CBRACE", "Block", "Else">>, "Stmts")
  BY <1>1 DEF Extends
<1>3. Extends(Spellings, <<"FOR", "OBRACE", "NAME", "ASSIGN", "Expr", "SEMICOLON", "Expr",
                "SEMICOLON", "Expr", "CBRACE", "Block", "Stmts">>,
              <<"FOR", "OBRACE", "NAME", "ASSIGN", "Expr", "SEMICOLON", "Expr",
                "SEMICOLON", "Expr", "CBRACE", "Block">>, "Stmts")
  BY <1>1 DEF Extends
<1>4. /\ Extends(Spellings, <<"Expr", "SEMICOLON", "Stmts">>, <<"Expr", "SEMICOLON">>, "Stmts")
      /\ Extends(Spellings, <<"Expr", "SEMICOLON", "Program">>, <<"Expr", "SEMICOLON">>, "Program")
      /\ Extends(Spellings, <<"Block", "Program">>, <<"Block">>, "Program")
      /\ Extends(Spellings, <<"SEMICOLON", "Program">>, <<"SEMICOLON">>, "Program")
  BY <1>1 DEF Extends
<1>5. /\ <<"IF", "OBRACE", "Expr", "CBRACE", "Block", "Else">> \o <<"Stmts">> =
         <<"IF", "OBRACE", "Expr", "CBRACE", "Block", "Else", "Stmts">>
      /\ <<"FOR", "OBRACE", "NAME", "ASSIGN", "Expr", "SEMICOLON", "Expr", "SEMICOLON", "Expr",
           "CBRACE", "Block">> \o <<"Stmts">> =
         <<"FOR", "OBRACE", "NAME", "ASSIGN", "Expr", "SEMICOLON", "Expr",
           "SEMICOLON", "Expr", "CBRACE", "Block", "Stmts">>
  BY <1>2, <1>3, Extended, Zenon
<1>6. /\ <<"Expr", "SEMICOLON">> \o <<"Stmts">> = <<"Expr", "SEMICOLON", "Stmts">>
      /\ <<"Expr", "SEMICOLON">> \o <<"Program">> = <<"Expr", "SEMICOLON", "Program">>
      /\ <<"Block">> \o <<"Program">> = <<"Block", "Program">>
      /\ <<"SEMICOLON">> \o <<"Program">> = <<"SEMICOLON", "Program">>
  BY <1>4, Extended, Zenon
<1> QED
  BY <1>5, <1>6, Zenon

(* What a statement, or a part of the program, and those behind it spell.  *)
LEMMA ProgramSpells ==
  /\ Spells(FunctionDef \o <<Item("program")>>, Header \o <<"Block", "Program">>)
  /\ Spells(ExternDef \o <<Item("program")>>,
            <<"EXTERN">> \o Header \o <<"SEMICOLON", "Program">>)
  /\ Spells(VarDecl \o <<Item("program")>>, Variable \o <<"Program">>)
  /\ Spells(ExprStmt \o <<Item("program")>>, <<"Expr", "SEMICOLON", "Program">>)
<1>1. Spells(<<Item("program")>>, <<"Program">>)
  <2>1. Item("program") \in Items /\ Item("program").op = "program"
    BY ItemFields DEF Ops
  <2>2. "program" \in Deriving /\ Derived["program"] = <<"Program">>
    BY DerivingIs DEF Derived
  <2> QED
    BY <2>1, <2>2, Calls
<1>2. /\ Header \in Seq(Spellings) /\ <<"Block">> \in Seq(Spellings)
      /\ <<"Program">> \in Seq(Spellings) /\ <<"SEMICOLON">> \in Seq(Spellings)
      /\ <<"EXTERN">> \o Header \in Seq(Spellings)
  <2>1. /\ {"Block", "Program", "Params"} \subseteq Spellings
        /\ {"SEMICOLON", "EXTERN", "FUNCTION", "NAME", "OBRACE", "RETTYPE"} \subseteq Spellings
    BY NonterminalsAre DEF Spellings, Symbols, Terminals
  <2>2. Header \in Seq(Spellings)
    BY <2>1 DEF Header
  <2> QED
    BY <2>1, <2>2
<1>3. Spells(FunctionDef \o <<Item("program")>>, Header \o <<"Block", "Program">>)
  <2>1. (Header \o <<"Block">>) \o <<"Program">> = Header \o (<<"Block">> \o <<"Program">>)
    <3>1. Associate(Header, <<"Block">>, <<"Program">>)
      BY <1>2, Associated, Zenon
    <3> QED
      BY <3>1, Zenon DEF Associate
  <2>2. (Header \o <<"Block">>) \o <<"Program">> = Header \o <<"Block", "Program">>
    BY <2>1, Literals, Zenon
  <2>3. Spells(FunctionDef \o <<Item("program")>>, (Header \o <<"Block">>) \o <<"Program">>)
    BY <1>1, RoutinesSpell, SpellsBoth
  <2> QED
    BY <2>2, <2>3, Zenon
<1>4. Spells(ExternDef \o <<Item("program")>>,
             <<"EXTERN">> \o Header \o <<"SEMICOLON", "Program">>)
  <2> DEFINE e == <<"EXTERN">> \o Header
  <2>1. e \in Seq(Spellings)
    BY <1>2
  <2>2. Spells(ExternDef \o <<Item("program")>>, (e \o <<"SEMICOLON">>) \o <<"Program">>)
    BY <1>1, RoutinesSpell, SpellsBoth
  <2> HIDE DEF e
  <2>3. (e \o <<"SEMICOLON">>) \o <<"Program">> = e \o (<<"SEMICOLON">> \o <<"Program">>)
    <3>1. Associate(e, <<"SEMICOLON">>, <<"Program">>)
      BY <1>2, <2>1, Associated, Zenon
    <3> QED
      BY <3>1, Zenon DEF Associate
  <2>4. (e \o <<"SEMICOLON">>) \o <<"Program">> = e \o <<"SEMICOLON", "Program">>
    BY <2>3, Literals, Zenon
  <2>5. Spells(ExternDef \o <<Item("program")>>, e \o <<"SEMICOLON", "Program">>)
    BY <2>2, <2>4, Zenon
  <2> QED
    BY <2>5, Zenon DEF e
<1>5. Spells(VarDecl \o <<Item("program")>>, Variable \o <<"Program">>)
  BY <1>1, RoutinesSpell, SpellsBoth
<1>6. Spells(ExprStmt \o <<Item("program")>>, <<"Expr", "SEMICOLON", "Program">>)
  <2>1. Spells(ExprStmt \o <<Item("program")>>, <<"Expr", "SEMICOLON">> \o <<"Program">>)
    BY <1>1, RoutinesSpell, SpellsBoth, Zenon
  <2> QED
    BY <2>1, Literals, Zenon
<1> QED
  BY <1>3, <1>4, <1>5, <1>6

LEMMA StmtsSpell ==
  ASSUME NEW x \in Items, x.op = "stmts"
  PROVE  /\ Spells(VarDecl \o <<x>>, Variable \o <<"Stmts">>)
         /\ Spells(IfStmt \o <<x>>,
                   <<"IF", "OBRACE", "Expr", "CBRACE", "Block", "Else", "Stmts">>)
         /\ Spells(ForStmt \o <<x>>,
                   <<"FOR", "OBRACE", "NAME", "ASSIGN", "Expr", "SEMICOLON", "Expr",
                     "SEMICOLON", "Expr", "CBRACE", "Block", "Stmts">>)
         /\ Spells(<<Expect("RETURN"), Item("retval"), Item("returned"), x>>,
                   <<"RETURN", "Value", "Stmts">>)
         /\ Spells(ExprStmt \o <<x>>, <<"Expr", "SEMICOLON", "Stmts">>)
<1>1. Spells(<<x>>, <<"Stmts">>)
  <2>1. "stmts" \in Deriving /\ Derived["stmts"] = <<"Stmts">>
    BY DerivingIs DEF Derived
  <2> QED
    BY <2>1, Calls
<1>2. Spells(VarDecl \o <<x>>, Variable \o <<"Stmts">>)
  BY <1>1, RoutinesSpell, SpellsBoth, Zenon
<1>3. Spells(IfStmt \o <<x>>, <<"IF", "OBRACE", "Expr", "CBRACE", "Block", "Else", "Stmts">>)
  <2>1. Spells(IfStmt \o <<x>>, <<"IF", "OBRACE", "Expr", "CBRACE", "Block", "Else">> \o <<"Stmts">>)
    BY <1>1, RoutinesSpell, SpellsBoth, Zenon
  <2> QED
    BY <2>1, Literals, Zenon
<1>4. Spells(ForStmt \o <<x>>,
             <<"FOR", "OBRACE", "NAME", "ASSIGN", "Expr", "SEMICOLON", "Expr",
               "SEMICOLON", "Expr", "CBRACE", "Block", "Stmts">>)
  <2>1. Spells(ForStmt \o <<x>>,
               <<"FOR", "OBRACE", "NAME", "ASSIGN", "Expr", "SEMICOLON", "Expr", "SEMICOLON",
                 "Expr", "CBRACE", "Block">> \o <<"Stmts">>)
    BY <1>1, RoutinesSpell, SpellsBoth, Zenon
  <2> QED
    BY <2>1, Literals, Zenon
<1>5. Spells(ExprStmt \o <<x>>, <<"Expr", "SEMICOLON", "Stmts">>)
  <2>1. Spells(ExprStmt \o <<x>>, <<"Expr", "SEMICOLON">> \o <<"Stmts">>)
    BY <1>1, RoutinesSpell, SpellsBoth, Zenon
  <2> QED
    BY <2>1, Literals, Zenon
<1>6. /\ Expect("RETURN") \in Items /\ Spells(<<Expect("RETURN")>>, <<"RETURN">>)
      /\ Item("retval") \in Items /\ Spells(<<Item("retval")>>, <<"Value">>)
      /\ Item("returned") \in Items /\ Spells(<<Item("returned")>>, <<>>)
      /\ {"RETURN", "Value", "Stmts"} \subseteq Spellings
  <2>1. Expect("RETURN") \in Items /\ Spells(<<Expect("RETURN")>>, <<"RETURN">>)
    BY TokensSpell DEF AllTokens
  <2>2. /\ Item("retval") \in Items /\ Item("retval").op = "retval"
        /\ Item("returned") \in Items /\ Item("returned").op = "returned"
    BY ItemFields DEF Ops
  <2>3. "retval" \in Deriving /\ Derived["retval"] = <<"Value">>
    BY DerivingIs DEF Derived
  <2>4. "returned" \notin Deriving \cup {"expect", "rhs", "inner"}
    BY DerivingIs
  <2>5. {"RETURN", "Value", "Stmts"} \subseteq Spellings
    BY NonterminalsAre DEF Spellings, Symbols, Terminals
  <2> QED
    BY <2>1, <2>2, <2>3, <2>4, <2>5, Calls
<1>7. Spells(<<Expect("RETURN"), Item("retval"), Item("returned"), x>>, <<"RETURN", "Value", "Stmts">>)
  <2> DEFINE p == <<Expect("RETURN"), Item("retval"), Item("returned"), x>>
             q == <<"RETURN", "Value", "Stmts">>
  <2>1. Texts(p, 4, q, 3)
    BY <1>1, <1>6 DEF Texts
  <2>2. /\ Spelled(p, 1, q, 1) /\ Spelled(p, 2, q, 2) /\ Silent(p, 3)
        /\ Spelled(p, 4, q, 3)
    BY <1>1, <1>6 DEF Spelled, Silent
  <2> HIDE DEF p, q
  <2>3. SpelledTo(p, 0, q, 0)
    BY <2>1, SpellingStarts, Zenon
  <2>4. SpelledTo(p, 1, q, 1)
    BY <2>2, <2>3, Counting, SpellingGoesOn, Zenon
  <2>5. SpelledTo(p, 2, q, 2)
    BY <2>2, <2>4, Counting, SpellingGoesOn, Zenon
  <2>6. SpelledTo(p, 3, q, 2)
    BY <2>2, <2>5, Counting, SpellingWaits, Zenon
  <2>7. SpelledTo(p, 4, q, 3)
    BY <2>2, <2>6, Counting, SpellingGoesOn, Zenon
  <2>8. Spells(p, q)
    BY <2>1, <2>7, SpellingStarts, Zenon
  <2> QED
    BY <2>8 DEF p, q
<1> QED
  BY <1>2, <1>3, <1>4, <1>5, <1>7

(* The other calls.                                                        *)
LEMMA PairSpells ==
  ASSUME NEW x \in Items, NEW y \in Items, NEW X \in Spellings, NEW Y \in Spellings,
         Spells(<<x>>, <<X>>), Spells(<<y>>, <<Y>>)
  PROVE  Spells(<<x, y>>, <<X, Y>>)
<1> DEFINE p == <<x, y>>
           q == <<X, Y>>
<1>1. Texts(p, 2, q, 2)
  BY DEF Texts
<1>2. /\ Spelled(p, 1, q, 1) /\ Spelled(p, 2, q, 2)
  BY DEF Spelled, Silent
<1> HIDE DEF p, q
<1>3. SpelledTo(p, 0, q, 0)
  BY <1>1, SpellingStarts, Zenon
<1>4. SpelledTo(p, 1, q, 1)
  BY <1>2, <1>3, Counting, SpellingGoesOn, Zenon
<1>5. SpelledTo(p, 2, q, 2)
  BY <1>2, <1>4, Counting, SpellingGoesOn, Zenon
<1>6. Spells(p, q)
  BY <1>1, <1>5, SpellingStarts, Zenon
<1> QED
  BY <1>6 DEF p, q

LEMMA TripleSpells ==
  ASSUME NEW x \in Items, NEW y \in Items, NEW z \in Items,
         NEW X \in Spellings, NEW Y \in Spellings, NEW Z \in Spellings,
         Spells(<<x>>, <<X>>), Spells(<<y>>, <<Y>>), Spells(<<z>>, <<Z>>)
  PROVE  Spells(<<x, y, z>>, <<X, Y, Z>>)
<1> DEFINE p == <<x, y, z>>
           q == <<X, Y, Z>>
<1>1. Texts(p, 3, q, 3)
  BY DEF Texts
<1>2. /\ Spelled(p, 1, q, 1) /\ Spelled(p, 2, q, 2) /\ Spelled(p, 3, q, 3)
  BY DEF Spelled, Silent
<1> HIDE DEF p, q
<1>3. SpelledTo(p, 0, q, 0)
  BY <1>1, SpellingStarts, Zenon
<1>4. SpelledTo(p, 1, q, 1)
  BY <1>2, <1>3, Counting, SpellingGoesOn, Zenon
<1>5. SpelledTo(p, 2, q, 2)
  BY <1>2, <1>4, Counting, SpellingGoesOn, Zenon
<1>6. SpelledTo(p, 3, q, 3)
  BY <1>2, <1>5, Counting, SpellingGoesOn, Zenon
<1>7. Spells(p, q)
  BY <1>1, <1>6, SpellingStarts, Zenon
<1> QED
  BY <1>7 DEF p, q

LEMMA CallsSpell ==
  /\ Spells(<<Expect("ELSE"), Item("block")>>, <<"ELSE", "Block">>)
  /\ Spells(<<Expect("SEMICOLON")>>, <<"SEMICOLON">>)
  /\ Spells(<<Item("param"), Expect("CBRACE")>>, <<"Param", "CBRACE">>)
  /\ Spells(<<Expect("NAME"), Item("moreparams")>>, <<"NAME", "MoreParams">>)
  /\ Spells(<<Item("param")>>, <<"Param">>)
  /\ Spells(<<Item("prim")>>, <<"Prim">>)
  /\ Spells(<<Item("expr")>>, <<"Expr">>)
  /\ Spells(<<Item("expr"), Expect("CBRACE")>>, <<"Expr", "CBRACE">>)
<1>1. /\ \A tok \in {"ELSE", "SEMICOLON", "CBRACE", "NAME"} :
           Expect(tok) \in Items /\ tok \in Spellings /\ Spells(<<Expect(tok)>>, <<tok>>)
  BY TokensSpell DEF AllTokens
<1>2. \A op \in {"block", "param", "moreparams", "prim", "expr"} :
        Item(op) \in Items /\ Spells(<<Item(op)>>, Derived[op])
  <2>1. {"block", "param", "moreparams", "prim", "expr"} \subseteq Ops \cap Deriving
    BY DerivingIs DEF Ops
  <2> QED
    BY <2>1, ItemFields, Calls
<1>3. /\ Derived["block"] = <<"Block">> /\ Derived["param"] = <<"Param">>
      /\ Derived["moreparams"] = <<"MoreParams">> /\ Derived["prim"] = <<"Prim">>
      /\ Derived["expr"] = <<"Expr">>
  BY DEF Derived
<1>4. {"Block", "Param", "MoreParams", "Prim", "Expr"} \subseteq Spellings
  BY NonterminalsAre DEF Spellings, Symbols
<1>5. /\ Item("block") \in Items /\ Spells(<<Item("block")>>, <<"Block">>)
      /\ Item("param") \in Items /\ Spells(<<Item("param")>>, <<"Param">>)
      /\ Item("moreparams") \in Items /\ Spells(<<Item("moreparams")>>, <<"MoreParams">>)
      /\ Item("prim") \in Items /\ Spells(<<Item("prim")>>, <<"Prim">>)
      /\ Item("expr") \in Items /\ Spells(<<Item("expr")>>, <<"Expr">>)
  BY <1>2, <1>3
<1>6. /\ "Block" \in Spellings /\ "Param" \in Spellings /\ "MoreParams" \in Spellings
      /\ "Expr" \in Spellings
  BY <1>4
<1>7. /\ Expect("ELSE") \in Items /\ "ELSE" \in Spellings /\ Spells(<<Expect("ELSE")>>, <<"ELSE">>)
      /\ Expect("CBRACE") \in Items /\ "CBRACE" \in Spellings
      /\ Spells(<<Expect("CBRACE")>>, <<"CBRACE">>)
      /\ Expect("NAME") \in Items /\ "NAME" \in Spellings /\ Spells(<<Expect("NAME")>>, <<"NAME">>)
      /\ Spells(<<Expect("SEMICOLON")>>, <<"SEMICOLON">>)
  BY <1>1
<1>8. /\ Spells(<<Expect("ELSE"), Item("block")>>, <<"ELSE", "Block">>)
      /\ Spells(<<Item("param"), Expect("CBRACE")>>, <<"Param", "CBRACE">>)
      /\ Spells(<<Expect("NAME"), Item("moreparams")>>, <<"NAME", "MoreParams">>)
      /\ Spells(<<Item("expr"), Expect("CBRACE")>>, <<"Expr", "CBRACE">>)
  BY <1>5, <1>6, <1>7, PairSpells, Zenon
<1> QED
  BY <1>5, <1>7, <1>8

LEMMA ArgumentsSpell ==
  ASSUME NEW x \in Items
  PROVE  /\ x.op = "args" => /\ Spells(<<Expect("OBRACE"), Item("expr"), x>>, <<"OBRACE", "Expr", "Args">>)
                             /\ Spells(<<Item("expr"), x>>, <<"Expr", "Args">>)
         /\ x.op = "checkargs" => Spells(<<Expect("CBRACE"), x>>, <<"CBRACE">>)
         /\ x.op = "name" => Spells(<<x>>, <<"NameRest">>)
<1>1. /\ Expect("OBRACE") \in Items /\ "OBRACE" \in Spellings /\ Spells(<<Expect("OBRACE")>>, <<"OBRACE">>)
      /\ Expect("CBRACE") \in Items /\ "CBRACE" \in Spellings /\ Spells(<<Expect("CBRACE")>>, <<"CBRACE">>)
  BY TokensSpell DEF AllTokens
<1>2. /\ Derived["args"] = <<"Args">> /\ Derived["name"] = <<"NameRest">>
      /\ "args" \in Deriving /\ "name" \in Deriving
      /\ "checkargs" \notin Deriving \cup {"expect", "rhs", "inner"}
  BY DerivingIs DEF Derived
<1>3. "Args" \in Spellings /\ "Expr" \in Spellings
  BY NonterminalsAre DEF Spellings, Symbols
<1>4. Item("expr") \in Items /\ Spells(<<Item("expr")>>, <<"Expr">>)
  BY ItemFields, CallsSpell DEF Ops
<1>5. x.op = "name" => Spells(<<x>>, <<"NameRest">>)
  BY <1>2, Calls
<1>6. ASSUME x.op = "args"
      PROVE  /\ Spells(<<Expect("OBRACE"), Item("expr"), x>>, <<"OBRACE", "Expr", "Args">>)
             /\ Spells(<<Item("expr"), x>>, <<"Expr", "Args">>)
  <2>1. Spells(<<x>>, <<"Args">>)
    BY <1>2, <1>6, Calls
  <2> QED
    BY <1>1, <1>3, <1>4, <2>1, PairSpells, TripleSpells, Zenon
<1>7. ASSUME x.op = "checkargs"
      PROVE  Spells(<<Expect("CBRACE"), x>>, <<"CBRACE">>)
  <2>1. Spells(<<x>>, <<>>)
    BY <1>2, <1>7, Calls
  <2> DEFINE p == <<Expect("CBRACE"), x>>
             q == <<"CBRACE">>
  <2>2. Texts(p, 2, q, 1)
    BY <1>1, <2>1 DEF Texts
  <2>3. /\ Spelled(p, 1, q, 1) /\ Silent(p, 2)
    BY <1>1, <2>1 DEF Spelled, Silent
  <2> HIDE DEF p, q
  <2>4. SpelledTo(p, 0, q, 0)
    BY <2>2, SpellingStarts, Zenon
  <2>5. SpelledTo(p, 1, q, 1)
    BY <2>3, <2>4, Counting, SpellingGoesOn, Zenon
  <2>6. SpelledTo(p, 2, q, 1)
    BY <2>3, <2>5, Counting, SpellingWaits, Zenon
  <2>7. Spells(p, q)
    BY <2>2, <2>6, SpellingStarts, Zenon
  <2> QED
    BY <2>7 DEF p, q
<1> QED
  BY <1>5, <1>6, <1>7

-----------------------------------------------------------------------------
(* The operators of precedences lo to hi are those above mid and the rest. *)
LEMMA RestsSplit ==
  ASSUME NEW lo \in Int, NEW mid \in Int, NEW hi \in Int, lo <= mid + 1, mid <= hi
  PROVE  Rests(lo, hi) = Rests(mid + 1, hi) \o Rests(lo, mid)
<1> DEFINE M(a, b) == IF 13 \in a..b THEN <<"MulRest">> ELSE <<>>
           A(a, b) == IF 12 \in a..b THEN <<"AddRest">> ELSE <<>>
           C(a, b) == IF 10 \in a..b THEN <<"CmpRest">> ELSE <<>>
<1>1. /\ <<"MulRest">> \in Seq(Spellings) /\ <<"AddRest">> \in Seq(Spellings)
      /\ <<"CmpRest">> \in Seq(Spellings) /\ <<>> \in Seq(Spellings)
  <2>1. {"MulRest", "AddRest", "CmpRest"} \subseteq Spellings
    BY NonterminalsAre DEF Spellings, Symbols
  <2> QED
    BY <2>1
<1>2. \A a, b : M(a, b) \in Seq(Spellings) /\ A(a, b) \in Seq(Spellings) /\ C(a, b) \in Seq(Spellings)
  BY <1>1
<1>3. \A a, b : Rests(a, b) = (M(a, b) \o A(a, b)) \o C(a, b)
  BY DEF Rests
<1>4. /\ mid >= 13 => M(mid + 1, hi) = <<>> /\ M(lo, mid) = M(lo, hi)
      /\ mid < 13 => M(lo, mid) = <<>> /\ M(mid + 1, hi) = M(lo, hi)
      /\ mid >= 12 => A(mid + 1, hi) = <<>> /\ A(lo, mid) = A(lo, hi)
      /\ mid < 12 => A(lo, mid) = <<>> /\ A(mid + 1, hi) = A(lo, hi)
      /\ mid >= 10 => C(mid + 1, hi) = <<>> /\ C(lo, mid) = C(lo, hi)
      /\ mid < 10 => C(lo, mid) = <<>> /\ C(mid + 1, hi) = C(lo, hi)
  OBVIOUS
<1> HIDE DEF M, A, C
<1>5. PICK m \in Seq(Spellings), a \in Seq(Spellings), c \in Seq(Spellings) :
        m = M(lo, hi) /\ a = A(lo, hi) /\ c = C(lo, hi)
  BY <1>2
<1>6. /\ <<>> \o m = m /\ m \o <<>> = m /\ <<>> \o a = a /\ a \o <<>> = a /\ <<>> \o c = c
      /\ <<>> \o <<>> = <<>> /\ (m \o a) \o <<>> = m \o a /\ ((m \o a) \o c) \o <<>> = (m \o a) \o c
      /\ <<>> \o (a \o c) = a \o c /\ m \o (a \o c) = (m \o a) \o c
      /\ <<>> \o ((m \o a) \o c) = (m \o a) \o c
  OBVIOUS
<1>7. CASE mid >= 13
  <2>1. mid >= 12 /\ mid >= 10
    BY <1>7
  <2>2. Rests(mid + 1, hi) = <<>>
    BY <1>3, <1>4, <1>6, <1>7, <2>1, Zenon
  <2>3. Rests(lo, mid) = (m \o a) \o c
    BY <1>3, <1>4, <1>5, <1>7, <2>1, Zenon
  <2> QED
    BY <1>3, <1>5, <1>6, <2>2, <2>3, Zenon
<1>8. CASE mid < 13 /\ mid >= 12
  <2>1. mid >= 10
    BY <1>8
  <2>2. Rests(mid + 1, hi) = m
    BY <1>3, <1>4, <1>5, <1>6, <1>8, <2>1, Zenon
  <2>3. Rests(lo, mid) = a \o c
    BY <1>3, <1>4, <1>5, <1>6, <1>8, <2>1, Zenon
  <2> QED
    BY <1>3, <1>5, <1>6, <2>2, <2>3, Zenon
<1>9. CASE mid < 12 /\ mid >= 10
  <2>1. mid < 13
    BY <1>9
  <2>2. Rests(mid + 1, hi) = m \o a
    BY <1>3, <1>4, <1>5, <1>6, <1>9, <2>1, Zenon
  <2>3. Rests(lo, mid) = c
    BY <1>3, <1>4, <1>5, <1>6, <1>9, <2>1, Zenon
  <2> QED
    BY <1>3, <1>5, <1>6, <2>2, <2>3, Zenon
<1>10. CASE mid < 10
  <2>1. mid < 13 /\ mid < 12
    BY <1>10
  <2>2. Rests(mid + 1, hi) = (m \o a) \o c
    BY <1>3, <1>4, <1>5, <1>10, <2>1, Zenon
  <2>3. Rests(lo, mid) = <<>>
    BY <1>3, <1>4, <1>6, <1>10, <2>1, Zenon
  <2> QED
    BY <1>3, <1>5, <1>6, <2>2, <2>3, Zenon
<1> QED
  BY <1>7, <1>8, <1>9, <1>10

(* What an inner loop has left, behind the loop it called for precedence p. *)
LEMMA RestsAbove ==
  ASSUME NEW n \in Nat, NEW p \in Nat, n < p, p <= 13
  PROVE  Rests(n + 1, 15) = Rests(p, 15) \o Rests(n + 1, p - 1)
<1>1. /\ n + 1 \in Int /\ p - 1 \in Int /\ 15 \in Int
      /\ n + 1 <= (p - 1) + 1 /\ p - 1 <= 15 /\ (p - 1) + 1 = p
  OBVIOUS
<1>2. Rests(n + 1, 15) = Rests((p - 1) + 1, 15) \o Rests(n + 1, p - 1)
  BY <1>1, RestsSplit
<1> QED
  BY <1>1, <1>2

(* Operators that the next token is none of derive nothing.                *)
LEMMA RestsDrop ==
  ASSUME NEW lo \in Int, NEW hi \in Int, NEW t, Precedence(t) < lo, NEW s \in Seq(Spellings)
  PROVE  Settle(Rests(lo, hi) \o s, t) = Settle(s, t)
<1> DEFINE m == IF 13 \in lo..hi THEN <<"MulRest">> ELSE <<>>
           a == IF 12 \in lo..hi THEN <<"AddRest">> ELSE <<>>
           c == IF 10 \in lo..hi THEN <<"CmpRest">> ELSE <<>>
<1>1. /\ "MulRest" \in Nullable /\ "AddRest" \in Nullable /\ "CmpRest" \in Nullable
      /\ "MulRest" \in Spellings /\ "AddRest" \in Spellings /\ "CmpRest" \in Spellings
  BY NullableAre, NonterminalsAre DEF Spellings, Symbols
<1>2. /\ m # <<>> => t \notin First["MulRest"]
      /\ a # <<>> => t \notin First["AddRest"]
      /\ c # <<>> => t \notin First["CmpRest"]
  BY FirstIs DEF Precedence
<1>3. ASSUME NEW X \in Nullable, NEW r \in Seq(Spellings), NEW x \in {<<>>, <<X>>},
             x # <<>> => t \notin First[X]
      PROVE  Settle(x \o r, t) = Settle(r, t) /\ x \o r \in Seq(Spellings)
  <2>1. CASE x = <<>>
    BY <2>1, NoneAround
  <2>2. CASE x = <<X>>
    <3>1. X \in Spellings
      BY SymbolsAre DEF Nullable, Spellings
    <3>2. <<X>> # <<>> /\ <<X>> \o r \in Seq(Spellings)
      BY <3>1, InFront
    <3> QED
      BY <1>3, <2>2, <3>2, SettleDrops
  <2> QED
    BY <2>1, <2>2
<1>4. m \in {<<>>, <<"MulRest">>} /\ a \in {<<>>, <<"AddRest">>} /\ c \in {<<>>, <<"CmpRest">>}
  OBVIOUS
<1>5. m \in Seq(Spellings) /\ a \in Seq(Spellings) /\ c \in Seq(Spellings)
  <2>1. <<"MulRest">> \in Seq(Spellings) /\ <<"AddRest">> \in Seq(Spellings) /\ <<"CmpRest">> \in Seq(Spellings)
    BY <1>1
  <2> QED
    BY <2>1
<1>6. Rests(lo, hi) = (m \o a) \o c
  BY DEF Rests
<1> HIDE DEF m, a, c
<1>7. ((m \o a) \o c) \o s = m \o (a \o (c \o s))
  <2>1. m \o a \in Seq(Spellings) /\ c \o s \in Seq(Spellings)
    BY <1>5
  <2>2. PICK z \in Seq(Spellings), u \in Seq(Spellings) : z = m \o a /\ u = c \o s
    BY <2>1
  <2>3. Associate(z, c, s) /\ Associate(m, a, u)
    BY <1>5, <2>2, Associated, Zenon
  <2> QED
    BY <2>2, <2>3, Zenon DEF Associate
<1>8. Settle(c \o s, t) = Settle(s, t) /\ c \o s \in Seq(Spellings)
  BY <1>1, <1>2, <1>3, <1>4
<1>9. Settle(a \o (c \o s), t) = Settle(c \o s, t) /\ a \o (c \o s) \in Seq(Spellings)
  BY <1>1, <1>2, <1>3, <1>4, <1>8
<1>10. Settle(m \o (a \o (c \o s)), t) = Settle(a \o (c \o s), t)
  BY <1>1, <1>2, <1>3, <1>4, <1>9
<1> QED
  BY <1>6, <1>7, <1>8, <1>9, <1>10

LEMMA CompleteDrops ==
  ASSUME NEW n, NEW t, NEW s \in Seq(Spellings)
  PROVE  Settle(Complete(n) \o s, t) = Settle(s, t)
<1>1. Complete(n) \in {<<"Mul">>, <<"Add">>, <<"Cmp">>}
  BY DEF Complete
<1>2. \A X \in {"Mul", "Add", "Cmp"} : X \in Nullable /\ t \notin First[X]
  BY NullableAre, FirstIs
<1>3. \A X \in {"Mul", "Add", "Cmp"} : Settle(<<X>> \o s, t) = Settle(s, t)
  BY <1>2, SettleDrops
<1> QED
  BY <1>1, <1>3

(* What an operator is followed by, its own operands and the operators     *)
(* that are left.                                                          *)
LEMMA RestsOf ==
  /\ Rests(14, 15) = <<>> /\ Rests(13, 13) = <<"MulRest">>
  /\ Rests(13, 15) = <<"MulRest">> /\ Rests(12, 12) = <<"AddRest">>
  /\ Rests(11, 15) = <<"MulRest">> \o <<"AddRest">> /\ Rests(10, 10) = <<"CmpRest">>
  /\ Rests(0, 15) = (<<"MulRest">> \o <<"AddRest">>) \o <<"CmpRest">>
  /\ Complete(13) = <<"Mul">> /\ Complete(12) = <<"Add">> /\ Complete(10) = <<"Cmp">>
<1>1. /\ <<"MulRest">> \in Seq(Spellings) /\ <<"AddRest">> \in Seq(Spellings)
      /\ <<"CmpRest">> \in Seq(Spellings)
  <2>1. {"MulRest", "AddRest", "CmpRest"} \subseteq Spellings
    BY NonterminalsAre DEF Spellings, Symbols
  <2> QED
    BY <2>1
<1>2. PICK m \in Seq(Spellings), a \in Seq(Spellings), c \in Seq(Spellings) :
        m = <<"MulRest">> /\ a = <<"AddRest">> /\ c = <<"CmpRest">>
  BY <1>1
<1>3. /\ (<<>> \o <<>>) \o <<>> = <<>> /\ (m \o <<>>) \o <<>> = m /\ (<<>> \o a) \o <<>> = a
      /\ (m \o a) \o <<>> = m \o a /\ (<<>> \o <<>>) \o c = c
  OBVIOUS
<1>4. ASSUME NEW lo, NEW hi
      PROVE  /\ 13 \notin lo..hi /\ 12 \notin lo..hi /\ 10 \notin lo..hi => Rests(lo, hi) = <<>>
             /\ 13 \in lo..hi /\ 12 \notin lo..hi /\ 10 \notin lo..hi => Rests(lo, hi) = m
             /\ 13 \notin lo..hi /\ 12 \in lo..hi /\ 10 \notin lo..hi => Rests(lo, hi) = a
             /\ 13 \in lo..hi /\ 12 \in lo..hi /\ 10 \notin lo..hi => Rests(lo, hi) = m \o a
             /\ 13 \notin lo..hi /\ 12 \notin lo..hi /\ 10 \in lo..hi => Rests(lo, hi) = c
             /\ 13 \in lo..hi /\ 12 \in lo..hi /\ 10 \in lo..hi => Rests(lo, hi) = (m \o a) \o c
  BY <1>2, <1>3 DEF Rests
<1>5. /\ 13 \notin 14..15 /\ 12 \notin 14..15 /\ 10 \notin 14..15
      /\ 13 \in 13..13 /\ 12 \notin 13..13 /\ 10 \notin 13..13
      /\ 13 \in 13..15 /\ 12 \notin 13..15 /\ 10 \notin 13..15
      /\ 13 \notin 12..12 /\ 12 \in 12..12 /\ 10 \notin 12..12
      /\ 13 \in 11..15 /\ 12 \in 11..15 /\ 10 \notin 11..15
      /\ 13 \notin 10..10 /\ 12 \notin 10..10 /\ 10 \in 10..10
      /\ 13 \in 0..15 /\ 12 \in 0..15 /\ 10 \in 0..15
  OBVIOUS
<1>6. Rests(14, 15) = <<>> /\ Rests(13, 13) = m /\ Rests(13, 15) = m /\ Rests(12, 12) = a
  BY <1>4, <1>5, Zenon
<1>7. Rests(11, 15) = m \o a /\ Rests(10, 10) = c /\ Rests(0, 15) = (m \o a) \o c
  BY <1>4, <1>5, Zenon
<1>8. Complete(13) = <<"Mul">> /\ Complete(12) = <<"Add">> /\ Complete(10) = <<"Cmp">>
  BY DEF Complete
<1> QED
  BY <1>2, <1>6, <1>7, <1>8

-----------------------------------------------------------------------------
(* What the machine sees of a parser that has reported nothing.            *)
Seen(token) == IF token \in Identifiers THEN "NAME" ELSE token

Parsing == errors = "none" /\ status = "running"

LEMMA SeenIs ==
  ASSUME NEW token \in AllTokens \cup {"END"}
  PROVE  /\ Seen(token) \in Terminals
         /\ Precedence(Seen(token)) = Precedence(token)
         /\ \A tok \in Terminals : (token = tok \/ (tok = "NAME" /\ token \in Identifiers)) <=> Seen(token) = tok
  BY DEF Seen, Identifiers, AllTokens, Terminals, Precedence

LEMMA WordsAre ==
  ASSUME NEW s \in Seq(Items)
  PROVE  Words(s) = WordsOf(s, 15)
  BY DEF Words, WordsOf

LEMMA Observed ==
  ASSUME TypeOK, Parsing
  PROVE  /\ Outcome = "reading" /\ Token = Seen(look) /\ Token \in Terminals
         /\ Consumed = MaxTokens - left + past - (IF look = "END" THEN 0 ELSE 1)
         /\ Pending = Settle(WordsOf(todo, 15), Token)
<1>1. look \in AllTokens \cup {"END"} /\ todo \in Seq(Items)
  BY TokensAssumption DEF TypeOK
<1>2. Outcome = "reading"
  BY DEF Parsing, Outcome
<1>3. Reading
  BY <1>2 DEF Reading
<1>4. Token = Seen(look)
  BY <1>3 DEF Token, Seen
<1>5. Consumed = MaxTokens - left + past - (IF look = "END" THEN 0 ELSE 1)
  BY <1>3 DEF Consumed
<1>6. Pending = Settle(WordsOf(todo, 15), Token)
  BY <1>1, <1>3, WordsAre DEF Pending
<1> QED
  BY <1>1, <1>2, <1>4, <1>5, <1>6, SeenIs

LEMMA ObservedNext ==
  ASSUME TypeOK', Parsing'
  PROVE  /\ Outcome' = "reading" /\ Token' = Seen(look') /\ Token' \in Terminals
         /\ Consumed' = MaxTokens - left' + past' - (IF look' = "END" THEN 0 ELSE 1)
         /\ Pending' = Settle(WordsOf(todo', 15), Token')
<1>1. look' \in AllTokens \cup {"END"} /\ todo' \in Seq(Items)
  BY TokensAssumption DEF TypeOK
<1>2. Outcome' = "reading"
  BY DEF Parsing, Outcome
<1>3. Reading'
  BY <1>2 DEF Reading
<1>4. Token' = Seen(look')
  BY <1>3 DEF Token, Seen
<1>5. Consumed' = MaxTokens - left' + past' - (IF look' = "END" THEN 0 ELSE 1)
  BY <1>3 DEF Consumed
<1>6. Pending' = Settle(WordsOf(todo', 15), Token')
  BY <1>1, <1>3, WordsAre DEF Pending
<1> QED
  BY <1>1, <1>2, <1>4, <1>5, <1>6, SeenIs

(* A step of the parser that consumes nothing.                             *)
LEMMA Quiet ==
  ASSUME TypeOK, TypeOK', Parsing, UNCHANGED <<input, errors, status>>,
         Becomes(WordsOf(todo, 15), WordsOf(todo', 15), Seen(look))
  PROVE  [Language!Next]_Language!vars
<1>1. UNCHANGED <<look, left, past>> /\ Parsing'
  BY DEF input, Parsing
<1>2. Outcome' = Outcome /\ Token' = Token /\ Consumed' = Consumed /\ Outcome = "reading"
      /\ Pending = Settle(WordsOf(todo, 15), Token) /\ Token = Seen(look)
      /\ Pending' = Settle(WordsOf(todo', 15), Token)
  BY <1>1, Observed, ObservedNext
<1>3. \/ Pending' = Pending
      \/ Pending \notin {<<>>, Stuck} /\ Pending' \in ExpansionsOf(Pending, Token)
  BY <1>2 DEF Becomes
<1>4. CASE Pending' = Pending
  BY <1>2, <1>4 DEF Language!vars
<1>5. CASE Pending \notin {<<>>, Stuck} /\ Pending' \in ExpansionsOf(Pending, Token)
  <2>1. Pending' \in Language!Expansions(Pending)
    BY <1>5, SameGrammar DEF Language!Expansions, ExpansionsOf
  <2>2. Language!Read
    BY <1>2, <1>5, <2>1, SameGrammar DEF Language!Read, Language!Expand
  <2> QED
    BY <2>2 DEF Language!Next
<1> QED
  BY <1>3, <1>4, <1>5

(* A step that consumes a token.                                           *)
LEMMA Advancing ==
  ASSUME TypeOK, TypeOK', Parsing, Advance, UNCHANGED <<errors, status>>,
         Takes(WordsOf(todo, 15), WordsOf(todo', 15), Seen(look))
  PROVE  [Language!Next]_Language!vars
<1>1. Parsing'
  BY DEF Parsing
<1>2. /\ Outcome' = "reading" /\ Outcome = "reading" /\ Token' \in Terminals
      /\ Pending = Settle(WordsOf(todo, 15), Token) /\ Token = Seen(look)
      /\ Pending' = Settle(WordsOf(todo', 15), Token')
  BY <1>1, Observed, ObservedNext
<1>3. Consumed' = Consumed + 1
  <2>1. /\ Consumed = MaxTokens - left + past - (IF look = "END" THEN 0 ELSE 1)
        /\ Consumed' = MaxTokens - left' + past' - (IF look' = "END" THEN 0 ELSE 1)
    BY <1>1, Observed, ObservedNext
  <2>2. MaxTokens \in Int /\ left \in Int /\ past \in Int
    <3>1. MaxTokens \in Nat /\ left \in 0..MaxTokens /\ past \in Nat
      BY TokensAssumption DEF TypeOK
    <3> QED
      BY <3>1
  <2>3. /\ left' = IF look' = "END" THEN left ELSE left - 1
        /\ past' = IF look = "END" THEN past + 1 ELSE past
        /\ look = "END" => look' = "END"
    BY DEF Advance
  <2> QED
    BY <2>1, <2>2, <2>3
<1>4. PICK u \in {Pending} \cup ExpansionsOf(Pending, Token) :
        Head(u) = Token /\ WordsOf(todo', 15) = Tail(u)
  BY <1>2 DEF Takes
<1>5. Pending \notin {<<>>, Stuck}
  BY <1>2 DEF Takes
<1>6. u \in {Pending} \cup Language!Expansions(Pending)
  BY <1>4, SameGrammar DEF Language!Expansions, ExpansionsOf
<1>7. Language!Match(Pending)
  BY <1>2, <1>3, <1>4, <1>6, SameGrammar DEF Language!Match
<1>8. Language!Read
  BY <1>2, <1>5, <1>7, SameGrammar DEF Language!Read
<1> QED
  BY <1>8 DEF Language!Next

(* A step that ends the reading.                                           *)
LEMMA Fails ==
  ASSUME TypeOK, Parsing, Outcome' = "error", Settle(WordsOf(todo, 15), Seen(look)) = Stuck
  PROVE  [Language!Next]_Language!vars
<1>1. Outcome = "reading" /\ Pending = Stuck
  BY Observed
<1>2. ~Reading'
  BY DEF Reading
<1>3. Pending' = <<>> /\ Token' = "END" /\ Consumed' = 0
  BY <1>2 DEF Pending, Token, Consumed
<1>4. Language!Error
  BY <1>1, <1>3, SameGrammar DEF Language!Error, Language!End
<1> QED
  BY <1>4 DEF Language!Next

LEMMA Refuses ==
  ASSUME TypeOK, Parsing, Outcome' = "refused"
  PROVE  [Language!Next]_Language!vars
<1>1. Outcome = "reading"
  BY Observed
<1>2. ~Reading'
  BY DEF Reading
<1>3. Pending' = <<>> /\ Token' = "END" /\ Consumed' = 0
  BY <1>2 DEF Pending, Token, Consumed
<1>4. Language!Refuse
  BY <1>1, <1>3 DEF Language!Refuse, Language!End
<1> QED
  BY <1>4 DEF Language!Next

LEMMA Accepts ==
  ASSUME TypeOK, Parsing, Parsed
  PROVE  [Language!Next]_Language!vars
<1>1. /\ todo = <<>> /\ status' = "parsed" /\ errors' = "none"
      /\ UNCHANGED <<look, left, past, todo>>
  BY DEF Parsed, Parsing, input
<1>2. Outcome = "reading" /\ Outcome' = "sentence"
  BY <1>1, Observed DEF Outcome
<1>3. Reading /\ Reading'
  BY <1>2 DEF Reading
<1>4. Token' = Token /\ Consumed' = Consumed
  BY <1>1, <1>3 DEF Token, Consumed
<1>5. Words(todo) = <<>>
  BY <1>1 DEF Words
<1>6. Pending = <<>> /\ Pending' = Pending
  BY <1>1, <1>3, <1>4, <1>5, SettleNothing DEF Pending
<1>7. Language!Accept
  BY <1>2, <1>4, <1>6 DEF Language!Accept
<1> QED
  BY <1>7 DEF Language!Next

(* After an error, or at the end, nothing is seen any more.                *)
LEMMA Unseen ==
  ASSUME (errors = "some" /\ errors' = "some") \/ UNCHANGED vars
  PROVE  [Language!Next]_Language!vars
<1>1. CASE errors = "some" /\ errors' = "some"
  <2>1. Outcome = "error" /\ Outcome' = "error"
    BY <1>1 DEF Outcome
  <2>2. ~Reading /\ ~Reading'
    BY <2>1 DEF Reading
  <2> QED
    BY <2>1, <2>2 DEF Language!vars, Pending, Token, Consumed
<1>2. CASE UNCHANGED vars
  <2>1. UNCHANGED <<look, left, past, todo, errors, status>>
    BY <1>2 DEF vars
  <2>2. Outcome' = Outcome
    BY <2>1 DEF Outcome
  <2>3. Reading' = Reading
    BY <2>2 DEF Reading
  <2>4. Token' = Token /\ Consumed' = Consumed
    BY <2>1, <2>3 DEF Token, Consumed
  <2>5. Pending' = Pending
    BY <2>1, <2>3, <2>4 DEF Pending
  <2> QED
    BY <2>2, <2>4, <2>5 DEF Language!vars
<1> QED
  BY <1>1, <1>2

LEMMA HeadToDo ==
  ASSUME TypeOK, todo # <<>>
  PROVE  \E x \in Items, s \in Seq(Items) : x = Head(todo) /\ s = Tail(todo) /\ todo = <<x>> \o s
<1>1. todo \in Seq(Items)
  BY DEF TypeOK
<1>2. /\ todo = <<todo[1]>> \o Tail(todo) /\ todo[1] = Head(todo)
      /\ todo[1] \in Items /\ Tail(todo) \in Seq(Items)
  BY <1>1, HeadInFront
<1> QED
  BY <1>2

(* The words of what is to do, the innermost call and those behind it.     *)
LEMMA WordsSplit ==
  ASSUME TypeOK, todo # <<>>
  PROVE  /\ Head(todo) \in Items /\ Tail(todo) \in Seq(Items)
         /\ WordsOf(Tail(todo), 15) \in Seq(Spellings)
         /\ WordsOf(todo, 15) =
              SymbolsOf(Head(todo), 15) \o WordsOf(Tail(todo), Highest(Head(todo)))
<1>1. PICK x \in Items, s \in Seq(Items) : x = Head(todo) /\ s = Tail(todo) /\ todo = <<x>> \o s
  BY HeadToDo
<1>2. /\ WordsOf(<<x>> \o s, 15) = SymbolsOf(x, 15) \o WordsOf(s, Highest(x))
      /\ WordsOf(s, 15) \in Seq(Spellings)
  BY WordsIs
<1> QED
  BY <1>1, <1>2

LEMMA CallWords ==
  ASSUME TypeOK, todo # <<>>, Head(todo).op \in Deriving
  PROVE  WordsOf(todo, 15) = Derived[Head(todo).op] \o WordsOf(Tail(todo), 15)
<1>1. PICK x \in Items, s \in Seq(Items) : x = Head(todo) /\ s = Tail(todo) /\ todo = <<x>> \o s
  BY HeadToDo
<1>2. Spells(<<x>>, Derived[x.op])
  BY <1>1, Calls
<1>3. WordsOf(<<x>> \o s, 15) = Derived[x.op] \o WordsOf(s, 15)
  BY <1>2 DEF Spells
<1> QED
  BY <1>1, <1>3

LEMMA WordsThen ==
  ASSUME TypeOK, todo # <<>>, NEW p, NEW q, Spells(p, q), Then(p)
  PROVE  WordsOf(todo', 15) = q \o WordsOf(Tail(todo), 15)
<1>1. Tail(todo) \in Seq(Items) /\ todo' = p \o Tail(todo)
  BY WordsSplit DEF Then
<1> QED
  BY <1>1 DEF Spells

(* A call is replaced by what a production of its nonterminal says.        *)
LEMMA RewritesBy ==
  ASSUME TypeOK, TypeOK', Parsing, UNCHANGED <<input, errors, status>>,
         NEW op \in Deriving, Doing(op), NEW X \in Nonterminals, Derived[op] = <<X>>,
         NEW p, NEW q \in Productions[X], q # <<>>, Spells(p, q), Then(p),
         Seen(look) \in First[X] => Seen(look) \in First[q[1]],
         X \in Nullable /\ Seen(look) \notin First[X] =>
           Settle(WordsOf(Tail(todo), 15), Seen(look)) = Stuck
  PROVE  [Language!Next]_Language!vars
<1>1. todo # <<>> /\ Head(todo).op = op
  BY DEF Doing
<1>2. PICK r \in Seq(Spellings), t \in Terminals :
        r = WordsOf(Tail(todo), 15) /\ t = Seen(look)
  <2>1. look \in AllTokens \cup {"END"}
    BY TokensAssumption DEF TypeOK
  <2> QED
    BY <1>1, <2>1, WordsSplit, SeenIs
<1>3. Becomes(<<X>> \o r, q \o r, t)
  BY <1>2, Replacing
<1>4. WordsOf(todo, 15) = <<X>> \o r
  BY <1>1, <1>2, CallWords
<1>5. WordsOf(todo', 15) = q \o r
  BY <1>1, <1>2, WordsThen
<1> QED
  BY <1>2, <1>3, <1>4, <1>5, Quiet

(* A call ends, deriving nothing.                                          *)
LEMMA EndsQuietly ==
  ASSUME TypeOK, TypeOK', Parsing, UNCHANGED <<input, errors, status>>,
         NEW op \in Deriving, Doing(op), NEW X \in Nullable, Derived[op] = <<X>>,
         Then(<<>>), Seen(look) \notin First[X]
  PROVE  [Language!Next]_Language!vars
<1>1. todo # <<>> /\ Head(todo).op = op
  BY DEF Doing
<1>2. PICK r \in Seq(Spellings) : r = WordsOf(Tail(todo), 15)
  BY <1>1, WordsSplit
<1>3. Becomes(<<X>> \o r, r, Seen(look))
  BY <1>2, Dropping
<1>4. WordsOf(todo, 15) = <<X>> \o r
  BY <1>1, <1>2, CallWords
<1>5. WordsOf(todo', 15) = r
  <2>1. WordsOf(todo', 15) = <<>> \o r
    BY <1>1, <1>2, SpellsNothing, WordsThen
  <2> QED
    BY <1>2, <2>1, NoneAround
<1> QED
  BY <1>3, <1>4, <1>5, Quiet

(* An item that derives nothing is done.                                   *)
LEMMA DoneSilently ==
  ASSUME TypeOK, TypeOK', Parsing, UNCHANGED <<input, errors, status>>,
         NEW op \in Ops, Doing(op), op \notin Deriving \cup {"expect", "rhs", "inner"},
         Then(<<>>)
  PROVE  [Language!Next]_Language!vars
<1>1. todo # <<>> /\ Head(todo).op = op
  BY DEF Doing
<1>2. PICK x \in Items, s \in Seq(Items) : x = Head(todo) /\ s = Tail(todo) /\ todo = <<x>> \o s
  BY <1>1, HeadToDo
<1>3. WordsOf(todo, 15) = <<>> \o WordsOf(Tail(todo), 15)
  <2>1. Spells(<<x>>, <<>>)
    BY <1>1, <1>2, Calls
  <2>2. WordsOf(<<x>> \o s, 15) = <<>> \o WordsOf(s, 15)
    BY <2>1 DEF Spells
  <2> QED
    BY <1>2, <2>2
<1>4. WordsOf(todo', 15) = <<>> \o WordsOf(Tail(todo), 15)
  BY <1>1, SpellsNothing, WordsThen
<1>5. Becomes(WordsOf(todo, 15), WordsOf(todo', 15), Seen(look))
  BY <1>3, <1>4 DEF Becomes
<1> QED
  BY <1>5, Quiet

(* A call consumes the first token of a production.                        *)
LEMMA TakesBy ==
  ASSUME TypeOK, TypeOK', Parsing, Advance, UNCHANGED <<errors, status>>,
         NEW op \in Deriving, Doing(op), NEW X \in Nonterminals, Derived[op] = <<X>>,
         NEW p, NEW q \in Productions[X], q # <<>>, q[1] \in Terminals,
         Spells(p, Tail(q)), Then(p), Seen(look) = q[1]
  PROVE  [Language!Next]_Language!vars
<1>1. todo # <<>> /\ Head(todo).op = op
  BY DEF Doing
<1>2. PICK r \in Seq(Spellings) : r = WordsOf(Tail(todo), 15)
  BY <1>1, WordsSplit
<1>3. Takes(<<X>> \o r, Tail(q) \o r, q[1])
  BY <1>2, TakesFirst
<1>4. WordsOf(todo, 15) = <<X>> \o r
  BY <1>1, <1>2, CallWords
<1>5. WordsOf(todo', 15) = Tail(q) \o r
  BY <1>1, <1>2, WordsThen
<1> QED
  BY <1>3, <1>4, <1>5, Advancing

(* The next token is not the one that has to come.                         *)
LEMMA StuckAt ==
  ASSUME NEW s \in Seq(Items), s # <<>>, NEW tok \in (AllTokens \cup {"END"}) \ {"TYPE"},
         s[1] = Expect(tok), NEW t, t # tok
  PROVE  Settle(WordsOf(s, 15), t) = Stuck
<1>1. Expect(tok) \in Items /\ tok \in Spellings /\ Spells(<<Expect(tok)>>, <<tok>>)
  BY TokensSpell
<1>2. PICK r \in Seq(Items) : s = <<Expect(tok)>> \o r
  BY HeadInFront
<1>3. WordsOf(s, 15) = <<tok>> \o WordsOf(r, 15) /\ WordsOf(r, 15) \in Seq(Spellings)
  BY <1>1, <1>2, WordsIs DEF Spells
<1>4. tok \in Terminals /\ First[tok] = {tok}
  BY SymbolsAre, FirstIs
<1>5. tok \in Symbols \ Nullable
  BY <1>4, SymbolsAre DEF Nullable
<1>6. PICK v \in Seq(Spellings) : v = WordsOf(r, 15)
  BY <1>3
<1>7. Settle(<<tok>> \o v, t) = Stuck
  BY <1>4, <1>5, SettleSticks
<1> QED
  BY <1>3, <1>6, <1>7

LEMMA LookIs ==
  ASSUME TypeOK
  PROVE  /\ look \in AllTokens \cup {"END"} /\ Seen(look) \in Terminals
         /\ look \notin Identifiers => Seen(look) = look
         /\ look \in Identifiers => Seen(look) = "NAME"
         /\ \A tok \in Terminals \ {"NAME"} : Seen(look) = tok <=> look = tok
<1>1. look \in AllTokens \cup {"END"}
  BY TokensAssumption DEF TypeOK
<1>2. Seen(look) \in Terminals
  BY <1>1, SeenIs
<1>3. "TYPE" \notin Terminals
  BY DEF Terminals
<1>4. look = "NAME" \/ look = "TYPE" <=> look \in Identifiers
  BY DEF Identifiers
<1> QED
  BY <1>1, <1>2, <1>3, <1>4 DEF Seen

(* Each action of the parser is a step of the machine, or changes nothing  *)
(* of what it sees.                                                        *)
LEMMA ProgramImplements ==
  ASSUME Inv, TypeOK', Parsing, ProgramStep
  PROVE  [Language!Next]_Language!vars
<1>1. /\ todo # <<>> /\ Head(todo).op = "program" /\ Doing("program")
      /\ UNCHANGED <<input, errors, status>> /\ TypeOK
  BY DEF ProgramStep, Doing, Inv
<1>2. Settle(WordsOf(Tail(todo), 15), Seen(look)) = Stuck \/ Seen(look) = "END"
  <2>1. Head(todo) # Expect("END")
    BY <1>1, ExpectFields
  <2>2. Tail(todo) \in Seq(Items) /\ Tail(todo) # <<>> /\ Tail(todo)[1] = Expect("END")
    BY <1>1, <2>1, Within DEF Fits
  <2> QED
    BY <2>2, StuckAt
<1>3. /\ "program" \in Deriving /\ Derived["program"] = <<"Program">>
      /\ "Program" \in Nonterminals /\ "Program" \in Nullable
  BY DerivingIs, NonterminalsAre, NullableAre DEF Derived
<1>4. First["Program"] = {"FUNCTION", "EXTERN", "VAR"} \cup Operands
  BY FirstIs
<1>5. "END" \notin First["Program"]
  BY <1>4 DEF Operands
<1>6. /\ "FUNCTION" \in First["FUNCTION"] /\ "EXTERN" \in First["EXTERN"] /\ "VAR" \in First["VAR"]
      /\ First["Expr"] = Operands
  BY FirstIs DEF Terminals
<1>7. CASE look = "END"
  <2>1. Then(<<>>)
    BY <1>7 DEF ProgramStep
  <2>2. Seen(look) = "END"
    BY <1>7 DEF Seen, Identifiers
  <2> QED
    BY <1>1, <1>3, <1>5, <2>1, <2>2, EndsQuietly
<1>8. CASE look = "FUNCTION"
  <2> DEFINE q == Header \o <<"Block", "Program">>
             p == FunctionDef \o <<Item("program")>>
  <2>1. Then(p) /\ Spells(p, q) /\ Seen(look) = "FUNCTION"
    BY <1>8, ProgramSpells DEF ProgramStep, Seen, Identifiers
  <2>2. q \in Productions["Program"]
    BY ProductionsAre
  <2>3. q # <<>> /\ q[1] = "FUNCTION"
    BY DEF Header
  <2> HIDE DEF p, q
  <2> QED
    BY <1>1, <1>2, <1>3, <1>6, <2>1, <2>2, <2>3, RewritesBy
<1>9. CASE look = "EXTERN"
  <2> DEFINE q == <<"EXTERN">> \o Header \o <<"SEMICOLON", "Program">>
             p == ExternDef \o <<Item("program")>>
  <2>1. Then(p) /\ Spells(p, q) /\ Seen(look) = "EXTERN"
    BY <1>9, ProgramSpells DEF ProgramStep, Seen, Identifiers
  <2>2. q \in Productions["Program"]
    BY ProductionsAre
  <2>3. q # <<>> /\ q[1] = "EXTERN"
    BY DEF Header
  <2> HIDE DEF p, q
  <2> QED
    BY <1>1, <1>2, <1>3, <1>6, <2>1, <2>2, <2>3, RewritesBy
<1>10. CASE look = "VAR"
  <2> DEFINE q == Variable \o <<"Program">>
             p == VarDecl \o <<Item("program")>>
  <2>1. Then(p) /\ Spells(p, q) /\ Seen(look) = "VAR"
    BY <1>10, ProgramSpells DEF ProgramStep, Seen, Identifiers
  <2>2. q \in Productions["Program"]
    BY ProductionsAre
  <2>3. q # <<>> /\ q[1] = "VAR"
    BY DEF Variable
  <2> HIDE DEF p, q
  <2> QED
    BY <1>1, <1>2, <1>3, <1>6, <2>1, <2>2, <2>3, RewritesBy
<1>11. CASE look \notin {"END", "FUNCTION", "EXTERN", "VAR"}
  <2> DEFINE q == <<"Expr", "SEMICOLON", "Program">>
             p == ExprStmt \o <<Item("program")>>
  <2>1. Then(p)
    BY <1>11 DEF ProgramStep
  <2>2. Spells(p, q)
    BY ProgramSpells
  <2>3. Seen(look) \notin {"END", "FUNCTION", "EXTERN", "VAR"}
    BY <1>11 DEF Seen, Identifiers
  <2>4. q \in Productions["Program"]
    BY ProductionsAre
  <2>5. q # <<>> /\ q[1] = "Expr"
    OBVIOUS
  <2>6. Seen(look) \in First["Program"] => Seen(look) \in First[q[1]]
    BY <1>4, <1>6, <2>3, <2>5
  <2> HIDE DEF p, q
  <2> QED
    BY <1>1, <1>2, <1>3, <2>1, <2>2, <2>3, <2>4, <2>5, <2>6, RewritesBy
<1> QED
  BY <1>7, <1>8, <1>9, <1>10, <1>11

LEMMA StmtsImplements ==
  ASSUME Inv, TypeOK', Parsing, Stmts
  PROVE  [Language!Next]_Language!vars
<1> DEFINE h == Head(todo)
           x == [h EXCEPT !.n = IF h.n = 0 THEN 0 ELSE 2]
           y == [h EXCEPT !.n = IF h.n = 0 THEN 1 ELSE 2]
<1>1. /\ todo # <<>> /\ Head(todo).op = "stmts" /\ Doing("stmts")
      /\ UNCHANGED <<input, errors, status>> /\ TypeOK
  BY DEF Stmts, Doing, Inv
<1>2. /\ h \in Items /\ x \in Items /\ x.op = "stmts" /\ y \in Items /\ y.op = "stmts"
  <2>1. h \in Items /\ h.op = "stmts"
    BY <1>1, HeadToDo
  <2> HIDE DEF h
  <2> QED
    BY <2>1 DEF Items
<1>3. Settle(WordsOf(Tail(todo), 15), Seen(look)) = Stuck \/ Seen(look) = "CCBRACE"
  <2>1. Head(todo) # Expect("END")
    BY <1>1, ExpectFields
  <2>2. Tail(todo) \in Seq(Items) /\ Tail(todo) # <<>> /\ Tail(todo)[1] = Expect("CCBRACE")
    BY <1>1, <2>1, Within DEF Fits
  <2>3. "CCBRACE" \in (AllTokens \cup {"END"}) \ {"TYPE"}
    BY DEF AllTokens
  <2> QED
    BY <2>2, <2>3, StuckAt
<1>4. /\ "stmts" \in Deriving /\ Derived["stmts"] = <<"Stmts">>
      /\ "Stmts" \in Nonterminals /\ "Stmts" \in Nullable
  BY DerivingIs, NonterminalsAre, NullableAre DEF Derived
<1>5. First["Stmts"] = {"VAR", "IF", "FOR", "RETURN"} \cup Operands
  BY FirstIs
<1>6. /\ "VAR" \in First["VAR"] /\ "IF" \in First["IF"] /\ "FOR" \in First["FOR"]
      /\ "RETURN" \in First["RETURN"] /\ First["Expr"] = Operands
  BY FirstIs DEF Terminals
<1>7. CASE look \in {"CCBRACE", "END"}
  <2>1. Then(<<>>)
    BY <1>7 DEF Stmts
  <2>2. Seen(look) \in {"CCBRACE", "END"}
    BY <1>7 DEF Seen, Identifiers
  <2>3. Seen(look) \notin First["Stmts"]
    BY <1>5, <2>2 DEF Operands
  <2> QED
    BY <1>1, <1>4, <2>1, <2>3, EndsQuietly
<1>8. CASE look = "VAR"
  <2> DEFINE q == Variable \o <<"Stmts">>
             p == VarDecl \o <<x>>
  <2>1. Then(p)
    BY <1>8 DEF Stmts
  <2>2. Spells(p, q) /\ Seen(look) = "VAR"
    BY <1>2, <1>8, StmtsSpell DEF Seen, Identifiers
  <2>3. q \in Productions["Stmts"]
    BY ProductionsAre
  <2>4. q # <<>> /\ q[1] = "VAR"
    BY DEF Variable
  <2> HIDE DEF p, q
  <2> QED
    BY <1>1, <1>3, <1>4, <1>6, <2>1, <2>2, <2>3, <2>4, RewritesBy
<1>9. CASE look = "IF"
  <2> DEFINE q == <<"IF", "OBRACE", "Expr", "CBRACE", "Block", "Else", "Stmts">>
             p == IfStmt \o <<x>>
  <2>1. Then(p)
    BY <1>9 DEF Stmts
  <2>2. Spells(p, q) /\ Seen(look) = "IF"
    BY <1>2, <1>9, StmtsSpell DEF Seen, Identifiers
  <2>3. q \in Productions["Stmts"]
    BY ProductionsAre
  <2>4. q # <<>> /\ q[1] = "IF"
    OBVIOUS
  <2> HIDE DEF p, q
  <2> QED
    BY <1>1, <1>3, <1>4, <1>6, <2>1, <2>2, <2>3, <2>4, RewritesBy
<1>10. CASE look = "FOR"
  <2> DEFINE q == <<"FOR", "OBRACE", "NAME", "ASSIGN", "Expr", "SEMICOLON", "Expr",
                    "SEMICOLON", "Expr", "CBRACE", "Block", "Stmts">>
             p == ForStmt \o <<x>>
  <2>1. Then(p)
    BY <1>10 DEF Stmts
  <2>2. Spells(p, q) /\ Seen(look) = "FOR"
    BY <1>2, <1>10, StmtsSpell DEF Seen, Identifiers
  <2>3. q \in Productions["Stmts"]
    BY ProductionsAre
  <2>4. q # <<>> /\ q[1] = "FOR"
    OBVIOUS
  <2> HIDE DEF p, q
  <2> QED
    BY <1>1, <1>3, <1>4, <1>6, <2>1, <2>2, <2>3, <2>4, RewritesBy
<1>11. CASE look = "RETURN"
  <2> DEFINE q == <<"RETURN", "Value", "Stmts">>
             p == <<Expect("RETURN"), Item("retval"), Item("returned"), y>>
  <2>1. Then(p)
    BY <1>11 DEF Stmts
  <2>2. Spells(p, q) /\ Seen(look) = "RETURN"
    BY <1>2, <1>11, StmtsSpell DEF Seen, Identifiers
  <2>3. q \in Productions["Stmts"]
    BY ProductionsAre
  <2>4. q # <<>> /\ q[1] = "RETURN"
    OBVIOUS
  <2> HIDE DEF p, q
  <2> QED
    BY <1>1, <1>3, <1>4, <1>6, <2>1, <2>2, <2>3, <2>4, RewritesBy
<1>12. CASE look \notin {"CCBRACE", "END", "VAR", "IF", "FOR", "RETURN"}
  <2> DEFINE q == <<"Expr", "SEMICOLON", "Stmts">>
             p == ExprStmt \o <<x>>
  <2>1. Then(p)
    BY <1>12 DEF Stmts
  <2>2. Spells(p, q)
    BY <1>2, StmtsSpell
  <2>3. Seen(look) \notin {"CCBRACE", "END", "VAR", "IF", "FOR", "RETURN"}
    BY <1>12 DEF Seen, Identifiers
  <2>4. q \in Productions["Stmts"]
    BY ProductionsAre
  <2>5. q # <<>> /\ q[1] = "Expr"
    OBVIOUS
  <2>6. Seen(look) \in First["Stmts"] => Seen(look) \in First[q[1]]
    BY <1>5, <1>6, <2>3, <2>5
  <2> HIDE DEF p, q
  <2> QED
    BY <1>1, <1>3, <1>4, <2>1, <2>2, <2>3, <2>4, <2>5, <2>6, RewritesBy
<1> QED
  BY <1>7, <1>8, <1>9, <1>10, <1>11, <1>12

(* Calls that consume nothing, whatever comes next.                        *)
LEMMA SilentImplements ==
  ASSUME Inv, TypeOK', Parsing, Returned \/ EndBlock \/ FunName \/ TypeName \/ Define
  PROVE  [Language!Next]_Language!vars
<1> DEFINE S == {"returned", "endblock", "funname", "typename", "define"}
<1>1. /\ \E op \in S : Doing(op)
      /\ Then(<<>>) /\ UNCHANGED <<input, errors, status>> /\ TypeOK
  BY DEF Returned, EndBlock, FunName, TypeName, Define, Inv
<1>2. \A op \in S : op \in Ops /\ op \notin Deriving \cup {"expect", "rhs", "inner"}
  BY DerivingIs DEF Ops
<1> HIDE DEF S
<1> QED
  BY <1>1, <1>2, DoneSilently

LEMMA ChecksImplement ==
  ASSUME Inv, TypeOK', Parsing, TypeCheck \/ CheckArgs
  PROVE  [Language!Next]_Language!vars
<1> DEFINE S == {"typecheck", "checkargs"}
<1>1. /\ TypeOK
      /\ \E op \in S : Doing(op)
      /\ \/ status' \in {"exit", "abort"} /\ UNCHANGED <<todo, errors>>
         \/ Then(<<>>) /\ UNCHANGED <<input, errors, status>>
  BY DEF TypeCheck, CheckArgs, Halt, Inv
<1>2. \A op \in S : op \in Ops /\ op \notin Deriving \cup {"expect", "rhs", "inner"}
  BY DerivingIs DEF Ops
<1>3. CASE status' \in {"exit", "abort"} /\ UNCHANGED <<todo, errors>>
  <2>1. Head(todo').op # "prim" /\ errors' = "none"
    BY <1>1, <1>3 DEF Doing, Parsing
  <2>2. Outcome' = "refused"
    BY <1>3, <2>1 DEF Outcome
  <2> QED
    BY <1>1, <2>2, Refuses
<1>4. CASE Then(<<>>) /\ UNCHANGED <<input, errors, status>>
  <2> HIDE DEF S
  <2> QED
    BY <1>1, <1>2, <1>4, DoneSilently
<1> QED
  BY <1>1, <1>3, <1>4

LEMMA BlockImplements ==
  ASSUME Inv, TypeOK', Parsing, Block
  PROVE  [Language!Next]_Language!vars
<1> DEFINE q == <<"OCBRACE", "Stmts", "CCBRACE">>
           p == BlockBody
<1>1. Doing("block") /\ Then(p) /\ UNCHANGED <<input, errors, status>> /\ TypeOK
  BY DEF Block, Inv
<1>2. /\ "block" \in Deriving /\ Derived["block"] = <<"Block">>
      /\ "Block" \in Nonterminals /\ "Block" \notin Nullable
  BY DerivingIs, NonterminalsAre, NullableAre DEF Derived
<1>3. Spells(p, q) /\ q \in Productions["Block"] /\ q # <<>> /\ q[1] = "OCBRACE"
  BY RoutinesSpell, ProductionsAre
<1>4. First["Block"] = First["OCBRACE"]
  BY FirstIs DEF Terminals
<1> HIDE DEF p, q
<1> QED
  BY <1>1, <1>2, <1>3, <1>4, RewritesBy

LEMMA RetValImplements ==
  ASSUME Inv, TypeOK', Parsing, RetVal
  PROVE  [Language!Next]_Language!vars
<1>1. Doing("retval") /\ UNCHANGED <<input, errors, status>> /\ TypeOK
  BY DEF RetVal, Inv
<1>2. /\ "retval" \in Deriving /\ Derived["retval"] = <<"Value">>
      /\ "Value" \in Nonterminals /\ "Value" \notin Nullable
  BY DerivingIs, NonterminalsAre, NullableAre DEF Derived
<1>3. /\ First["Value"] = {"SEMICOLON"} \cup Operands /\ First["SEMICOLON"] = {"SEMICOLON"}
      /\ First["Expr"] = Operands
  BY FirstIs DEF Terminals
<1>4. CASE look = "SEMICOLON"
  <2> DEFINE q == <<"SEMICOLON">>
             p == <<Expect("SEMICOLON")>>
  <2>1. Then(p) /\ Spells(p, q) /\ Seen(look) = "SEMICOLON"
    BY <1>4, CallsSpell DEF RetVal, Seen, Identifiers
  <2>2. q \in Productions["Value"] /\ q # <<>> /\ q[1] = "SEMICOLON"
    BY ProductionsAre
  <2> HIDE DEF p, q
  <2> QED
    BY <1>1, <1>2, <1>3, <2>1, <2>2, RewritesBy
<1>5. CASE look # "SEMICOLON"
  <2> DEFINE q == <<"Expr", "SEMICOLON">>
             p == ExprStmt
  <2>1. Then(p) /\ Spells(p, q) /\ Seen(look) # "SEMICOLON"
    BY <1>5, RoutinesSpell DEF RetVal, Seen, Identifiers
  <2>2. q \in Productions["Value"] /\ q # <<>> /\ q[1] = "Expr"
    BY ProductionsAre
  <2>3. Seen(look) \in First["Value"] => Seen(look) \in First[q[1]]
    BY <1>3, <2>1, <2>2
  <2> HIDE DEF p, q
  <2> QED
    BY <1>1, <1>2, <2>1, <2>2, <2>3, RewritesBy
<1> QED
  BY <1>4, <1>5

LEMMA ElseImplements ==
  ASSUME Inv, TypeOK', Parsing, Else
  PROVE  [Language!Next]_Language!vars
<1>1. Doing("else") /\ UNCHANGED <<input, errors, status>> /\ TypeOK
  BY DEF Else, Inv
<1>2. /\ "else" \in Deriving /\ Derived["else"] = <<"Else">>
      /\ "Else" \in Nonterminals /\ "Else" \in Nullable
  BY DerivingIs, NonterminalsAre, NullableAre DEF Derived
<1>3. First["Else"] = {"ELSE"} /\ First["ELSE"] = {"ELSE"}
  BY FirstIs DEF Terminals
<1>4. CASE look = "ELSE"
  <2> DEFINE q == <<"ELSE", "Block">>
             p == <<Expect("ELSE"), Item("block")>>
  <2>1. Then(p) /\ Spells(p, q) /\ Seen(look) = "ELSE"
    BY <1>4, CallsSpell DEF Else, Seen, Identifiers
  <2>2. q \in Productions["Else"] /\ q # <<>> /\ q[1] = "ELSE"
    BY ProductionsAre
  <2>3. Seen(look) \in First["Else"]
    BY <1>3, <2>1
  <2> HIDE DEF p, q
  <2> QED
    BY <1>1, <1>2, <1>3, <2>1, <2>2, <2>3, RewritesBy
<1>5. CASE look # "ELSE"
  <2>1. Then(<<>>) /\ Seen(look) \notin First["Else"]
    BY <1>3, <1>5 DEF Else, Seen, Identifiers
  <2> QED
    BY <1>1, <1>2, <2>1, EndsQuietly
<1> QED
  BY <1>4, <1>5

LEMMA ParamsImplement ==
  ASSUME Inv, TypeOK', Parsing, Params
  PROVE  [Language!Next]_Language!vars
<1>1. Doing("params") /\ UNCHANGED <<errors, status>> /\ TypeOK
  BY DEF Params, Inv
<1>2. /\ "params" \in Deriving /\ Derived["params"] = <<"Params">>
      /\ "Params" \in Nonterminals /\ "Params" \notin Nullable
  BY DerivingIs, NonterminalsAre, NullableAre DEF Derived
<1>3. First["Params"] = {"CBRACE", "NAME"} /\ First["Param"] = {"NAME"} /\ "CBRACE" \in Terminals
  BY FirstIs DEF Terminals
<1>4. CASE look = "CBRACE"
  <2> DEFINE q == <<"CBRACE">>
             p == <<>>
  <2>1. Advance /\ Then(p) /\ Seen(look) = "CBRACE"
    BY <1>4 DEF Params, Seen, Identifiers
  <2>2. q \in Productions["Params"] /\ q # <<>> /\ q[1] = "CBRACE" /\ Tail(q) = <<>>
    BY ProductionsAre
  <2>3. Spells(p, Tail(q))
    BY <2>2, SpellsNothing
  <2> HIDE DEF p, q
  <2> QED
    BY <1>1, <1>2, <1>3, <2>1, <2>2, <2>3, TakesBy
<1>5. CASE look # "CBRACE"
  <2> DEFINE q == <<"Param", "CBRACE">>
             p == <<Item("param"), Expect("CBRACE")>>
  <2>1. Then(p) /\ Spells(p, q) /\ Seen(look) # "CBRACE" /\ UNCHANGED input
    BY <1>5, CallsSpell DEF Params, Seen, Identifiers
  <2>2. q \in Productions["Params"] /\ q # <<>> /\ q[1] = "Param"
    BY ProductionsAre
  <2>3. Seen(look) \in First["Params"] => Seen(look) \in First[q[1]]
    BY <1>3, <2>1, <2>2
  <2> HIDE DEF p, q
  <2> QED
    BY <1>1, <1>2, <2>1, <2>2, <2>3, RewritesBy
<1> QED
  BY <1>4, <1>5

LEMMA ParamImplements ==
  ASSUME Inv, TypeOK', Parsing, Param
  PROVE  [Language!Next]_Language!vars
<1> DEFINE q == <<"NAME", "MoreParams">>
           p == <<Expect("NAME"), Item("moreparams")>>
<1>1. Doing("param") /\ Then(p) /\ UNCHANGED <<input, errors, status>> /\ TypeOK
  BY DEF Param, Inv
<1>2. /\ "param" \in Deriving /\ Derived["param"] = <<"Param">>
      /\ "Param" \in Nonterminals /\ "Param" \notin Nullable
  BY DerivingIs, NonterminalsAre, NullableAre DEF Derived
<1>3. Spells(p, q) /\ q \in Productions["Param"] /\ q # <<>> /\ q[1] = "NAME"
  BY CallsSpell, ProductionsAre
<1>4. First["Param"] = First["NAME"]
  BY FirstIs DEF Terminals
<1> HIDE DEF p, q
<1> QED
  BY <1>1, <1>2, <1>3, <1>4, RewritesBy

LEMMA MoreParamsImplement ==
  ASSUME Inv, TypeOK', Parsing, MoreParams
  PROVE  [Language!Next]_Language!vars
<1>1. Doing("moreparams") /\ UNCHANGED <<errors, status>> /\ TypeOK
  BY DEF MoreParams, Inv
<1>2. /\ "moreparams" \in Deriving /\ Derived["moreparams"] = <<"MoreParams">>
      /\ "MoreParams" \in Nonterminals /\ "MoreParams" \in Nullable
  BY DerivingIs, NonterminalsAre, NullableAre DEF Derived
<1>3. First["MoreParams"] = {"COMMA"} /\ "COMMA" \in Terminals
  BY FirstIs DEF Terminals
<1>4. CASE look = "COMMA"
  <2> DEFINE q == <<"COMMA", "Param">>
             p == <<Item("param")>>
  <2>1. Advance /\ Then(p) /\ Seen(look) = "COMMA"
    BY <1>4 DEF MoreParams, Seen, Identifiers
  <2>2. q \in Productions["MoreParams"] /\ q # <<>> /\ q[1] = "COMMA" /\ Tail(q) = <<"Param">>
    BY ProductionsAre
  <2>3. Spells(p, Tail(q))
    BY <2>2, CallsSpell
  <2> HIDE DEF p, q
  <2> QED
    BY <1>1, <1>2, <1>3, <2>1, <2>2, <2>3, TakesBy
<1>5. CASE look # "COMMA"
  <2>1. Then(<<>>) /\ UNCHANGED input
    BY <1>5 DEF MoreParams
  <2>2. Seen(look) \notin First["MoreParams"]
    BY <1>3, <1>5 DEF Seen, Identifiers
  <2> QED
    BY <1>1, <1>2, <2>1, <2>2, EndsQuietly
<1> QED
  BY <1>4, <1>5

LEMMA ExpectImplements ==
  ASSUME Inv, TypeOK', Parsing, ExpectStep
  PROVE  [Language!Next]_Language!vars
<1> DEFINE tok == Head(todo).tok
<1>1. /\ todo # <<>> /\ Head(todo).op = "expect" /\ status' = status /\ Then(<<>>) /\ TypeOK
  BY DEF ExpectStep, Doing, Inv
<1>2. Head(todo) = Expect(tok) /\ tok \in (AllTokens \cup {"END"}) \ {"TYPE"}
  <2>1. CASE Head(todo) = Expect("END")
    BY <2>1, ExpectFields
  <2>2. CASE Head(todo) # Expect("END")
    <3>1. Fits(Head(todo), Tail(todo)[1]) /\ Head(todo) \in Items
      BY <1>1, <2>2, Within
    <3>2. Head(todo) = Expect(tok) /\ tok \notin {"TYPE", ""}
      BY <1>1, <3>1 DEF Fits
    <3> QED
      BY <3>1, <3>2 DEF Items
  <2> QED
    BY <2>1, <2>2
<1>3. tok \in Terminals
  BY <1>2, SymbolsAre
<1>4. look \in AllTokens \cup {"END"}
  BY <1>1, LookIs
<1> HIDE DEF tok
<1>5. Sees(tok) <=> Seen(look) = tok
  BY <1>3, <1>4, SeenIs DEF Sees
<1>6. CASE Sees(tok)
  <2>1. Advance /\ errors' = errors
    BY <1>6 DEF ExpectStep, tok
  <2>2. PICK s \in Seq(Items) : s = Tail(todo) /\ todo = <<Expect(tok)>> \o s
    BY <1>1, <1>2, HeadToDo
  <2>3. PICK r \in Seq(Spellings) : r = WordsOf(s, 15)
    BY <1>1, <2>2, WordsSplit
  <2>4. WordsOf(todo, 15) = <<tok>> \o r
    <3>1. Spells(<<Expect(tok)>>, <<tok>>)
      BY <1>2, TokensSpell
    <3> QED
      BY <2>2, <2>3, <3>1 DEF Spells
  <2>5. WordsOf(todo', 15) = r
    <3>1. WordsOf(todo', 15) = <<>> \o r
      BY <1>1, <2>2, <2>3, SpellsNothing, WordsThen
    <3> QED
      BY <2>3, <3>1, NoneAround
  <2>6. Takes(<<tok>> \o r, r, tok)
    BY <1>3, <2>3, TakesTerminal
  <2> QED
    BY <1>1, <1>5, <1>6, <2>1, <2>4, <2>5, <2>6, Advancing
<1>7. CASE ~Sees(tok)
  <2>1. errors' = "some"
    BY <1>7 DEF ExpectStep, tok
  <2>2. Outcome' = "error"
    BY <2>1 DEF Outcome
  <2>3. todo \in Seq(Items) /\ todo[1] = Expect(tok)
    <3>1. todo \in Seq(Items)
      BY <1>1 DEF TypeOK
    <3> QED
      BY <1>1, <1>2, <3>1, HeadInFront
  <2>4. Settle(WordsOf(todo, 15), Seen(look)) = Stuck
    BY <1>1, <1>2, <1>5, <1>7, <2>3, StuckAt
  <2> QED
    BY <1>1, <2>2, <2>4, Fails
<1> QED
  BY <1>6, <1>7

LEMMA PrimImplements ==
  ASSUME Inv, TypeOK', Parsing, Prim
  PROVE  [Language!Next]_Language!vars
<1>1. Doing("prim") /\ todo # <<>> /\ Head(todo).op = "prim" /\ TypeOK
  BY DEF Prim, Doing, Inv
<1>2. /\ "prim" \in Deriving /\ Derived["prim"] = <<"Prim">>
      /\ "Prim" \in Nonterminals /\ "Prim" \notin Nullable /\ "Prim" \in Symbols
  BY DerivingIs, NonterminalsAre, NullableAre, SymbolsAre DEF Derived
<1>3. /\ First["Prim"] = Operands
      /\ {"CONST", "MINUS", "OBRACE", "NAME"} \subseteq Terminals
  BY FirstIs DEF Terminals
<1>4. CASE look \notin {"CONST", "MINUS", "OBRACE"} \cup Identifiers
  <2>1. status' = "exit" /\ UNCHANGED <<todo, errors>>
    BY <1>4 DEF Prim, Halt
  <2>2. Outcome' = "error"
    BY <1>1, <2>1 DEF Outcome
  <2>3. Seen(look) \notin First["Prim"]
    BY <1>3, <1>4 DEF Operands, Seen, Identifiers
  <2>4. PICK r \in Seq(Spellings) : r = WordsOf(Tail(todo), 15)
    BY <1>1, WordsSplit
  <2>5. WordsOf(todo, 15) = <<"Prim">> \o r
    BY <1>1, <1>2, <2>4, CallWords
  <2>6. Settle(<<"Prim">> \o r, Seen(look)) = Stuck
    BY <1>2, <2>3, <2>4, SettleSticks
  <2> QED
    BY <1>1, <2>2, <2>5, <2>6, Fails
<1>5. CASE look \in {"CONST", "MINUS", "OBRACE"} \cup Identifiers
  <2>1. Advance /\ UNCHANGED <<errors, status>>
    BY <1>5 DEF Prim
  <2>2. CASE look = "CONST"
    <3> DEFINE q == <<"CONST">>
               p == <<>>
    <3>1. Then(p) /\ Seen(look) = "CONST"
      BY <2>2 DEF Prim, Seen, Identifiers
    <3>2. q \in Productions["Prim"] /\ q # <<>> /\ q[1] = "CONST" /\ Tail(q) = <<>>
      BY ProductionsAre
    <3>3. Spells(p, Tail(q)) /\ q[1] \in Terminals
      BY <1>3, <3>2, SpellsNothing
    <3> HIDE DEF p, q
    <3> QED
      BY <1>1, <1>2, <2>1, <3>1, <3>2, <3>3, TakesBy
  <2>3. CASE look = "MINUS"
    <3> DEFINE q == <<"MINUS", "Prim">>
               p == <<Item("prim")>>
    <3>1. Then(p) /\ Seen(look) = "MINUS"
      BY <2>3 DEF Prim, Seen, Identifiers
    <3>2. q \in Productions["Prim"] /\ q # <<>> /\ q[1] = "MINUS" /\ Tail(q) = <<"Prim">>
      BY ProductionsAre
    <3>3. Spells(p, Tail(q)) /\ q[1] \in Terminals
      BY <1>3, <3>2, CallsSpell
    <3> HIDE DEF p, q
    <3> QED
      BY <1>1, <1>2, <2>1, <3>1, <3>2, <3>3, TakesBy
  <2>4. CASE look = "OBRACE"
    <3> DEFINE q == <<"OBRACE", "Expr", "CBRACE">>
               p == <<Item("expr"), Expect("CBRACE")>>
    <3>1. Then(p) /\ Seen(look) = "OBRACE"
      BY <2>4 DEF Prim, Seen, Identifiers
    <3>2. q \in Productions["Prim"] /\ q # <<>> /\ q[1] = "OBRACE" /\ Tail(q) = <<"Expr", "CBRACE">>
      BY ProductionsAre
    <3>3. Spells(p, Tail(q)) /\ q[1] \in Terminals
      BY <1>3, <3>2, CallsSpell
    <3> HIDE DEF p, q
    <3> QED
      BY <1>1, <1>2, <2>1, <3>1, <3>2, <3>3, TakesBy
  <2>5. CASE look \in Identifiers
    <3> DEFINE q == <<"NAME", "NameRest">>
               x == [Item("name") EXCEPT !.tok = look]
               p == <<x>>
    <3>1. Then(p) /\ Seen(look) = "NAME"
      BY <2>5 DEF Prim, Seen, Identifiers
    <3>2. q \in Productions["Prim"] /\ q # <<>> /\ q[1] = "NAME" /\ Tail(q) = <<"NameRest">>
      BY ProductionsAre
    <3>3. x \in Items /\ x.op = "name"
      BY <2>5 DEF Item, Items, Ops, Identifiers, AllTokens
    <3>4. Spells(p, Tail(q)) /\ q[1] \in Terminals
      BY <1>3, <3>2, <3>3, ArgumentsSpell
    <3> HIDE DEF p, q
    <3> QED
      BY <1>1, <1>2, <2>1, <3>1, <3>2, <3>4, TakesBy
  <2> QED
    BY <1>5, <2>2, <2>3, <2>4, <2>5
<1> QED
  BY <1>4, <1>5

LEMMA NameImplements ==
  ASSUME Inv, TypeOK', Parsing, Name
  PROVE  [Language!Next]_Language!vars
<1> DEFINE def == defs[Head(todo).tok]
           x == [Item("args") EXCEPT !.n = 1, !.want = def]
<1>1. Doing("name") /\ todo # <<>> /\ Head(todo).op = "name" /\ TypeOK
  BY DEF Name, Doing, Inv
<1>2. /\ "name" \in Deriving /\ Derived["name"] = <<"NameRest">>
      /\ "NameRest" \in Nonterminals /\ "NameRest" \in Nullable
  BY DerivingIs, NonterminalsAre, NullableAre DEF Derived
<1>3. /\ First["NameRest"] = {"ASSIGN", "OBRACE"}
      /\ {"ASSIGN", "OBRACE"} \subseteq Terminals /\ First["OBRACE"] = {"OBRACE"}
  BY FirstIs DEF Terminals
<1>4. CASE look = "OBRACE" /\ def = Undefined
  <2>1. status' = "abort" /\ UNCHANGED <<todo, errors>>
    BY <1>4 DEF Name, Halt
  <2>2. Outcome' = "refused"
    BY <2>1 DEF Outcome, Parsing
  <2> QED
    BY <1>1, <2>2, Refuses
<1>5. CASE look = "OBRACE" /\ def # Undefined
  <2> DEFINE q == <<"OBRACE", "Expr", "Args">>
             p == <<Expect("OBRACE"), Item("expr"), x>>
  <2>1. Then(p) /\ UNCHANGED <<input, errors, status>>
    BY <1>5 DEF Name
  <2>2. Seen(look) = "OBRACE"
    BY <1>5 DEF Seen, Identifiers
  <2>3. def \in Nat
    <3>1. Head(todo) # Expect("END")
      BY <1>1, ExpectFields
    <3>2. Head(todo).tok \in Identifiers
      BY <1>1, <3>1, Within DEF Fits
    <3>3. defs \in [Identifiers -> Nat \cup {Undefined}]
      BY <1>1 DEF TypeOK
    <3> QED
      BY <1>5, <3>2, <3>3
  <2>4. x \in Items /\ x.op = "args"
    BY <2>3 DEF Item, Items, Ops
  <2>5. Spells(p, q)
    BY <2>4, ArgumentsSpell
  <2>6. q \in Productions["NameRest"] /\ q # <<>> /\ q[1] = "OBRACE"
    BY ProductionsAre
  <2>7. Seen(look) \in First["NameRest"] /\ Seen(look) \in First[q[1]]
    BY <1>3, <2>2, <2>6
  <2> HIDE DEF p, q
  <2> QED
    BY <1>1, <1>2, <2>1, <2>5, <2>6, <2>7, RewritesBy
<1>6. CASE look = "ASSIGN"
  <2> DEFINE q == <<"ASSIGN", "Expr">>
             p == <<Item("expr")>>
  <2>1. Advance /\ Then(p) /\ UNCHANGED <<errors, status>>
    BY <1>6 DEF Name
  <2>2. Seen(look) = "ASSIGN"
    BY <1>6 DEF Seen, Identifiers
  <2>3. q \in Productions["NameRest"] /\ q # <<>> /\ q[1] = "ASSIGN" /\ Tail(q) = <<"Expr">>
    BY ProductionsAre
  <2>4. Spells(p, Tail(q)) /\ q[1] \in Terminals
    BY <1>3, <2>3, CallsSpell
  <2> HIDE DEF p, q
  <2> QED
    BY <1>1, <1>2, <2>1, <2>2, <2>3, <2>4, TakesBy
<1>7. CASE look \notin {"OBRACE", "ASSIGN"}
  <2>1. Then(<<>>) /\ UNCHANGED <<input, errors, status>>
    BY <1>7 DEF Name
  <2>2. Seen(look) \notin First["NameRest"]
    BY <1>3, <1>7 DEF Seen, Identifiers
  <2> QED
    BY <1>1, <1>2, <2>1, <2>2, EndsQuietly
<1> QED
  BY <1>4, <1>5, <1>6, <1>7

LEMMA ArgsImplement ==
  ASSUME Inv, TypeOK', Parsing, Args
  PROVE  [Language!Next]_Language!vars
<1> DEFINE h == Head(todo)
           more == [h EXCEPT !.n = @ + 1]
           check == [h EXCEPT !.op = "checkargs"]
<1>1. Doing("args") /\ todo # <<>> /\ h.op = "args" /\ UNCHANGED <<errors, status>> /\ TypeOK
  BY DEF Args, Doing, Inv
<1>2. /\ "args" \in Deriving /\ Derived["args"] = <<"Args">>
      /\ "Args" \in Nonterminals /\ "Args" \notin Nullable
  BY DerivingIs, NonterminalsAre, NullableAre DEF Derived
<1>3. /\ First["Args"] = {"CBRACE", "COMMA"} /\ First["CBRACE"] = {"CBRACE"} /\ "COMMA" \in Terminals
  BY FirstIs DEF Terminals
<1>4. /\ more \in Items /\ more.op = "args" /\ check \in Items /\ check.op = "checkargs"
  <2>1. h \in Items
    BY <1>1, HeadToDo
  <2> HIDE DEF h
  <2>2. h.n \in Nat /\ h.n + 1 \in Nat
    <3>1. h.n \in Nat
      BY <2>1 DEF Items
    <3> QED
      BY <3>1
  <2>3. "checkargs" \in Ops
    BY DEF Ops
  <2>4. more \in Items /\ more.op = "args"
    BY <1>1, <2>1, <2>2 DEF Items
  <2>5. check \in Items /\ check.op = "checkargs"
    BY <1>1, <2>1, <2>3 DEF Items
  <2> QED
    BY <2>4, <2>5
<1>5. CASE look = "COMMA"
  <2> DEFINE q == <<"COMMA", "Expr", "Args">>
             p == <<Item("expr"), more>>
  <2>1. Advance /\ Then(p)
    BY <1>5 DEF Args
  <2>2. Seen(look) = "COMMA"
    BY <1>5 DEF Seen, Identifiers
  <2>3. q \in Productions["Args"] /\ q # <<>> /\ q[1] = "COMMA" /\ Tail(q) = <<"Expr", "Args">>
    BY ProductionsAre
  <2>4. Spells(p, Tail(q)) /\ q[1] \in Terminals
    BY <1>3, <1>4, <2>3, ArgumentsSpell
  <2> HIDE DEF p, q
  <2> QED
    BY <1>1, <1>2, <2>1, <2>2, <2>3, <2>4, TakesBy
<1>6. CASE look # "COMMA"
  <2> DEFINE q == <<"CBRACE">>
             p == <<Expect("CBRACE"), check>>
  <2>1. Then(p) /\ UNCHANGED input
    BY <1>6 DEF Args
  <2>2. Spells(p, q)
    BY <1>4, ArgumentsSpell
  <2>3. q \in Productions["Args"] /\ q # <<>> /\ q[1] = "CBRACE"
    BY ProductionsAre
  <2>4. Seen(look) \in First["Args"] => Seen(look) \in First[q[1]]
    BY <1>3, <1>6, <2>3 DEF Seen, Identifiers
  <2> HIDE DEF p, q
  <2> QED
    BY <1>1, <1>2, <2>1, <2>2, <2>3, <2>4, RewritesBy
<1> QED
  BY <1>5, <1>6

(* Two and three items in front of others, pushed one at a time.           *)
TwoFirst(a, b, s) == <<a, b>> \o s = <<a>> \o (<<b>> \o s)

ThreeFirst(a, b, c, s) == <<a, b, c>> \o s = <<a>> \o (<<b>> \o (<<c>> \o s))

LEMMA TwoInFront ==
  ASSUME NEW S, NEW s \in Seq(S), NEW a \in S, NEW b \in S
  PROVE  TwoFirst(a, b, s)
<1>1. Extends(S, <<a, b>>, <<a>>, b)
  BY DEF Extends
<1>2. <<a>> \o <<b>> = <<a, b>>
  BY <1>1, Extended, Zenon
<1>3. PICK u \in Seq(S), v \in Seq(S) : u = <<a>> /\ v = <<b>>
  <2>1. <<a>> \in Seq(S) /\ <<b>> \in Seq(S)
    OBVIOUS
  <2> QED
    BY <2>1
<1>4. Associate(u, v, s)
  BY <1>3, Associated, Zenon
<1>5. (u \o v) \o s = u \o (v \o s)
  BY <1>4, Zenon DEF Associate
<1> QED
  BY <1>2, <1>3, <1>5, Zenon DEF TwoFirst

LEMMA ThreeInFront ==
  ASSUME NEW S, NEW s \in Seq(S), NEW a \in S, NEW b \in S, NEW c \in S
  PROVE  ThreeFirst(a, b, c, s)
<1>1. Extends(S, <<a, b>>, <<a>>, b) /\ Extends(S, <<a, b, c>>, <<a, b>>, c)
  BY DEF Extends
<1>2. <<a>> \o <<b>> = <<a, b>> /\ <<a, b>> \o <<c>> = <<a, b, c>>
  BY <1>1, Extended, Zenon
<1>3. PICK u \in Seq(S), v \in Seq(S), w \in Seq(S) : u = <<a>> /\ v = <<b>> /\ w = <<c>>
  <2>1. <<a>> \in Seq(S) /\ <<b>> \in Seq(S) /\ <<c>> \in Seq(S)
    OBVIOUS
  <2> QED
    BY <2>1
<1>4. PICK z \in Seq(S), y \in Seq(S) : z = w \o s /\ y = u \o v
  BY <1>3, Joined, Zenon
<1>5. Associate(u, v, z) /\ Associate(y, w, s)
  BY <1>3, <1>4, Associated, Zenon
<1>6. ((u \o v) \o w) \o s = u \o (v \o (w \o s))
  BY <1>4, <1>5, Zenon DEF Associate
<1> QED
  BY <1>2, <1>3, <1>6, Zenon DEF ThreeFirst

LEMMA ExprImplements ==
  ASSUME Inv, TypeOK', Parsing, Expr
  PROVE  [Language!Next]_Language!vars
<1> DEFINE q == <<"Prim", "MulRest", "AddRest", "CmpRest">>
           p == <<Item("prim"), Item("rhs")>>
<1>1. Doing("expr") /\ Then(p) /\ UNCHANGED <<input, errors, status>> /\ TypeOK
  BY DEF Expr, Inv
<1>2. /\ "expr" \in Deriving /\ Derived["expr"] = <<"Expr">>
      /\ "Expr" \in Nonterminals /\ "Expr" \notin Nullable
  BY DerivingIs, NonterminalsAre, NullableAre DEF Derived
<1>3. First["Expr"] = First["Prim"]
  BY FirstIs
<1>4. q \in Productions["Expr"] /\ q # <<>> /\ q[1] = "Prim"
  BY ProductionsAre
<1>5. Spells(p, q)
  <2>1. /\ Item("prim") \in Items /\ Item("rhs") \in Items /\ Item("rhs").op = "rhs"
        /\ Item("rhs").n = 0
    BY ItemFields DEF Ops
  <2>2. Highest(Item("rhs")) = 15 /\ SymbolsOf(Item("rhs"), 15) = Rests(0, 15)
    BY <2>1, SymbolsIs DEF Highest
  <2>3. Spells(<<Item("rhs")>>, (<<"MulRest">> \o <<"AddRest">>) \o <<"CmpRest">>)
    BY <2>1, <2>2, SpellsItem, RestsOf
  <2>4. {"Prim", "MulRest", "AddRest", "CmpRest"} \subseteq Spellings
    BY NonterminalsAre DEF Spellings, Symbols
  <2>5. <<"Prim">> \o ((<<"MulRest">> \o <<"AddRest">>) \o <<"CmpRest">>) = q
    <3>1. /\ Extends(Spellings, <<"MulRest", "AddRest">>, <<"MulRest">>, "AddRest")
          /\ Extends(Spellings, <<"MulRest", "AddRest", "CmpRest">>, <<"MulRest", "AddRest">>, "CmpRest")
      BY <2>4 DEF Extends
    <3>2. (<<"MulRest">> \o <<"AddRest">>) \o <<"CmpRest">> = <<"MulRest", "AddRest", "CmpRest">>
      BY <3>1, Extended, Zenon
    <3>3. q \in Seq(Spellings) /\ Tail(q) = <<"MulRest", "AddRest", "CmpRest">>
      BY <2>4
    <3>4. <<"Prim">> \o Tail(q) = q
      BY <3>3, <1>4, HeadInFront
    <3> QED
      BY <3>2, <3>3, <3>4
  <2>6. <<Item("prim")>> \o <<Item("rhs")>> = p
    <3>1. Extends(Items, <<Item("prim"), Item("rhs")>>, <<Item("prim")>>, Item("rhs"))
      BY <2>1 DEF Extends
    <3> QED
      BY <3>1, Extended, Zenon
  <2>7. Spells(<<Item("prim")>>, <<"Prim">>)
    BY CallsSpell
  <2> HIDE DEF p, q
  <2> QED
    BY <2>3, <2>5, <2>6, <2>7, SpellsBoth
<1> HIDE DEF p, q
<1> QED
  BY <1>1, <1>2, <1>3, <1>4, <1>5, RewritesBy

(* An operator is what comes first of what is left of its terms, and its   *)
(* right operand, with the operators that bind tighter, is behind it.      *)
OperandOf(n) == <<"Prim">> \o ((Rests(n + 1, 15) \o Complete(n)) \o Rests(n, n))

LEMMA OperatorOf ==
  ASSUME NEW t \in Terminals, Precedence(t) >= 0
  PROVE  /\ Precedence(t) \in {10, 12, 13}
         /\ \E X \in Nonterminals : \E q \in Productions[X] :
              /\ q # <<>> /\ q[1] = t /\ Tail(q) = OperandOf(Precedence(t))
              /\ Rests(Precedence(t), Precedence(t)) = <<X>>
<1>1. {"Prim", "Mul", "Add", "Cmp", "MulRest", "AddRest", "CmpRest"} \subseteq Spellings
  BY NonterminalsAre DEF Spellings, Symbols
<1>2. /\ <<"MulRest">> \in Seq(Spellings) /\ <<"AddRest">> \in Seq(Spellings)
      /\ <<"CmpRest">> \in Seq(Spellings)
      /\ <<"Mul">> \in Seq(Spellings) /\ <<"Add">> \in Seq(Spellings) /\ <<"Cmp">> \in Seq(Spellings)
  BY <1>1
<1>3. CASE t = "MULT"
  <2>1. Precedence(t) = 13
    BY <1>3 DEF Precedence
  <2> DEFINE q == <<"MULT", "Prim", "Mul", "MulRest">>
  <2>2. q \in Productions["MulRest"] /\ "MulRest" \in Nonterminals
    BY ProductionsAre, NonterminalsAre
  <2>3. q # <<>> /\ q[1] = "MULT" /\ Tail(q) = <<"Prim", "Mul", "MulRest">>
    OBVIOUS
  <2>4. OperandOf(13) = <<"Prim">> \o (<<"Mul">> \o <<"MulRest">>)
    <3>1. Rests(13 + 1, 15) = <<>>
      BY RestsOf
    <3>2. <<>> \o <<"Mul">> = <<"Mul">>
      BY <1>2, NoneAround
    <3> QED
      BY <3>1, <3>2, RestsOf DEF OperandOf
  <2>5. <<"Prim">> \o (<<"Mul">> \o <<"MulRest">>) = <<"Prim", "Mul", "MulRest">>
    <3>1. <<"Prim", "Mul">> \o <<"MulRest">> = <<"Prim">> \o (<<"Mul">> \o <<"MulRest">>)
      <4>1. "Prim" \in Spellings /\ "Mul" \in Spellings /\ <<"MulRest">> \in Seq(Spellings)
        BY <1>1, <1>2
      <4>2. TwoFirst("Prim", "Mul", <<"MulRest">>)
        BY <4>1, TwoInFront, Zenon
      <4> QED
        BY <4>2, Zenon DEF TwoFirst
    <3>2. Extends(Spellings, <<"Prim", "Mul", "MulRest">>, <<"Prim", "Mul">>, "MulRest")
      BY <1>1 DEF Extends
    <3>3. <<"Prim", "Mul">> \o <<"MulRest">> = <<"Prim", "Mul", "MulRest">>
      BY <3>2, Extended, Zenon
    <3> QED
      BY <3>1, <3>3, Zenon
  <2> HIDE DEF q
  <2> QED
    BY <1>3, <2>1, <2>2, <2>3, <2>4, <2>5, RestsOf
<1>4. CASE t \in {"PLUS", "MINUS"}
  <2>1. Precedence(t) = 12
    BY <1>4 DEF Precedence
  <2> DEFINE q == <<t, "Prim", "MulRest", "Add", "AddRest">>
  <2>2. q \in Productions["AddRest"] /\ "AddRest" \in Nonterminals
    BY <1>4, ProductionsAre, NonterminalsAre
  <2>3. q # <<>> /\ q[1] = t /\ Tail(q) = <<"Prim", "MulRest", "Add", "AddRest">>
    OBVIOUS
  <2>4. OperandOf(12) = <<"Prim">> \o ((<<"MulRest">> \o <<"Add">>) \o <<"AddRest">>)
    <3>1. Rests(12 + 1, 15) = <<"MulRest">>
      BY RestsOf
    <3> QED
      BY <3>1, RestsOf DEF OperandOf
  <2>5. <<"Prim">> \o ((<<"MulRest">> \o <<"Add">>) \o <<"AddRest">>) =
          <<"Prim", "MulRest", "Add", "AddRest">>
    <3>1. /\ Extends(Spellings, <<"MulRest", "Add">>, <<"MulRest">>, "Add")
          /\ Extends(Spellings, <<"MulRest", "Add", "AddRest">>, <<"MulRest", "Add">>, "AddRest")
      BY <1>1 DEF Extends
    <3>2. (<<"MulRest">> \o <<"Add">>) \o <<"AddRest">> = <<"MulRest", "Add", "AddRest">>
      BY <3>1, Extended, Zenon
    <3> DEFINE r == <<"Prim", "MulRest", "Add", "AddRest">>
    <3>3. r \in Seq(Spellings) /\ r # <<>> /\ r[1] = "Prim" /\ Tail(r) = <<"MulRest", "Add", "AddRest">>
      BY <1>1
    <3> HIDE DEF r
    <3>4. r = <<"Prim">> \o <<"MulRest", "Add", "AddRest">>
      BY <3>3, HeadInFront
    <3> QED
      BY <3>2, <3>4, Zenon DEF r
  <2> HIDE DEF q
  <2> QED
    BY <2>1, <2>2, <2>3, <2>4, <2>5, RestsOf
<1>5. CASE t = "LT"
  <2>1. Precedence(t) = 10
    BY <1>5 DEF Precedence
  <2> DEFINE q == <<"LT", "Prim", "MulRest", "AddRest", "Cmp", "CmpRest">>
  <2>2. q \in Productions["CmpRest"] /\ "CmpRest" \in Nonterminals
    BY ProductionsAre, NonterminalsAre
  <2>3. q # <<>> /\ q[1] = "LT" /\ Tail(q) = <<"Prim", "MulRest", "AddRest", "Cmp", "CmpRest">>
    OBVIOUS
  <2>4. OperandOf(10) =
          <<"Prim">> \o (((<<"MulRest">> \o <<"AddRest">>) \o <<"Cmp">>) \o <<"CmpRest">>)
    <3>1. Rests(10 + 1, 15) = <<"MulRest">> \o <<"AddRest">>
      BY RestsOf
    <3> QED
      BY <3>1, RestsOf DEF OperandOf
  <2>5. <<"Prim">> \o (((<<"MulRest">> \o <<"AddRest">>) \o <<"Cmp">>) \o <<"CmpRest">>) =
          <<"Prim", "MulRest", "AddRest", "Cmp", "CmpRest">>
    <3>1. /\ Extends(Spellings, <<"MulRest", "AddRest">>, <<"MulRest">>, "AddRest")
          /\ Extends(Spellings, <<"MulRest", "AddRest", "Cmp">>, <<"MulRest", "AddRest">>, "Cmp")
          /\ Extends(Spellings, <<"MulRest", "AddRest", "Cmp", "CmpRest">>,
                     <<"MulRest", "AddRest", "Cmp">>, "CmpRest")
      BY <1>1 DEF Extends
    <3>2. ((<<"MulRest">> \o <<"AddRest">>) \o <<"Cmp">>) \o <<"CmpRest">> =
            <<"MulRest", "AddRest", "Cmp", "CmpRest">>
      <4>1. <<"MulRest">> \o <<"AddRest">> = <<"MulRest", "AddRest">>
        BY <3>1, Extended, Zenon
      <4>2. <<"MulRest", "AddRest">> \o <<"Cmp">> = <<"MulRest", "AddRest", "Cmp">>
        BY <3>1, Extended, Zenon
      <4>3. <<"MulRest", "AddRest", "Cmp">> \o <<"CmpRest">> =
              <<"MulRest", "AddRest", "Cmp", "CmpRest">>
        BY <3>1, Extended, Zenon
      <4> QED
        BY <4>1, <4>2, <4>3, Zenon
    <3> DEFINE r == <<"Prim", "MulRest", "AddRest", "Cmp", "CmpRest">>
    <3>3. r \in Seq(Spellings) /\ r # <<>> /\ r[1] = "Prim"
          /\ Tail(r) = <<"MulRest", "AddRest", "Cmp", "CmpRest">>
      BY <1>1
    <3> HIDE DEF r
    <3>4. r = <<"Prim">> \o <<"MulRest", "AddRest", "Cmp", "CmpRest">>
      BY <3>3, HeadInFront
    <3> QED
      BY <3>2, <3>4, Zenon DEF r
  <2> HIDE DEF q
  <2> QED
    BY <1>5, <2>1, <2>2, <2>3, <2>4, <2>5, RestsOf
<1>6. t \in {"MULT", "PLUS", "MINUS", "LT"}
  BY DEF Precedence
<1> QED
  BY <1>3, <1>4, <1>5, <1>6

(* The symbols of an operand, regrouped.                                    *)
SameGroups(f, a, c, d, u) == (f \o ((a \o c) \o d)) \o u = f \o ((a \o c) \o (d \o u))

LEMMA FourGroups ==
  ASSUME NEW f \in Seq(Spellings), NEW a \in Seq(Spellings), NEW c \in Seq(Spellings),
         NEW d \in Seq(Spellings), NEW u \in Seq(Spellings)
  PROVE  SameGroups(f, a, c, d, u)
<1>1. PICK g \in Seq(Spellings) : g = a \o c
  BY Joined, Zenon
<1>2. PICK k \in Seq(Spellings) : k = g \o d
  BY <1>1, Joined, Zenon
<1>3. Associate(f, k, u) /\ Associate(g, d, u)
  BY <1>1, <1>2, Associated, Zenon
<1> QED
  BY <1>1, <1>2, <1>3, Zenon DEF SameGroups, Associate

(* A loop of binOpRHS consumes an operator.                                *)
LEMMA OperatorTaken ==
  ASSUME NEW t \in Terminals, NEW P, P = Precedence(t), NEW n \in Nat, n <= P,
         NEW r \in Seq(Spellings)
  PROVE  Takes(Rests(n, 15) \o r,
               <<"Prim">> \o ((Rests(P + 1, 15) \o Complete(P)) \o (Rests(n, P) \o r)), t)
<1>1. P \in {10, 12, 13} /\ P >= 0 /\ P \in Int /\ n \in Int
  <2>1. P \in {-1, 10, 12, 13}
    BY DEF Precedence
  <2> QED
    BY <2>1
<1>2. PICK X \in Nonterminals : \E q \in Productions[X] :
        q # <<>> /\ q[1] = t /\ Tail(q) = OperandOf(P) /\ Rests(P, P) = <<X>>
  BY <1>1, OperatorOf
<1>12. PICK q \in Productions[X] :
      q # <<>> /\ q[1] = t /\ Tail(q) = OperandOf(P) /\ Rests(P, P) = <<X>>
  BY <1>2
<1>3. PICK a \in Seq(Spellings), c \in Seq(Spellings), d \in Seq(Spellings), e \in Seq(Spellings),
           f \in Seq(Spellings) :
        /\ a = Rests(P + 1, 15) /\ c = Complete(P) /\ d = Rests(P, P) /\ e = Rests(n, P - 1)
        /\ f = <<"Prim">>
  <2>1. "Prim" \in Spellings
    BY NonterminalsAre DEF Spellings, Symbols
  <2>2. <<"Prim">> \in Seq(Spellings)
    BY <2>1
  <2> QED
    BY <2>2, RestsSpelled
<1>4. Rests(n, 15) = a \o Rests(n, P) /\ Rests(n, P) = d \o e
  <2>1. Rests(n, 15) = Rests(P + 1, 15) \o Rests(n, P)
    <3>1. P \in Int /\ 15 \in Int /\ n <= P + 1 /\ P <= 15
      BY <1>1
    <3> QED
      BY <1>1, <3>1, RestsSplit
  <2>2. Rests(n, P) = Rests((P - 1) + 1, P) \o Rests(n, P - 1)
    <3>1. P - 1 \in Int /\ n <= (P - 1) + 1 /\ P - 1 <= P
      BY <1>1
    <3> QED
      BY <1>1, <3>1, RestsSplit
  <2>3. (P - 1) + 1 = P
    BY <1>1
  <2> QED
    BY <1>3, <2>1, <2>2, <2>3
<1>5. PICK u \in Seq(Spellings) : u = e \o r
  BY <1>3, Joined, Zenon
<1>6. Rests(n, P) \o r = d \o u /\ d \o u \in Seq(Spellings)
  <2>1. Associate(d, e, r) /\ d \o u \in Seq(Spellings)
    BY <1>3, <1>5, Associated, Joined, Zenon
  <2> QED
    BY <1>4, <1>5, <2>1, Zenon DEF Associate
<1>7. Rests(n, 15) \o r = a \o (d \o u)
  <2>1. PICK z \in Seq(Spellings) : z = Rests(n, P)
    BY RestsSpelled
  <2>2. Associate(a, z, r)
    BY <1>3, <2>1, Associated, Zenon
  <2> QED
    BY <1>4, <1>6, <2>1, <2>2, Zenon DEF Associate
<1>8. Settle(a \o (d \o u), t) = Settle(d \o u, t)
  <2>1. P + 1 \in Int /\ Precedence(t) < P + 1
    BY <1>1
  <2>2. PICK v \in Seq(Spellings) : v = d \o u
    BY <1>6
  <2>3. Settle(Rests(P + 1, 15) \o v, t) = Settle(v, t)
    BY <2>1, RestsDrop
  <2> QED
    BY <1>3, <2>2, <2>3
<1>9. Takes(d \o u, Tail(q) \o u, t)
  BY <1>12, <1>3, <1>5, TakesFirst
<1>10. Tail(q) \o u = f \o ((a \o c) \o (d \o u))
  <2>1. Tail(q) = f \o ((a \o c) \o d)
    BY <1>12, <1>3 DEF OperandOf
  <2>2. (f \o ((a \o c) \o d)) \o u = f \o ((a \o c) \o (d \o u))
    <3>1. a \in Seq(Spellings) /\ c \in Seq(Spellings) /\ d \in Seq(Spellings)
          /\ f \in Seq(Spellings) /\ u \in Seq(Spellings)
      OBVIOUS
    <3>2. SameGroups(f, a, c, d, u)
      BY <3>1, FourGroups, Zenon
    <3> QED
      BY <3>2 DEF SameGroups
  <2> QED
    BY <2>1, <2>2, Zenon
<1>11. Takes(d \o u, f \o ((a \o c) \o (Rests(n, P) \o r)), t)
  BY <1>6, <1>9, <1>10
<1> QED
  BY <1>3, <1>7, <1>8, <1>11 DEF Takes

(* The item of a loop and what is behind it.                               *)
LEMMA LoopWords ==
  ASSUME NEW x \in Items, NEW s \in Seq(Items), NEW h
  PROVE  /\ x.op = "rhs" => WordsOf(<<x>> \o s, h) = Rests(x.n, h) \o WordsOf(s, Highest(x))
         /\ x.op = "inner" => WordsOf(<<x>> \o s, h) =
              (Rests(x.n + 1, h) \o Complete(x.n)) \o WordsOf(s, x.n)
         /\ WordsOf(s, h) \in Seq(Spellings)
<1>1. /\ WordsOf(<<x>> \o s, h) = SymbolsOf(x, h) \o WordsOf(s, Highest(x))
      /\ WordsOf(s, h) \in Seq(Spellings)
  BY WordsIs
<1>2. x.op = "inner" => Highest(x) = x.n
  BY DEF Highest
<1> QED
  BY <1>1, <1>2, SymbolsIs

LEMMA RhsImplements ==
  ASSUME Inv, TypeOK', Parsing, Rhs
  PROVE  [Language!Next]_Language!vars
<1>1. /\ todo # <<>> /\ Head(todo).op = "rhs" /\ UNCHANGED <<errors, status>> /\ TypeOK
  BY DEF Rhs, Doing, Inv
<1>2. PICK x \in Items, s \in Seq(Items) : x = Head(todo) /\ s = Tail(todo) /\ todo = <<x>> \o s
  BY <1>1, HeadToDo
<1>3. /\ x.n \in {0, 10, 12, 13} /\ s # <<>> /\ Linked(s) /\ x.op = "rhs"
      /\ x.n # 0 => s[1].op = "inner" /\ s[1].n \in Nat /\ s[1].n < x.n
  <2>1. Head(todo) # Expect("END")
    BY <1>1, ExpectFields
  <2>2. Fits(x, s[1]) /\ s # <<>> /\ Linked(s)
    BY <1>1, <1>2, <2>1, Within
  <2>3. s[1] \in Items
    BY <2>2, HeadInFront
  <2>4. s[1].n \in Nat
    BY <2>3 DEF Items
  <2>5. /\ x.n \in {0, 10, 12, 13}
        /\ x.n # 0 => s[1].op = "inner" /\ x.n > s[1].n
    BY <1>1, <1>2, <2>2 DEF Fits
  <2> QED
    BY <1>1, <1>2, <2>2, <2>4, <2>5
<1>4. PICK r \in Seq(Spellings) : r = WordsOf(s, Highest(x))
  BY LoopWords
<1>5. WordsOf(todo, 15) = Rests(x.n, 15) \o r
  BY <1>2, <1>3, <1>4, LoopWords
<1>6. PICK t \in Terminals : t = Seen(look) /\ Precedence(t) = Precedence(look)
  BY <1>1, LookIs, SeenIs
<1>7. Precedence(look) \in Int
  BY DEF Precedence
<1>8. CASE Precedence(look) >= x.n
  <2> DEFINE P == Precedence(look)
             y == [Item("inner") EXCEPT !.n = P]
             p == Item("prim")
  <2>1. Advance /\ Then(<<p, y, x>>)
    <3>1. ~(Precedence(look) < Head(todo).n)
      BY <1>2, <1>3, <1>7, <1>8
    <3> QED
      BY <1>2, <3>1 DEF Rhs
  <2>2. P \in Nat /\ x.n \in Nat /\ x.n <= P
    BY <1>3, <1>7, <1>8
  <2>3. p \in Items /\ p.op = "prim"
    BY ItemFields DEF Ops
  <2>4. y \in Items /\ y.op = "inner" /\ y.n = P
    <3> HIDE DEF P
    <3> QED
      BY <2>2 DEF Item, Items, Ops
  <2> HIDE DEF P, y, p
  <2>5. PICK s1 \in Seq(Items), s2 \in Seq(Items) : s1 = <<x>> \o s /\ s2 = <<y>> \o s1
    <3>1. <<x>> \o s \in Seq(Items)
      BY InFront
    <3>2. <<y>> \o (<<x>> \o s) \in Seq(Items)
      BY <2>4, <3>1, InFront
    <3> QED
      BY <3>1, <3>2
  <2>6. todo' = <<p>> \o s2
    <3>1. todo' = <<p, y, x>> \o s
      BY <1>2, <2>1 DEF Then
    <3>2. <<p, y, x>> \o s = <<p>> \o (<<y>> \o (<<x>> \o s))
      <4>1. x \in Items /\ s \in Seq(Items)
        OBVIOUS
      <4>2. ThreeFirst(p, y, x, s)
        BY <2>3, <2>4, <4>1, ThreeInFront, Zenon
      <4> QED
        BY <4>2 DEF ThreeFirst
    <3> QED
      BY <2>5, <3>1, <3>2, Zenon
  <2>7. WordsOf(s1, P) = Rests(x.n, P) \o r
    BY <1>3, <1>4, <2>5, LoopWords
  <2>8. WordsOf(s2, 15) = (Rests(P + 1, 15) \o Complete(P)) \o WordsOf(s1, P)
    BY <2>4, <2>5, LoopWords
  <2>9. WordsOf(<<p>> \o s2, 15) = <<"Prim">> \o WordsOf(s2, 15)
    BY <2>3, <2>5, CallsSpell DEF Spells, p
  <2>10. Takes(Rests(x.n, 15) \o r,
               <<"Prim">> \o ((Rests(P + 1, 15) \o Complete(P)) \o (Rests(x.n, P) \o r)), t)
    BY <1>6, <2>2, OperatorTaken DEF P
  <2> QED
    BY <1>1, <1>5, <1>6, <2>1, <2>6, <2>7, <2>8, <2>9, <2>10, Advancing
<1>9. CASE Precedence(look) < x.n
  <2>1. Then(<<>>) /\ UNCHANGED <<input, errors, status>>
    BY <1>1, <1>2, <1>3, <1>7, <1>9 DEF Rhs
  <2>2. todo' = s
    BY <1>2, <2>1, NoneAround DEF Then
  <2>3. CASE x.n = 0
    <3>1. r = WordsOf(s, 15)
      BY <1>3, <1>4, <2>3 DEF Highest
    <3>2. Settle(Rests(x.n, 15) \o r, t) = Settle(r, t)
      BY <1>3, <1>6, <1>9, RestsDrop
    <3> QED
      BY <1>1, <1>5, <1>6, <2>1, <2>2, <3>1, <3>2, Quiet DEF Becomes
  <2>4. CASE x.n # 0
    <3>1. r = WordsOf(s, x.n - 1)
      BY <1>3, <1>4, <2>4 DEF Highest
    <3>2. PICK y \in Items, s1 \in Seq(Items) : y = s[1] /\ s = <<y>> \o s1
      <4>1. s = <<s[1]>> \o Tail(s) /\ s[1] \in Items /\ Tail(s) \in Seq(Items)
        BY <1>3, HeadInFront
      <4> QED
        BY <4>1, Zenon
    <3>3. PICK v \in Seq(Spellings) : v = WordsOf(s1, y.n)
      BY <3>2, LoopWords
    <3>4. /\ r = (Rests(y.n + 1, x.n - 1) \o Complete(y.n)) \o v
          /\ WordsOf(s, 15) = (Rests(y.n + 1, 15) \o Complete(y.n)) \o v
      <4>1. \A h : WordsOf(<<y>> \o s1, h) = (Rests(y.n + 1, h) \o Complete(y.n)) \o WordsOf(s1, y.n)
        BY <1>3, <2>4, <3>2, LoopWords
      <4> QED
        BY <3>1, <3>2, <3>3, <4>1, Zenon
    <3>5. Rests(y.n + 1, 15) = Rests(x.n, 15) \o Rests(y.n + 1, x.n - 1)
      <4>1. PICK k \in Nat, n \in Nat : k = y.n /\ n = x.n /\ k < n /\ n <= 13
        <5>1. y.n \in Nat /\ y.n < x.n
          BY <1>3, <2>4, <3>2, Zenon
        <5>2. x.n \in {10, 12, 13}
          BY <1>3, <2>4
        <5> QED
          BY <5>1, <5>2
      <4>2. Rests(k + 1, 15) = Rests(n, 15) \o Rests(k + 1, n - 1)
        BY <4>1, RestsAbove, Zenon
      <4> QED
        BY <4>1, <4>2, Zenon
    <3>6. PICK a \in Seq(Spellings), b \in Seq(Spellings), c \in Seq(Spellings) :
            a = Rests(x.n, 15) /\ b = Rests(y.n + 1, x.n - 1) /\ c = Complete(y.n)
      BY RestsSpelled
    <3>7. a \o ((b \o c) \o v) = ((a \o b) \o c) \o v
      <4>1. PICK d \in Seq(Spellings) : d = b \o c
        BY <3>6, Joined, Zenon
      <4>2. Associate(a, d, v) /\ Associate(a, b, c)
        BY <3>3, <3>6, <4>1, Associated, Zenon
      <4> QED
        BY <4>1, <4>2, Zenon DEF Associate
    <3>8. WordsOf(todo, 15) = WordsOf(todo', 15)
      BY <1>5, <2>2, <3>4, <3>5, <3>6, <3>7
    <3> QED
      BY <1>1, <2>1, <3>8, Quiet DEF Becomes
  <2> QED
    BY <2>3, <2>4
<1> QED
  BY <1>3, <1>7, <1>8, <1>9

(* Loops that are at an end leave what a loop behind them goes on with.    *)
LEMMA LoopsEnd ==
  ASSUME NEW m \in Int, NEW n \in Int, n <= m, m <= 15, NEW t, Precedence(t) <= m,
         NEW v \in Seq(Spellings)
  PROVE  Settle((Rests(m + 1, 15) \o Complete(m)) \o (Rests(n, m) \o v), t) =
           Settle(Rests(n, 15) \o v, t)
<1>1. PICK a \in Seq(Spellings), c \in Seq(Spellings), e \in Seq(Spellings) :
        a = Rests(m + 1, 15) /\ c = Complete(m) /\ e = Rests(n, m)
  BY RestsSpelled
<1>2. Rests(n, 15) = a \o e
  <2>1. n <= m + 1 /\ 15 \in Int
    OBVIOUS
  <2>2. Rests(n, 15) = Rests(m + 1, 15) \o Rests(n, m)
    BY <2>1, RestsSplit
  <2> QED
    BY <1>1, <2>2
<1>3. PICK u \in Seq(Spellings) : u = e \o v
  BY <1>1, Joined, Zenon
<1>4. PICK w \in Seq(Spellings) : w = c \o u
  BY <1>1, <1>3, Joined, Zenon
<1>5. Associate(a, c, u)
  BY <1>1, <1>3, Associated, Zenon
<1>6. Associate(a, e, v)
  BY <1>1, Associated, Zenon
<1>7. \A s \in Seq(Spellings) : Settle(a \o s, t) = Settle(s, t)
  <2>1. m + 1 \in Int /\ 15 \in Int /\ Precedence(t) < m + 1
    BY DEF Precedence
  <2> QED
    BY <1>1, <2>1, RestsDrop
<1>8. Settle(c \o u, t) = Settle(u, t)
  BY <1>1, CompleteDrops
<1>9. /\ Settle(a \o w, t) = Settle(w, t) /\ Settle(a \o u, t) = Settle(u, t)
  BY <1>7
<1> QED
  BY <1>1, <1>2, <1>3, <1>4, <1>5, <1>6, <1>8, <1>9, Zenon DEF Associate

LEMMA InnerImplements ==
  ASSUME Inv, TypeOK', Parsing, Inner
  PROVE  [Language!Next]_Language!vars
<1>1. /\ todo # <<>> /\ Head(todo).op = "inner" /\ UNCHANGED <<input, errors, status>> /\ TypeOK
  BY DEF Inner, Doing, Inv
<1>2. PICK x \in Items, s \in Seq(Items) : x = Head(todo) /\ s = Tail(todo) /\ todo = <<x>> \o s
  BY <1>1, HeadToDo
<1>3. /\ x.n \in {10, 12, 13} /\ s # <<>> /\ x.op = "inner"
      /\ s[1].op = "rhs" /\ s[1].n \in Nat /\ s[1].n <= x.n
  <2>1. Head(todo) # Expect("END")
    BY <1>1, ExpectFields
  <2>2. Fits(x, s[1]) /\ s # <<>>
    BY <1>1, <1>2, <2>1, Within
  <2>3. s[1] \in Items
    BY <2>2, HeadInFront
  <2>4. s[1].n \in Nat
    BY <2>3 DEF Items
  <2>5. x.n \in {10, 12, 13} /\ s[1].op = "rhs" /\ x.n >= s[1].n
    BY <1>1, <1>2, <2>2 DEF Fits
  <2>6. s[1].n <= x.n
    <3>1. PICK k \in Nat, m \in {10, 12, 13} : k = s[1].n /\ m = x.n /\ m >= k
      BY <2>4, <2>5
    <3>2. k <= m
      BY <3>1
    <3> QED
      BY <3>1, <3>2
  <2> QED
    BY <1>1, <1>2, <2>2, <2>4, <2>5, <2>6
<1>4. PICK m \in Nat : m = x.n /\ m \in {10, 12, 13}
  BY <1>3
<1>5. PICK r \in Seq(Spellings) : r = WordsOf(s, m)
  BY LoopWords
<1>6. WordsOf(todo, 15) = (Rests(m + 1, 15) \o Complete(m)) \o r
  <2>1. WordsOf(<<x>> \o s, 15) = (Rests(x.n + 1, 15) \o Complete(x.n)) \o WordsOf(s, x.n)
    BY <1>2, <1>3, LoopWords
  <2> QED
    BY <1>2, <1>4, <1>5, <2>1, Zenon
<1>7. PICK t \in Terminals : t = Seen(look) /\ Precedence(t) = Precedence(look)
  BY <1>1, LookIs, SeenIs
<1>8. PICK P \in Int : P = Precedence(look)
  BY DEF Precedence
<1>9. CASE P > m
  <2> DEFINE y == [Item("rhs") EXCEPT !.n = P]
  <2>1. Then(<<y, x>>)
    BY <1>2, <1>4, <1>8, <1>9 DEF Inner
  <2>2. P \in Nat /\ P - 1 \in Int /\ m <= P - 1 /\ P > 0
    BY <1>9
  <2>3. y \in Items /\ y.op = "rhs" /\ y.n = P
    BY <2>2 DEF Item, Items, Ops
  <2> HIDE DEF y
  <2>4. PICK s1 \in Seq(Items) : s1 = <<x>> \o s
    <3>1. <<x>> \o s \in Seq(Items)
      BY InFront
    <3> QED
      BY <3>1
  <2>5. todo' = <<y>> \o s1
    <3>1. todo' = <<y, x>> \o s
      BY <1>2, <2>1 DEF Then
    <3>2. <<y, x>> \o s = <<y>> \o (<<x>> \o s)
      <4>1. TwoFirst(y, x, s)
        BY <1>2, <2>3, TwoInFront, Zenon
      <4> QED
        BY <4>1, Zenon DEF TwoFirst
    <3> QED
      BY <2>4, <3>1, <3>2, Zenon
  <2>6. Highest(y) = P - 1
    BY <2>2, <2>3 DEF Highest
  <2>7. WordsOf(todo', 15) = Rests(P, 15) \o WordsOf(s1, P - 1)
    BY <2>3, <2>5, <2>6, LoopWords
  <2>8. WordsOf(s1, P - 1) = (Rests(m + 1, P - 1) \o Complete(m)) \o r
    BY <1>3, <1>4, <1>5, <2>4, LoopWords
  <2>9. PICK a \in Seq(Spellings), b \in Seq(Spellings), c \in Seq(Spellings) :
          a = Rests(P, 15) /\ b = Rests(m + 1, P - 1) /\ c = Complete(m)
    BY RestsSpelled
  <2>10. Rests(m + 1, 15) = a \o b
    <3>1. P <= 13
      BY <1>8 DEF Precedence
    <3>2. Rests(m + 1, 15) = Rests(P, 15) \o Rests(m + 1, P - 1)
      BY <1>9, <2>2, <3>1, RestsAbove
    <3> QED
      BY <2>9, <3>2, Zenon
  <2>11. a \o ((b \o c) \o r) = ((a \o b) \o c) \o r
    <3>1. PICK d \in Seq(Spellings) : d = b \o c
      BY <2>9, Joined, Zenon
    <3>2. Associate(a, d, r) /\ Associate(a, b, c)
      BY <1>5, <2>9, <3>1, Associated, Zenon
    <3> QED
      BY <3>1, <3>2, Zenon DEF Associate
  <2>12. WordsOf(todo, 15) = WordsOf(todo', 15)
    BY <1>6, <2>7, <2>8, <2>9, <2>10, <2>11, Zenon
  <2> QED
    BY <1>1, <2>12, Quiet DEF Becomes
<1>10. CASE P <= m
  <2>1. Then(<<>>)
    BY <1>2, <1>4, <1>8, <1>10 DEF Inner
  <2>2. todo' = s
    BY <1>2, <2>1, NoneAround DEF Then
  <2>3. PICK y \in Items, s1 \in Seq(Items) : y = s[1] /\ s = <<y>> \o s1
    <3>1. s = <<s[1]>> \o Tail(s) /\ s[1] \in Items /\ Tail(s) \in Seq(Items)
      BY <1>3, HeadInFront
    <3> QED
      BY <3>1, Zenon
  <2>4. PICK n \in Nat : n = y.n /\ n <= m /\ y.op = "rhs"
    BY <1>3, <1>4, <2>3
  <2>5. PICK v \in Seq(Spellings) : v = WordsOf(s1, Highest(y))
    BY LoopWords
  <2>6. \A h : WordsOf(<<y>> \o s1, h) = Rests(n, h) \o v
    BY <2>4, <2>5, LoopWords
  <2>7. r = Rests(n, m) \o v /\ WordsOf(s, 15) = Rests(n, 15) \o v
    BY <1>5, <2>3, <2>6, Zenon
  <2>8. Settle((Rests(m + 1, 15) \o Complete(m)) \o (Rests(n, m) \o v), t) =
          Settle(Rests(n, 15) \o v, t)
    <3>1. m \in Int /\ n \in Int /\ m <= 15 /\ Precedence(t) <= m
      BY <1>4, <1>7, <1>8, <1>10
    <3> QED
      BY <2>4, <3>1, LoopsEnd
  <2>9. Settle(WordsOf(todo, 15), t) = Settle(WordsOf(todo', 15), t)
    BY <1>6, <2>2, <2>7, <2>8, Zenon
  <2> QED
    BY <1>1, <1>7, <2>9, Quiet DEF Becomes
<1> QED
  BY <1>9, <1>10

-----------------------------------------------------------------------------
(* What was reported stays so.                                             *)
LEMMA ErrorsStay ==
  ASSUME Step, errors = "some"
  PROVE  errors' = "some"
<1>1. CASE ExpectStep \/ ProgramStep \/ Block \/ Stmts \/ RetVal \/ Returned \/ EndBlock
  BY <1>1 DEF ExpectStep, ProgramStep, Block, Stmts, RetVal, Returned, EndBlock
<1>2. CASE Else \/ FunName \/ Params \/ Param \/ MoreParams \/ TypeName \/ TypeCheck \/ Define
  BY <1>2 DEF Else, FunName, Params, Param, MoreParams, TypeName, TypeCheck, Define, Halt
<1>3. CASE Expr \/ Rhs \/ Inner \/ Prim \/ Name \/ Args \/ CheckArgs \/ Parsed
  BY <1>3 DEF Expr, Rhs, Inner, Prim, Name, Args, CheckArgs, Parsed, Halt
<1> QED
  BY <1>1, <1>2, <1>3 DEF Step

LEMMA StepRuns ==
  ASSUME Step
  PROVE  status = "running"
  BY DEF Step, ExpectStep, ProgramStep, Block, Stmts, RetVal, Returned, EndBlock, Else, FunName,
     Params, Param, MoreParams, TypeName, TypeCheck, Define, Expr, Rhs, Inner, Prim, Name, Args,
     CheckArgs, Parsed, Doing

LEMMA StepImplements ==
  ASSUME Inv, Inv', Step, errors = "none"
  PROVE  [Language!Next]_Language!vars
<1>1. TypeOK /\ TypeOK' /\ Parsing
  BY StepRuns DEF Inv, Parsing
<1>2. CASE ExpectStep \/ ProgramStep
  BY <1>1, <1>2, ExpectImplements, ProgramImplements
<1>3. CASE Block \/ Stmts \/ RetVal \/ Else
  BY <1>1, <1>3, BlockImplements, StmtsImplements, RetValImplements, ElseImplements
<1>4. CASE Returned \/ EndBlock \/ FunName \/ TypeName \/ Define
  BY <1>1, <1>4, SilentImplements
<1>5. CASE TypeCheck \/ CheckArgs
  BY <1>1, <1>5, ChecksImplement
<1>6. CASE Params \/ Param \/ MoreParams
  BY <1>1, <1>6, ParamsImplement, ParamImplements, MoreParamsImplement
<1>7. CASE Expr \/ Rhs \/ Inner
  BY <1>1, <1>7, ExprImplements, RhsImplements, InnerImplements
<1>8. CASE Prim \/ Name \/ Args
  BY <1>1, <1>8, PrimImplements, NameImplements, ArgsImplement
<1>9. CASE Parsed
  BY <1>1, <1>9, Accepts
<1> QED
  BY <1>2, <1>3, <1>4, <1>5, <1>6, <1>7, <1>8, <1>9 DEF Step

LEMMA NextImplements ==
  ASSUME Inv, Inv', [Next]_vars
  PROVE  [Language!Next]_Language!vars
<1>1. CASE UNCHANGED vars
  BY <1>1, Unseen
<1>2. CASE Step
  <2>1. errors \in {"none", "some"}
    BY DEF Inv, TypeOK
  <2>2. CASE errors = "some"
    BY <1>2, <2>2, ErrorsStay, Unseen
  <2>3. CASE errors = "none"
    BY <1>2, <2>3, StepImplements
  <2> QED
    BY <2>1, <2>2, <2>3
<1> QED
  BY <1>1, <1>2 DEF Next, Stopped

LEMMA InitImplements ==
  ASSUME Init, Inv
  PROVE  Language!Init
<1> DEFINE x == Item("program")
           y == Expect("END")
<1>1. TypeOK /\ Parsing
  BY DEF Init, Inv, Parsing
<1>2. x \in Items /\ x.op = "program" /\ y \in Items /\ todo = <<x, y>>
  BY ItemFields, ExpectFields DEF Init, Ops, AllTokens
<1>3. Spells(<<x, y>>, <<"Program", "END">>)
  <2>1. /\ Spells(<<x>>, <<"Program">>)
    <3>1. "program" \in Deriving /\ Derived["program"] = <<"Program">>
      BY DerivingIs DEF Derived
    <3> QED
      BY <1>2, <3>1, Calls
  <2>2. Spells(<<y>>, <<"END">>)
    BY TokensSpell
  <2>3. "Program" \in Spellings /\ "END" \in Spellings
    BY NonterminalsAre DEF Spellings, Symbols, Terminals
  <2> HIDE DEF x, y
  <2> QED
    BY <1>2, <2>1, <2>2, <2>3, PairSpells
<1> HIDE DEF x, y
<1>4. WordsOf(todo, 15) = <<"Program", "END">>
  <2>1. WordsOf(<<x, y>> \o <<>>, 15) = <<"Program", "END">> \o WordsOf(<<>>, 15)
    <3>1. <<>> \in Seq(Items)
      OBVIOUS
    <3> QED
      BY <1>3, <3>1 DEF Spells
  <2>2. <<x, y>> \in Seq(Items) /\ <<"Program", "END">> \in Seq(Spellings)
    <3>1. "Program" \in Spellings /\ "END" \in Spellings
      BY NonterminalsAre DEF Spellings, Symbols, Terminals
    <3> QED
      BY <1>2, <3>1
  <2>3. WordsOf(<<>>, 15) = <<>>
    BY DEF WordsOf
  <2>4. <<x, y>> \o <<>> = <<x, y>> /\ <<"Program", "END">> \o <<>> = <<"Program", "END">>
    BY <2>2, NoneAround
  <2> QED
    BY <1>2, <2>1, <2>3, <2>4, Zenon
<1>5. /\ Outcome = "reading" /\ Token \in Terminals
      /\ Pending = Settle(<<"Program", "END">>, Token)
  BY <1>1, <1>4, Observed
<1>6. Consumed = 0
  <2>1. Consumed = MaxTokens - left + past - (IF look = "END" THEN 0 ELSE 1)
    BY <1>1, Observed
  <2>2. MaxTokens \in Nat
    BY TokensAssumption
  <2>3. past = 0 /\ left = IF look = "END" THEN MaxTokens ELSE MaxTokens - 1
    BY DEF Init
  <2>4. CASE look = "END"
    BY <2>1, <2>2, <2>3, <2>4
  <2>5. CASE look # "END"
    BY <2>1, <2>2, <2>3, <2>5
  <2> QED
    BY <2>4, <2>5
<1> QED
  BY <1>5, <1>6, SameGrammar DEF Language!Init

(* The parser reads the language of the grammar, from inputs of every      *)
(* length and nesting: it accepts its sentences and nothing else, gives    *)
(* every operator the operands that the grammar gives it, and reports an   *)
(* error no later than at the first token with which no sentence goes on.  *)
THEOREM IsLanguage == Spec => ImplementsGrammar
<1>1. Inv /\ Inv' /\ [Next]_vars => [Language!Next]_Language!vars
  BY NextImplements
<1>2. Init /\ Inv => Language!Init
  BY InitImplements
<1> QED
  BY <1>1, <1>2, AlwaysInv, InitInv, PTL DEF Spec, ImplementsGrammar, Language!Spec
=============================================================================
