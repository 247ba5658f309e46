---------------------------- MODULE Scanner_proof ----------------------------
(***************************************************************************)
(* Theorems about Scanner for every set of files, every way flex may read  *)
(* them in blocks, and all widths of int and long.                         *)
(***************************************************************************)
EXTENDS Scanner, FiniteSetTheorems, WellFoundedInduction, TLAPS

LEMMA LeastOf ==
  ASSUME NEW S \in SUBSET Nat, S # {}
  PROVE  \E m \in S : \A k \in S : m <= k
<1> DEFINE R == {p \in Nat \X Nat : p[1] < p[2]}
<1>1. IsWellFoundedOn(R, Nat)
  BY NatLessThanWellFounded DEF OpToRel
<1>2. \A i, j \in Nat : i < j => <<i, j>> \in R
  OBVIOUS
<1> HIDE DEF R
<1>3. PICK m \in S : \A k \in S : <<k, m>> \notin R
  BY <1>1, WFMin
<1>4. \A k \in S : ~(k < m)
  BY <1>2, <1>3
<1> QED
  BY <1>4

LEMMA Induction ==
  ASSUME NEW S \in SUBSET Nat, 0 \in S, \A n \in S : n + 1 \in S
  PROVE  Nat \subseteq S
<1> SUFFICES ASSUME Nat \ S # {} PROVE FALSE
  OBVIOUS
<1>1. PICK m \in Nat \ S : \A k \in Nat \ S : m <= k
  BY LeastOf
<1>2. m - 1 \in S
  BY <1>1
<1> QED
  BY <1>1, <1>2

(* A text that has a rule can be read to its end: as long as not all of it *)
(* is in the buffer, yylex goes on.                                        *)
LEMMA PrefixAt ==
  ASSUME NEW t \in Seq(Chars), NEW k \in 1..Len(t)
  PROVE  LET p == SubSeq(t, 1, k) IN
         /\ p \in Seq(Chars) /\ Len(p) = k /\ DOMAIN p = 1..k /\ p # <<>>
         /\ DOMAIN t = 1..Len(t)
         /\ \A i \in 1..k : p[i] = t[i] /\ i \in DOMAIN t
         /\ \A i \in 1..k : SubSeq(p, 1, i) = SubSeq(t, 1, i)
<1> DEFINE p == SubSeq(t, 1, k)
<1>1. p \in Seq(Chars) /\ Len(p) = k /\ DOMAIN p = 1..k /\ \A i \in 1..k : p[i] = t[i]
  OBVIOUS
<1>2. p # <<>>
  BY <1>1
<1> HIDE DEF p
<1>3. \A i \in 1..k : SubSeq(p, 1, i) = SubSeq(t, 1, i)
  <2> TAKE i \in 1..k
  <2>1. SubSeq(p, 1, i) = [j \in 1..i |-> p[j]] /\ SubSeq(t, 1, i) = [j \in 1..i |-> t[j]]
    BY <1>1
  <2>2. \A j \in 1..i : p[j] = t[j]
    BY <1>1
  <2> QED
    BY <2>1, <2>2
<1> QED
  BY <1>1, <1>2, <1>3 DEF p

LEMMA WithoutTwo ==
  ASSUME NEW t \in Seq(Chars), Len(t) >= 2
  PROVE  Tail(Tail(t)) = [i \in 1..(Len(t) - 2) |-> t[i + 2]]
<1>0. t # <<>> /\ Len(<<>>) = 0
  OBVIOUS
<1>1. PICK u \in Seq(Chars) : u = Tail(t)
  <2>1. Tail(t) \in Seq(Chars)
    BY <1>0
  <2> QED
    BY <2>1
<1>2. Len(u) = Len(t) - 1 /\ \A i \in 1..Len(u) : u[i] = t[i + 1]
  BY <1>0, <1>1
<1>3. PICK v \in Seq(Chars) : v = Tail(u)
  <2>1. u # <<>>
    BY <1>0, <1>2
  <2>2. Tail(u) \in Seq(Chars)
    BY <2>1
  <2> QED
    BY <2>2
<1>4. Len(v) = Len(t) - 2 /\ \A i \in 1..Len(v) : v[i] = u[i + 1]
  <2>1. u # <<>>
    BY <1>0, <1>2
  <2> QED
    BY <1>2, <1>3, <2>1
<1>5. \A i \in 1..Len(v) : v[i] = t[i + 2]
  <2> TAKE i \in 1..Len(v)
  <2>1. i + 1 \in 1..Len(u) /\ (i + 1) + 1 = i + 2
    BY <1>2, <1>4
  <2> QED
    BY <1>2, <1>4, <2>1
<1>6. v = [i \in 1..Len(v) |-> v[i]]
  OBVIOUS
<1> QED
  BY <1>1, <1>3, <1>4, <1>5, <1>6

LEMMA DotsCounted ==
  ASSUME NEW t \in Seq(Chars), NEW k \in 1..Len(t)
  PROVE  /\ Dots(t) \in Nat
         /\ Dots(SubSeq(t, 1, k)) \in 0..Dots(t)
         /\ Dots(SubSeq(t, 1, k)) = 0 => \A i \in 1..k : t[i] # "dot"
<1> DEFINE p == SubSeq(t, 1, k)
           T == {i \in DOMAIN t : t[i] = "dot"}
           P == {i \in DOMAIN p : p[i] = "dot"}
<1>1. /\ DOMAIN p = 1..k /\ DOMAIN t = 1..Len(t)
      /\ \A i \in 1..k : p[i] = t[i] /\ i \in DOMAIN t
  BY PrefixAt
<1> HIDE DEF p
<1>2. P \subseteq T
  BY <1>1
<1>3. IsFiniteSet(T)
  <2>1. IsFiniteSet(1..Len(t))
    BY FS_Interval
  <2> QED
    BY <1>1, <2>1, FS_Subset
<1> HIDE DEF P, T
<1>4. IsFiniteSet(P) /\ Cardinality(P) <= Cardinality(T)
  BY <1>2, <1>3, FS_Subset
<1>5. Cardinality(P) \in Nat /\ Cardinality(T) \in Nat
  BY <1>3, <1>4, FS_CardinalityType
<1>6. Cardinality(P) = 0 => P = {}
  BY <1>4, FS_EmptySet
<1>7. Dots(t) = Cardinality(T) /\ Dots(p) = Cardinality(P)
  BY DEF Dots, T, P
<1>8. P = {} => \A i \in 1..k : t[i] # "dot"
  BY <1>1 DEF P
<1> QED
  BY <1>4, <1>5, <1>6, <1>7, <1>8 DEF p

LEMMA BeginningsAreOpen ==
  ASSUME NEW t \in Seq(Chars), NEW k \in 1..(Len(t) - 1), Rule(t) # "none"
  PROVE  Open(SubSeq(t, 1, k))
<1> DEFINE p == SubSeq(t, 1, k)
<1>0. k \in 1..Len(t) /\ Len(t) \in Nat
  OBVIOUS
<1>1. /\ p \in Seq(Chars) /\ Len(p) = k /\ DOMAIN p = 1..k /\ p # <<>>
      /\ DOMAIN t = 1..Len(t)
      /\ \A i \in 1..k : p[i] = t[i] /\ i \in DOMAIN t
      /\ \A i \in 1..k : SubSeq(p, 1, i) = SubSeq(t, 1, i)
  BY <1>0, PrefixAt
<1>2. /\ Dots(t) \in Nat /\ Dots(p) \in 0..Dots(t)
      /\ Dots(p) = 0 => \A i \in 1..k : t[i] # "dot"
  BY <1>0, DotsCounted
<1>3. 1 \in 1..k /\ Len(t) >= 2 /\ t[1] = p[1]
  BY <1>0, <1>1
<1>4. k = 1 => p = <<t[1]>>
  <2>1. Len(<<t[1]>>) = 1 /\ <<t[1]>>[1] = t[1]
    OBVIOUS
  <2>2. ASSUME k = 1 PROVE p = <<t[1]>>
    <3>1. p = [i \in 1..1 |-> p[i]] /\ <<t[1]>> = [i \in 1..1 |-> t[1]]
      BY <1>1, <2>2
    <3>2. \A i \in 1..1 : p[i] = t[1]
      BY <1>1, <2>2
    <3> HIDE DEF p
    <3> QED
      BY <3>1, <3>2
  <2> QED
    BY <2>2
<1> HIDE DEF p
<1>5. \/ t = <<"/", "*">> \/ LineComment(t) \/ Identifier(t) \/ Number(t) \/ Floating(t)
      \/ Character(t) \/ Strings(t)
  <2>1. Len(<<"*">>) = 1 /\ Len(<<"/">>) = 1
    OBVIOUS
  <2>2. t # <<"*">> /\ t # <<"/">> /\ Len(t) # 1
    BY <1>0, <1>3, <2>1
  <2> QED
    BY <2>1, <2>2 DEF Rule
<1>6. CASE t = <<"/", "*">>
  <2>1. k = 1 /\ t[1] = "/"
    BY <1>0, <1>6
  <2> QED
    BY <1>4, <2>1 DEF Open, p
<1>7. CASE LineComment(t)
  <2>1. t[1] = "/" /\ t[2] = "/" /\ \A i \in DOMAIN t : t[i] # "nl"
    BY <1>7 DEF LineComment
  <2>2. CASE k = 1
    BY <1>4, <2>1, <2>2 DEF Open, p
  <2>3. CASE k # 1
    <3>1. k > 1 /\ 2 \in 1..k
      BY <1>0, <2>3
    <3>2. LineComment(p)
      BY <1>1, <1>3, <2>1, <3>1 DEF LineComment
    <3> QED
      BY <1>1, <3>2 DEF Open, p
  <2> QED
    BY <2>2, <2>3
<1>8. CASE Identifier(t)
  <2>1. Identifier(p)
    BY <1>1, <1>3, <1>8 DEF Identifier, AllIn
  <2> QED
    BY <1>1, <2>1 DEF Open, p
<1>9. CASE AllIn(t, Digits)
  <2>1. Number(p)
    BY <1>1, <1>9 DEF Number, AllIn
  <2> QED
    BY <1>1, <2>1 DEF Open, p
<1>10. CASE Hexadecimal(t)
  <2>1. /\ Len(t) > 2 /\ t[1] = "0" /\ t[2] = "x"
        /\ \A i \in 3..Len(t) : t[i] \in Digits
    <3>1. Tail(Tail(t)) = [i \in 1..(Len(t) - 2) |-> t[i + 2]] /\ Len(t) > 2
      BY <1>0, <1>3, <1>10, WithoutTwo DEF Hexadecimal
    <3>2. \A i \in 1..(Len(t) - 2) : t[i + 2] \in Digits
      BY <1>10, <3>1 DEF Hexadecimal, AllIn
    <3>3. \A i \in 3..Len(t) : i - 2 \in 1..(Len(t) - 2) /\ t[(i - 2) + 2] = t[i]
      BY <1>0
    <3>4. \A i \in 3..Len(t) : t[i] \in Digits
      BY <3>2, <3>3
    <3> QED
      BY <1>10, <3>4 DEF Hexadecimal
  <2>2. CASE k = 1
    <3>1. AllIn(p, Digits)
      BY <1>1, <2>1, <2>2 DEF AllIn, Digits
    <3> QED
      BY <1>1, <3>1 DEF Open, Number, p
  <2>3. CASE k > 1
    <3>1. Tail(Tail(p)) = [i \in 1..(k - 2) |-> p[i + 2]]
      BY <1>0, <1>1, <2>3, WithoutTwo
    <3>2. \A i \in 1..(k - 2) : i + 2 \in 1..k /\ i + 2 \in 3..Len(t)
      BY <1>0
    <3>3. AllIn(Tail(Tail(p)), Digits)
      BY <1>1, <2>1, <3>1, <3>2 DEF AllIn
    <3>4. AllIn(Tail(Tail(p)), Digits \cup {"dot"})
      BY <3>3 DEF AllIn
    <3>5. 2 \in 1..k /\ p[1] = "0" /\ p[2] = "x"
      BY <1>0, <1>1, <1>3, <2>1, <2>3
    <3>6. Dots(p) = 0
      <4>1. \A i \in DOMAIN p : p[i] # "dot"
        <5> TAKE i \in DOMAIN p
        <5>1. i = 1 \/ i = 2 \/ i \in 3..Len(t)
          BY <1>0, <1>1
        <5>2. p[i] \in {"0", "x"} \cup Digits
          BY <1>1, <2>1, <5>1
        <5> QED
          BY <5>2 DEF Digits
      <4>2. {i \in DOMAIN p : p[i] = "dot"} = {}
        BY <4>1
      <4> QED
        BY <4>2, FS_EmptySet DEF Dots
    <3>7. HexFloating(p)
      BY <1>1, <2>3, <3>4, <3>5, <3>6 DEF HexFloating
    <3> QED
      BY <1>1, <3>7 DEF Open, p
  <2> QED
    BY <1>0, <2>2, <2>3
<1>11. CASE Floating(t)
  <2>1. /\ \A i \in DOMAIN t : t[i] \in Digits \cup {"dot"}
        /\ Dots(t) = 1
    BY <1>11 DEF Floating, AllIn
  <2>2. CASE Dots(p) = 0
    <3>1. AllIn(p, Digits)
      BY <1>1, <1>2, <2>1, <2>2 DEF AllIn
    <3> QED
      BY <1>1, <3>1 DEF Open, Number, p
  <2>3. CASE Dots(p) = 1 /\ k > 1
    <3>1. Floating(p)
      BY <1>1, <2>1, <2>3 DEF Floating, AllIn
    <3> QED
      BY <1>1, <3>1 DEF Open, p
  <2>4. CASE Dots(p) = 1 /\ k = 1
    <3>1. CASE t[1] = "dot"
      BY <1>4, <2>4, <3>1 DEF Open, p
    <3>2. CASE t[1] # "dot"
      <4>1. AllIn(p, Digits)
        BY <1>1, <2>1, <2>4, <3>2 DEF AllIn
      <4> QED
        BY <1>1, <4>1 DEF Open, Number, p
    <3> QED
      BY <3>1, <3>2
  <2> QED
    BY <1>0, <1>2, <2>1, <2>2, <2>3, <2>4
<1>12. CASE Strings(t)
  <2>1. Strings(p)
    BY <1>1, <1>3, <1>12 DEF Strings
  <2> QED
    BY <1>1, <2>1 DEF Open, p
<1>13. CASE Character(t)
  <2>1. t[1] = "apos" /\ \A i \in 2..(Len(t) - 1) : t[i] \notin {"apos", "nl"}
    BY <1>13 DEF Character
  <2>2. \A i \in 2..k : i \in 2..(Len(t) - 1) /\ i \in 1..k
    BY <1>0
  <2>3. p[1] = "apos" /\ \A i \in 2..Len(p) : p[i] \notin {"apos", "nl"}
    BY <1>1, <1>3, <2>1, <2>2
  <2> QED
    BY <1>1, <2>3 DEF Open, OpenCharacter, p
<1> QED
  BY <1>5, <1>6, <1>7, <1>8, <1>9, <1>10, <1>11, <1>12, <1>13 DEF Number
-----------------------------------------------------------------------------
(* Every non-empty text begins with one that has a rule: its first         *)
(* character at least, so that yylex always has a longest match.           *)
LEMMA CharHasRule ==
  ASSUME NEW s \in Seq(Chars), Len(s) = 1
  PROVE  Rule(s) # "none"
<1>1. s[1] \in Chars /\ DOMAIN s = {1}
  OBVIOUS
<1>2. CASE s[1] = "x"
  BY <1>1, <1>2 DEF Rule, Identifier, AllIn
<1>3. CASE s[1] \in Digits
  BY <1>1, <1>3 DEF Rule, Number, AllIn
<1>4. CASE s[1] \in {"dot", "quote", "apos", "nl", "space", "nul"}
  BY <1>1, <1>4 DEF Rule
<1>5. CASE s[1] \in {"*", "/"}
  <2>1. s = <<s[1]>>
    BY <1>1
  <2>2. s = <<"*">> \/ s = <<"/">>
    BY <1>5, <2>1
  <2> QED
    BY <2>2 DEF Rule
<1> QED
  BY <1>1, <1>2, <1>3, <1>4, <1>5 DEF Chars, Digits

LEMMA LongestMatches ==
  ASSUME NEW s \in Seq(Chars), s # <<>>
  PROVE  /\ Longest(s) \in 1..Len(s)
         /\ Rule(SubSeq(s, 1, Longest(s))) # "none"
         /\ \A j \in (Longest(s) + 1)..Len(s) : Rule(SubSeq(s, 1, j)) = "none"
<1> DEFINE Matches == {k \in 1..Len(s) : Rule(SubSeq(s, 1, k)) # "none"}
           Above == {u \in Nat : \A k \in Matches : k <= u}
           R == OpToRel(<, Nat)
<1>1. 1 \in Matches
  <2>1. Len(s) \in Nat /\ Len(s) >= 1
    OBVIOUS
  <2>2. SubSeq(s, 1, 1) \in Seq(Chars) /\ Len(SubSeq(s, 1, 1)) = 1
    BY <2>1
  <2>3. Rule(SubSeq(s, 1, 1)) # "none"
    BY <2>2, CharHasRule
  <2>4. 1 \in 1..Len(s)
    BY <2>1
  <2> QED
    BY <2>3, <2>4
<1>2. PICK m \in Above : \A u \in Above : ~(<<u, m>> \in R)
  <2>1. Len(s) \in Above
    OBVIOUS
  <2>2. Above \subseteq Nat
    OBVIOUS
  <2>3. IsWellFoundedOn(R, Nat)
    BY NatLessThanWellFounded
  <2> HIDE DEF R, Above
  <2> QED
    BY <2>1, <2>2, <2>3, WFMin
<1>3. \A u \in Above : ~(u < m)
  BY <1>2 DEF OpToRel
<1>4. m \in Matches
  <2> SUFFICES ASSUME m \notin Matches PROVE FALSE
    OBVIOUS
  <2>1. m >= 1
    BY <1>1
  <2>2. \A k \in Matches : k <= m /\ k # m
    OBVIOUS
  <2>3. \A k \in Matches : k <= m - 1
    BY <2>1, <2>2
  <2>4. m - 1 \in Above
    BY <2>1, <2>3
  <2> QED
    BY <1>3, <2>1, <2>4
<1>5. m \in DOMAIN s /\ Rule(SubSeq(s, 1, m)) # "none"
  BY <1>4
<1>6. \A j \in (m + 1)..Len(s) : Rule(SubSeq(s, 1, j)) = "none"
  <2> SUFFICES ASSUME NEW j \in (m + 1)..Len(s), Rule(SubSeq(s, 1, j)) # "none"
               PROVE  FALSE
    OBVIOUS
  <2>1. j \in Matches
    BY <1>4
  <2> QED
    BY <2>1
<1> QED
  BY <1>5, <1>6 DEF Longest

(* What strtol returns is a long, and what is stored of it an int.         *)
LEMMA ConstantsAreInts ==
  ASSUME NEW s
  PROVE  Converted(s) \in -(IntMax + 1)..IntMax
<1>1. StrToL(s, 10) \in 0..LongMax
  BY ScannerAssumption DEF StrToL
<1>2. \A n \in 0..LongMax : ToInt(n) \in -(IntMax + 1)..IntMax
  <2> SUFFICES ASSUME NEW n \in 0..LongMax PROVE ToInt(n) \in -(IntMax + 1)..IntMax
    OBVIOUS
  <2>1. n % (2 * IntMax + 2) \in 0..(2 * IntMax + 1)
    BY ScannerAssumption
  <2> QED
    BY <2>1, ScannerAssumption DEF ToInt
<1> QED
  BY <1>1, <1>2 DEF Converted

(* What is read of the file at a time is part of it.                       *)
LEMMA BlockIsText ==
  ASSUME InputOK, NEW p \in 1..(Len(file) + 1)
  PROVE  /\ BlockAt(p) \in Seq(Chars)
         /\ p + Len(BlockAt(p)) \in p..(Len(file) + 1)
         /\ \A i \in 1..Len(BlockAt(p)) : BlockAt(p)[i] = file[p + i - 1]
<1>1. file \in Seq(Chars) /\ block \in Nat /\ block >= 1 /\ Len(file) \in Nat
  BY ScannerAssumption DEF InputOK
<1> DEFINE last == IF p + block - 1 <= Len(file) THEN p + block - 1 ELSE Len(file)
<1>2. last \in Nat /\ last <= Len(file) /\ last >= p - 1
  BY <1>1
<1>3. SubSeq(file, p, last) \in Seq(Chars) /\ Len(SubSeq(file, p, last)) = last - p + 1
  BY <1>1, <1>2
<1>4. \A i \in 1..(last - p + 1) : SubSeq(file, p, last)[i] = file[p + i - 1]
  BY <1>1, <1>2
<1> QED
  BY <1>1, <1>2, <1>3, <1>4 DEF BlockAt
-----------------------------------------------------------------------------
(* Delivering a token of a kind and a text that belong together.           *)
LEMMA Delivered ==
  ASSUME CacheOK,
         NEW id \in {"NAME", "I_CONSTANT", "F_CONSTANT", "MULT", "DIVIDE", "END"},
         NEW text \in Seq(Chars) \cup {Eof},
         id = "END" <=> text = Eof,
         Deliver(id, text)
  PROVE  CacheOK' /\ mode' = "idle"
<1> DEFINE new == [id |-> id, text |-> text,
                   value |-> IF id = "I_CONSTANT" THEN Converted(text) ELSE 0]
<1>1. CASE text \in DOMAIN tokens /\ id # "END"
  <2>1. /\ UNCHANGED <<heap, tokens>> /\ mode' = "idle"
        /\ handed' = Append(handed, tokens[text])
    BY <1>1 DEF Deliver
  <2>2. tokens[text] \in DOMAIN heap
    BY <1>1 DEF CacheOK
  <2>3. handed' \in Seq(DOMAIN heap)
    BY <2>1, <2>2 DEF CacheOK
  <2> QED
    BY <2>1, <2>3 DEF CacheOK
<1>2. CASE ~(text \in DOMAIN tokens /\ id # "END")
  <2>1. new \in Tokens
    <3>1. Converted(text) \in -(IntMax + 1)..IntMax
      BY ConstantsAreInts
    <3>2. 0 \in -(IntMax + 1)..IntMax
      BY ScannerAssumption
    <3> QED
      BY <3>1, <3>2 DEF Tokens
  <2>2. /\ heap' = Append(heap, new)
        /\ tokens' = [t \in DOMAIN tokens \cup {text} |->
                        IF t = text THEN Len(heap) + 1 ELSE tokens[t]]
        /\ handed' = Append(handed, Len(heap) + 1)
        /\ mode' = "idle"
    BY <1>2 DEF Deliver
  <2>3. new.id = id /\ new.text = text
    OBVIOUS
  <2> HIDE DEF new
  <2>4. /\ heap' \in Seq(Tokens) /\ Len(heap) \in Nat /\ Len(heap') = Len(heap) + 1
        /\ \A i \in 1..Len(heap) : heap'[i] = heap[i]
        /\ heap'[Len(heap) + 1] = new
    BY <2>1, <2>2 DEF CacheOK
  <2>5. DOMAIN heap = 1..Len(heap) /\ DOMAIN heap' = 1..(Len(heap) + 1)
    BY <2>4 DEF CacheOK
  <2>6. handed' \in Seq(DOMAIN heap')
    <3>1. handed \in Seq(DOMAIN heap')
      BY <2>4, <2>5 DEF CacheOK
    <3> QED
      BY <2>2, <2>4, <2>5, <3>1
  <2>7. DOMAIN tokens' = DOMAIN tokens \cup {text}
    BY <2>2
  <2>8. \A i \in DOMAIN heap' : /\ heap'[i].text \in DOMAIN tokens'
                                /\ heap'[i].id = "END" <=> heap'[i].text = Eof
    <3>1. ASSUME NEW i \in 1..Len(heap)
          PROVE  /\ heap'[i].text \in DOMAIN tokens'
                 /\ heap'[i].id = "END" <=> heap'[i].text = Eof
      BY <2>4, <2>5, <2>7 DEF CacheOK
    <3>2. /\ heap'[Len(heap) + 1].text \in DOMAIN tokens'
          /\ heap'[Len(heap) + 1].id = "END" <=> heap'[Len(heap) + 1].text = Eof
      BY <2>3, <2>4, <2>7
    <3> QED
      BY <2>4, <2>5, <3>1, <3>2
  <2>9. \A t \in DOMAIN tokens' : tokens'[t] \in DOMAIN heap' /\ heap'[tokens'[t]].text = t
    BY <2>2, <2>3, <2>4, <2>5, <2>7 DEF CacheOK
  <2> QED
    BY <2>2, <2>4, <2>6, <2>8, <2>9 DEF CacheOK
<1> QED
  BY <1>1, <1>2

LEMMA CacheStays ==
  ASSUME CacheOK, UNCHANGED cache
  PROVE  CacheOK'
  BY DEF CacheOK, cache

(* The rules that deliver a token.                                         *)
LEMMA RuleNames ==
  ASSUME NEW s
  PROVE  Rule(s) \in {"comment", "skip", "NAME", "I_CONSTANT", "F_CONSTANT", "STRING_LITERAL",
                      "MULT", "DIVIDE", "none"}
  BY DEF Rule

LEMMA EofIsNoText == Eof \notin Seq(Chars)
<1>1. Eof[1] = "[eof]" /\ Len(Eof) = 1
  BY DEF Eof
<1>2. Eof[1] \notin Chars
  BY <1>1 DEF Chars
<1> QED
  BY <1>1, <1>2
-----------------------------------------------------------------------------
(* What get() takes of a text, and that it takes all of one without a NUL. *)
LEMMA CStringIs ==
  ASSUME NEW s \in Seq(Chars)
  PROVE  /\ CString(s) \in Seq(Chars)
         /\ s # <<>> /\ s[1] # "nul" => CString(s) # <<>> /\ CString(s)[1] = s[1]
         /\ (\A i \in 1..Len(s) : s[i] # "nul") => CString(s) = s
<1> DEFINE S == {i \in 1..Len(s) : s[i] = "nul"}
           P(i) == s[i] = "nul" /\ \A j \in 1..(i - 1) : s[j] # "nul"
           c == CHOOSE i \in DOMAIN s : P(i)
<1>0. DOMAIN s = 1..Len(s) /\ Len(s) \in Nat /\ (s # <<>> => 1 \in 1..Len(s))
  OBVIOUS
<1>1. CASE S = {}
  <2>1. CString(s) = s
    BY <1>0, <1>1 DEF CString
  <2> QED
    BY <2>1
<1>2. CASE S # {}
  <2>1. PICK m \in S : \A k \in S : m <= k
    <3>1. S \in SUBSET Nat
      OBVIOUS
    <3> HIDE DEF S
    <3> QED
      BY <1>2, <3>1, LeastOf
  <2>2. m \in DOMAIN s /\ P(m)
    <3>1. m \in 1..Len(s) /\ s[m] = "nul"
      BY <2>1
    <3>2. \A j \in 1..(m - 1) : j \in 1..Len(s) /\ ~(m <= j)
      BY <1>0, <3>1
    <3>3. \A j \in 1..(m - 1) : s[j] # "nul"
      BY <2>1, <3>2
    <3> QED
      BY <1>0, <3>1, <3>3
  <2>3. CString(s) = SubSeq(s, 1, c - 1)
    BY <1>0, <1>2 DEF CString
  <2>4. c \in DOMAIN s /\ P(c)
    <3> HIDE DEF P
    <3> QED
      BY <2>2
  <2>5. c \in 1..Len(s) /\ s[c] = "nul"
    BY <1>0, <2>4
  <2> HIDE DEF c
  <2>6. SubSeq(s, 1, c - 1) \in Seq(Chars) /\ Len(SubSeq(s, 1, c - 1)) = c - 1
    BY <1>0, <2>5
  <2>7. ASSUME s # <<>>, s[1] # "nul"
        PROVE  CString(s) # <<>> /\ CString(s)[1] = s[1]
    <3>1. c - 1 >= 1
      BY <1>0, <2>5, <2>7
    <3>2. SubSeq(s, 1, c - 1)[1] = s[1]
      BY <1>0, <2>5, <3>1
    <3>3. SubSeq(s, 1, c - 1) # <<>>
      BY <2>6, <3>1
    <3> QED
      BY <2>3, <3>2, <3>3
  <2> QED
    BY <1>0, <2>3, <2>5, <2>6, <2>7
<1> QED
  BY <1>1, <1>2
-----------------------------------------------------------------------------
(* The scanner's state keeps its shape: yyin stays within the file, the    *)
(* cache finds each token under its own text (scanner.cc:63-90), and the   *)
(* value of an integer constant is an int.                                 *)
THEOREM TypeCorrect == Spec => []TypeOK
<1>1. Init => TypeOK
  <2> SUFFICES ASSUME Init PROVE TypeOK
    OBVIOUS
  <2>1. file \in Files /\ Len(file) \in Nat
    BY ScannerAssumption DEF Init
  <2>2. <<>> \in Seq(Chars) /\ <<>> \in Seq(Tokens) /\ <<>> \in Seq(DOMAIN heap)
    OBVIOUS
  <2> QED
    BY <2>1, <2>2 DEF Init, TypeOK, InputOK, CacheOK
<1>2. TypeOK /\ [Next]_vars => TypeOK'
  <2> SUFFICES ASSUME TypeOK, [Next]_vars PROVE InputOK' /\ CacheOK'
    BY DEF TypeOK
  <2> USE DEF TypeOK
  <2>0. /\ file \in Seq(Chars) /\ Len(file) \in Nat /\ at \in 1..(Len(file) + 1)
        /\ opened \in 0..(Len(file) + 1)
    BY ScannerAssumption DEF InputOK
  <2>1. CASE Get
    <3>1. InputOK'
      BY <2>1 DEF Get, input, InputOK
    <3> QED
      BY <2>1, <3>1, CacheStays DEF Get
  <2>2. CASE Fill
    <3>1. /\ BlockAt(at) \in Seq(Chars)
          /\ at + Len(BlockAt(at)) \in at..(Len(file) + 1)
      BY <2>0, BlockIsText
    <3>2. buf' \in Seq(Chars) /\ at' \in 1..(Len(file) + 1)
      BY <2>0, <2>2, <3>1 DEF Fill, InputOK
    <3>3. InputOK'
      BY <2>2, <3>2 DEF Fill, InputOK
    <3>4. UNCHANGED cache
      BY <2>2 DEF Fill
    <3> QED
      BY <3>3, <3>4, CacheStays
  <2>3. CASE Match
    <3> DEFINE k    == Longest(buf)
               text == SubSeq(buf, 1, k)
               rest == SubSeq(buf, k + 1, Len(buf))
               rule == Rule(text)
    <3>1. buf \in Seq(Chars) /\ buf # <<>> /\ Len(buf) \in Nat
      BY <2>3 DEF Match, InputOK
    <3>2. k \in 1..Len(buf)
      BY <3>1, LongestMatches
    <3>3. text \in Seq(Chars) /\ rest \in Seq(Chars)
      <4> HIDE DEF k
      <4> QED
        BY <3>1, <3>2
    <3>4. /\ buf' = rest
          /\ Count(text)
          /\ UNCHANGED <<file, block, at>>
          /\ \/ rule = "skip" /\ UNCHANGED <<mode, opened, clean, cache>>
             \/ /\ rule = "comment" /\ mode' = "comment" /\ opened' = at
                /\ clean' = (clean /\ rest = <<>>) /\ UNCHANGED cache
             \/ /\ rule = "STRING_LITERAL" /\ mode' = "abort"
                /\ UNCHANGED <<opened, clean, cache>>
             \/ /\ rule \notin {"skip", "comment", "STRING_LITERAL"}
                /\ Deliver(rule, CString(text)) /\ UNCHANGED <<opened, clean>>
      BY <2>3 DEF Match
    <3>9. line' \in Nat /\ col' \in Nat
      <4>1. Len(text) \in Nat
        BY <3>3
      <4> HIDE DEF text
      <4> QED
        BY <3>4, <4>1 DEF Count, InputOK
    <3> HIDE DEF text, rest, rule
    <3>5. CASE rule = "skip" /\ UNCHANGED <<mode, opened, clean, cache>>
      <4>1. InputOK'
        BY <3>3, <3>4, <3>9, <3>5 DEF InputOK
      <4> QED
        BY <3>5, <4>1, CacheStays
    <3>6. CASE /\ rule = "comment" /\ mode' = "comment" /\ opened' = at
               /\ clean' = (clean /\ rest = <<>>) /\ UNCHANGED cache
      <4>1. InputOK'
        BY <2>0, <3>3, <3>4, <3>9, <3>6 DEF InputOK
      <4> QED
        BY <3>6, <4>1, CacheStays
    <3>7. CASE /\ rule = "STRING_LITERAL" /\ mode' = "abort"
               /\ UNCHANGED <<opened, clean, cache>>
      <4>1. InputOK'
        BY <3>3, <3>4, <3>9, <3>7 DEF InputOK
      <4> QED
        BY <3>7, <4>1, CacheStays
    <3>8. CASE /\ rule \notin {"skip", "comment", "STRING_LITERAL"}
               /\ Deliver(rule, CString(text)) /\ UNCHANGED <<opened, clean>>
      <4>1. rule \in {"NAME", "I_CONSTANT", "F_CONSTANT", "MULT", "DIVIDE"}
        BY <3>1, <3>8, LongestMatches, RuleNames DEF rule, text
      <4>2. CString(text) \in Seq(Chars) \cup {Eof} /\ CString(text) # Eof
        BY <3>3, CStringIs, EofIsNoText
      <4>3. CacheOK' /\ mode' = "idle"
        BY <3>8, <4>1, <4>2, Delivered
      <4>4. InputOK'
        BY <3>3, <3>4, <3>9, <3>8, <4>3 DEF InputOK
      <4> QED
        BY <4>3, <4>4
    <3> QED
      BY <3>4, <3>5, <3>6, <3>7, <3>8
  <2>4. CASE Wrap
    <3>1. Deliver("END", Eof) /\ UNCHANGED <<input, opened, clean>>
      BY <2>4 DEF Wrap
    <3>2. CacheOK' /\ mode' = "idle"
      BY <3>1, Delivered
    <3>3. InputOK'
      BY <3>1, <3>2 DEF input, InputOK
    <3> QED
      BY <3>2, <3>3
  <2>5. CASE CommentChar
    <3>1. at' \in 1..(Len(file) + 1)
      BY <2>0, <2>5 DEF CommentChar, Next1
    <3>2. mode' \in {"match", "comment", "stars"}
      BY <2>5 DEF CommentChar
    <3>3. UNCHANGED <<file, block, buf, line, col, opened, clean, cache>>
      BY <2>5 DEF CommentChar
    <3>4. InputOK'
      BY <3>1, <3>2, <3>3 DEF InputOK
    <3> QED
      BY <3>3, <3>4, CacheStays
  <2>6. CASE CommentNul
    <3> DEFINE more == IF buf = <<>> THEN BlockAt(at + 1) ELSE <<>>
               text == buf \o more
    <3>1. at <= Len(file)
      BY <2>6 DEF CommentNul, Fgetc
    <3>2. /\ more \in Seq(Chars)
          /\ at + 1 + Len(more) \in 1..(Len(file) + 1)
      <4>1. at + 1 \in 1..(Len(file) + 1)
        BY <2>0, <3>1
      <4>2. /\ BlockAt(at + 1) \in Seq(Chars)
            /\ at + 1 + Len(BlockAt(at + 1)) \in (at + 1)..(Len(file) + 1)
        BY <4>1, BlockIsText
      <4>3. <<>> \in Seq(Chars) /\ Len(<<>>) = 0
        OBVIOUS
      <4>4. CASE buf = <<>>
        BY <2>0, <4>1, <4>2, <4>4
      <4>5. CASE buf # <<>>
        BY <2>0, <4>1, <4>3, <4>5
      <4> QED
        BY <4>4, <4>5
    <3>3. /\ at' = at + 1 + Len(more)
          /\ buf' = <<"space">> \o (IF text = <<>> THEN <<>> ELSE Tail(text))
      BY <2>6 DEF CommentNul
    <3> HIDE DEF more
    <3>4. text \in Seq(Chars)
      BY <3>2 DEF InputOK
    <3> HIDE DEF text
    <3>5. <<"space">> \in Seq(Chars)
      BY DEF Chars
    <3>6. buf' \in Seq(Chars)
      BY <3>3, <3>4, <3>5
    <3>7. InputOK' /\ UNCHANGED cache
      BY <2>6, <3>2, <3>3, <3>6 DEF CommentNul, InputOK
    <3> QED
      BY <3>7, CacheStays
  <2>7. CASE UNCHANGED vars
    <3>1. InputOK' /\ UNCHANGED cache
      BY <2>7 DEF vars, cache, InputOK
    <3> QED
      BY <3>1, CacheStays
  <2> QED
    BY <2>1, <2>2, <2>3, <2>4, <2>5, <2>6, <2>7 DEF Next, Step, Stopped
<1> QED
  BY <1>1, <1>2, PTL DEF Spec
-----------------------------------------------------------------------------
(* Handing out the token of a text keeps all tokens handed out before.     *)
LEMMA DeliverKeepsTokens ==
  ASSUME CacheOK, HeldTokensLive, CacheOK',
         NEW id, NEW text,
         id = "END" <=> text = Eof,
         Deliver(id, text)
  PROVE  HeldTokensLive'
<1>0. /\ handed \in Seq(DOMAIN heap) /\ Len(handed) \in Nat
      /\ Len(heap) \in Nat /\ DOMAIN heap = 1..Len(heap)
      /\ \A i \in 1..Len(handed) : handed[i] \in 1..Len(heap)
  BY SMTT(30) DEF CacheOK
<1>1. CASE text \in DOMAIN tokens /\ id # "END"
  <2>1. UNCHANGED <<heap, tokens>> /\ handed' = Append(handed, tokens[text])
    BY <1>1 DEF Deliver
  <2>2. tokens[text] \in DOMAIN heap /\ heap[tokens[text]].text = text
    BY <1>1 DEF CacheOK
  <2>3. /\ DOMAIN handed' = 1..(Len(handed) + 1) /\ Len(handed') = Len(handed) + 1
        /\ handed'[Len(handed) + 1] = tokens[text]
        /\ \A i \in 1..Len(handed) : handed'[i] = handed[i]
    BY <1>0, <2>1, <2>2
  <2> SUFFICES ASSUME NEW i \in 1..(Len(handed) + 1)
               PROVE  \/ tokens[heap[handed'[i]].text] = handed'[i]
                      \/ /\ heap[handed'[i]].id = "END"
                         /\ \E j \in (i + 1)..Len(handed') : heap[handed'[j]].id = "END"
    BY <2>1, <2>3 DEF HeldTokensLive
  <2>4. CASE i = Len(handed) + 1
    BY <2>2, <2>3, <2>4
  <2>5. CASE i \in 1..Len(handed)
    <3>1. \/ tokens[heap[handed[i]].text] = handed[i]
          \/ /\ heap[handed[i]].id = "END"
             /\ \E j \in (i + 1)..Len(handed) : heap[handed[j]].id = "END"
      BY <1>0, <2>5 DEF HeldTokensLive
    <3>2. handed'[i] = handed[i]
      BY <2>3, <2>5
    <3>3. \A j \in (i + 1)..Len(handed) : j \in (i + 1)..Len(handed') /\ handed'[j] = handed[j]
      BY <1>0, <2>3, <2>5
    <3> QED
      BY <3>1, <3>2, <3>3
  <2> QED
    BY <1>0, <2>4, <2>5
<1>2. CASE ~(text \in DOMAIN tokens /\ id # "END")
  <2> DEFINE new == [id |-> id, text |-> text,
                     value |-> IF id = "I_CONSTANT" THEN Converted(text) ELSE 0]
  <2>1. /\ heap' = Append(heap, new)
        /\ tokens' = [t \in DOMAIN tokens \cup {text} |->
                        IF t = text THEN Len(heap) + 1 ELSE tokens[t]]
        /\ handed' = Append(handed, Len(heap) + 1)
    BY <1>2 DEF Deliver
  <2>2. new.id = id /\ new.text = text
    OBVIOUS
  <2> HIDE DEF new
  <2>3. /\ \A n \in 1..Len(heap) : heap'[n] = heap[n]
        /\ heap'[Len(heap) + 1] = new
    BY <1>0, <2>1 DEF CacheOK
  <2>4. /\ DOMAIN handed' = 1..(Len(handed) + 1) /\ Len(handed') = Len(handed) + 1
        /\ handed'[Len(handed) + 1] = Len(heap) + 1
        /\ \A i \in 1..Len(handed) : handed'[i] = handed[i]
    <3>1. handed \in Seq(1..(Len(heap) + 1))
      BY <1>0
    <3> QED
      BY <1>0, <2>1, <3>1
  <2> SUFFICES ASSUME NEW i \in 1..(Len(handed) + 1)
               PROVE  \/ tokens'[heap'[handed'[i]].text] = handed'[i]
                      \/ /\ heap'[handed'[i]].id = "END"
                         /\ \E j \in (i + 1)..Len(handed') : heap'[handed'[j]].id = "END"
    BY <2>4 DEF HeldTokensLive
  <2>5. CASE i = Len(handed) + 1
    BY <2>1, <2>2, <2>3, <2>4, <2>5
  <2>6. CASE i \in 1..Len(handed)
    <3> DEFINE token == heap[handed[i]]
    <3>1. handed'[i] = handed[i] /\ heap'[handed'[i]] = token
      BY <1>0, <2>3, <2>4, <2>6
    <3>2. token.text \in DOMAIN tokens /\ (token.id = "END" <=> token.text = Eof)
      BY <1>0, <2>6 DEF CacheOK
    <3>3. \/ tokens[token.text] = handed[i]
          \/ /\ token.id = "END"
             /\ \E j \in (i + 1)..Len(handed) : heap[handed[j]].id = "END"
      BY <1>0, <2>6 DEF HeldTokensLive
    <3>4. CASE token.text # text /\ tokens[token.text] = handed[i]
      BY <2>1, <3>1, <3>2, <3>4
    <3>5. CASE token.text = text
      <4>1. id = "END" /\ token.id = "END"
        BY <1>2, <3>2, <3>5
      <4>2. heap'[handed'[Len(handed) + 1]].id = "END"
        BY <2>2, <2>3, <2>4, <4>1
      <4>3. Len(handed) + 1 \in (i + 1)..Len(handed')
        BY <1>0, <2>4, <2>6
      <4> QED
        BY <3>1, <4>1, <4>2, <4>3
    <3>6. CASE /\ token.id = "END"
               /\ \E j \in (i + 1)..Len(handed) : heap[handed[j]].id = "END"
      <4>1. PICK j \in (i + 1)..Len(handed) : heap[handed[j]].id = "END"
        BY <3>6
      <4>2. j \in 1..Len(handed) /\ j \in (i + 1)..Len(handed')
        BY <1>0, <2>4, <2>6
      <4>3. heap'[handed'[j]].id = "END"
        BY <1>0, <2>3, <2>4, <4>1, <4>2
      <4> QED
        BY <3>1, <3>6, <4>2, <4>3
    <3> QED
      BY <3>3, <3>4, <3>5, <3>6
  <2> QED
    BY <1>0, <2>5, <2>6
<1> QED
  BY <1>1, <1>2

(* A token that the parser holds is never let go of, but END when the      *)
(* parser asks for the next END (scanner.cc:38-50 and 63-90).              *)
THEOREM HeldLive == Spec => []HeldTokensLive
<1>1. Init => HeldTokensLive
  BY DEF Init, HeldTokensLive
<1>2. HeldTokensLive /\ TypeOK /\ TypeOK' /\ [Next]_vars => HeldTokensLive'
  <2> SUFFICES ASSUME HeldTokensLive, CacheOK, InputOK, CacheOK', [Next]_vars
               PROVE  HeldTokensLive'
    BY DEF TypeOK
  <2>1. CASE UNCHANGED cache
    BY <2>1 DEF cache, HeldTokensLive
  <2>2. CASE Match /\ ~UNCHANGED cache
    <3> DEFINE text == SubSeq(buf, 1, Longest(buf))
               rule == Rule(text)
    <3>1. Deliver(rule, CString(text))
      BY <2>2 DEF Match
    <3>2. buf \in Seq(Chars) /\ buf # <<>> /\ Len(buf) \in Nat
      BY <2>2 DEF Match, InputOK
    <3>3. Longest(buf) \in 1..Len(buf)
      BY <3>2, LongestMatches
    <3>4. text \in Seq(Chars)
      BY <3>2, <3>3
    <3>5. rule # "END"
      BY RuleNames
    <3> HIDE DEF text, rule
    <3>6. rule = "END" <=> CString(text) = Eof
      BY <3>4, <3>5, CStringIs, EofIsNoText
    <3> QED
      BY <3>1, <3>6, DeliverKeepsTokens
  <2>3. CASE Wrap
    <3>1. Deliver("END", Eof)
      BY <2>3 DEF Wrap
    <3> QED
      BY <3>1, DeliverKeepsTokens
  <2> QED
    BY <2>1, <2>2, <2>3
       DEF Next, Step, Get, Fill, CommentChar, CommentNul, Stopped, vars, cache
<1> QED
  BY <1>1, <1>2, TypeCorrect, PTL DEF Spec
-----------------------------------------------------------------------------
(* The character before yyin, unless it was read before the comment, is    *)
(* no star when comment() is in its outer loop; at the end of the file it  *)
(* may be one, but then no character follows.                              *)
StarsSeen ==
  mode \in {"comment", "stars"} =>
    /\ opened \in 1..at
    /\ mode = "comment" => at = opened \/ at > Len(file) \/ file[at - 1] # "*"
    /\ mode = "stars" => at > opened /\ file[at - 1] = "*"

LEMMA StarsAreSeen == Spec => [](StarsSeen /\ CommentNotOverrun)
<1> DEFINE Inv == StarsSeen /\ CommentNotOverrun
<1>1. Init => Inv
  BY DEF Init, StarsSeen, CommentNotOverrun
<1>2. TypeOK /\ Inv /\ [Next]_vars => Inv'
  <2> SUFFICES ASSUME TypeOK, StarsSeen, CommentNotOverrun, [Next]_vars
               PROVE  Inv'
    OBVIOUS
  <2>0. file \in Seq(Chars) /\ Len(file) \in Nat /\ at \in 1..(Len(file) + 1)
    BY ScannerAssumption DEF TypeOK, InputOK
  <2>1. CASE mode' \notin {"comment", "stars"}
    BY <2>1 DEF StarsSeen, CommentNotOverrun
  <2>2. CASE UNCHANGED <<file, at, mode, opened>>
    BY <2>2 DEF StarsSeen, CommentNotOverrun
  <2>3. CASE mode' = "comment" /\ opened' = at /\ UNCHANGED <<file, at>>
    BY <2>0, <2>3 DEF StarsSeen, CommentNotOverrun
  <2>4. CASE CommentChar /\ mode' \in {"comment", "stars"}
    <3>1. /\ mode \in {"comment", "stars"} /\ Fgetc # "nul" /\ at' = Next1
          /\ UNCHANGED <<file, opened>>
      BY <2>4 DEF CommentChar
    <3>2. opened \in 1..at
      BY <3>1 DEF StarsSeen
    <3>3. Fgetc = "*" => mode' = "stars"
      BY <2>4 DEF CommentChar
    <3>a. Fgetc # "*" => mode' = "comment"
      BY <2>4 DEF CommentChar
    <3>4. ~(mode = "stars" /\ Fgetc = "/")
      BY <2>4 DEF CommentChar
    <3>5. CASE at > Len(file)
      BY <2>0, <2>4, <3>1, <3>2, <3>3, <3>a, <3>5
         DEF Next1, Fgetc, StarsSeen, CommentNotOverrun
    <3>6. CASE at <= Len(file)
      <4>1. Fgetc = file[at] /\ at' = at + 1
        BY <3>1, <3>6 DEF Fgetc, Next1
      <4>2. StarsSeen'
        BY <2>0, <2>4, <3>1, <3>2, <3>3, <3>a, <4>1 DEF StarsSeen
      <4>3. file[at] # "nul" /\ ~(at > opened /\ file[at - 1] = "*" /\ file[at] = "/")
        BY <2>0, <3>1, <3>2, <3>4, <3>6, <4>1 DEF StarsSeen
      <4>4. \A n \in opened..(at - 1) :
              file[n] # "nul" /\ ~(n > opened /\ file[n - 1] = "*" /\ file[n] = "/")
        BY <3>1 DEF CommentNotOverrun
      <4>5. opened..(at' - 1) = opened..(at - 1) \cup {at}
        BY <2>0, <3>2, <4>1
      <4>6. CommentNotOverrun'
        BY <3>1, <4>3, <4>4, <4>5 DEF CommentNotOverrun
      <4> QED
        BY <4>2, <4>6
    <3> QED
      BY <2>0, <3>5, <3>6
  <2>5. CASE Match
    <3> DEFINE text == SubSeq(buf, 1, Longest(buf))
               rule == Rule(text)
    <3>1. /\ UNCHANGED <<file, at>>
          /\ \/ UNCHANGED <<mode, opened>>
             \/ mode' = "comment" /\ opened' = at
             \/ mode' = "abort"
             \/ Deliver(rule, CString(text))
      BY <2>5 DEF Match
    <3>2. Deliver(rule, CString(text)) => mode' = "idle"
      BY DEF Deliver
    <3> HIDE DEF text, rule
    <3> QED
      BY <2>1, <2>2, <2>3, <3>1, <3>2
  <2>6. CASE Get \/ Wrap \/ CommentNul \/ Fill
    <3>1. mode' \notin {"comment", "stars"}
      BY <2>6 DEF Get, Wrap, CommentNul, Fill, Deliver
    <3> QED
      BY <2>1, <3>1
  <2>7. CASE Stopped \/ UNCHANGED vars
    BY <2>2, <2>7 DEF Stopped, vars
  <2> QED
    BY <2>1, <2>4, <2>5, <2>6, <2>7 DEF Next, Step, CommentChar
<1> QED
  BY <1>1, <1>2, TypeCorrect, PTL DEF Spec

(* comment() (expr.lxx:98-118) never reads past the first end of a comment *)
(* behind the place where it began to read.                                *)
THEOREM NotOverrun == Spec => []CommentNotOverrun
  BY StarsAreSeen, PTL
-----------------------------------------------------------------------------
LEMMA LongestIs ==
  ASSUME NEW s \in Seq(Chars), s # <<>>,
         NEW k \in 1..Len(s),
         Rule(SubSeq(s, 1, k)) # "none",
         \A j \in (k + 1)..Len(s) : Rule(SubSeq(s, 1, j)) = "none"
  PROVE  Longest(s) = k
<1> DEFINE P(m) == /\ Rule(SubSeq(s, 1, m)) # "none"
                   /\ \A j \in (m + 1)..Len(s) : Rule(SubSeq(s, 1, j)) = "none"
<1>1. k \in DOMAIN s /\ P(k) /\ DOMAIN s = 1..Len(s) /\ Len(s) \in Nat
  OBVIOUS
<1>2. \A m \in DOMAIN s : P(m) => m = k
  <2> SUFFICES ASSUME NEW m \in DOMAIN s, P(m), m # k PROVE FALSE
    OBVIOUS
  <2>1. m < k \/ k < m
    BY <1>1
  <2>2. CASE m < k
    <3>1. k \in (m + 1)..Len(s)
      BY <1>1, <2>2
    <3> QED
      BY <3>1
  <2>3. CASE k < m
    <3>1. m \in (k + 1)..Len(s)
      BY <1>1, <2>3
    <3> QED
      BY <3>1
  <2> QED
    BY <2>1, <2>2, <2>3
<1>3. Longest(s) = CHOOSE m \in DOMAIN s : P(m)
  BY DEF Longest
<1> HIDE DEF P
<1> QED
  BY <1>1, <1>2, <1>3

(* Where flex stops to read does not matter: what it matches in the buffer *)
(* is what it would match with all of the file in it.                      *)
LEMMA BufferIsEnough ==
  ASSUME NEW s \in Seq(Chars), NEW n \in 1..Len(s),
         n = Len(s) \/ ~Open(SubSeq(s, 1, n))
  PROVE  /\ Longest(SubSeq(s, 1, n)) = Longest(s)
         /\ Longest(s) \in 1..n
         /\ SubSeq(SubSeq(s, 1, n), 1, Longest(s)) = SubSeq(s, 1, Longest(s))
<1> DEFINE b == SubSeq(s, 1, n)
           k == Longest(b)
<1>1. /\ b \in Seq(Chars) /\ Len(b) = n /\ b # <<>>
      /\ \A i \in 1..n : SubSeq(b, 1, i) = SubSeq(s, 1, i)
  BY PrefixAt
<1>2. s # <<>> /\ Len(s) \in Nat
  OBVIOUS
<1> HIDE DEF b
<1>3. /\ k \in 1..n /\ Rule(SubSeq(b, 1, k)) # "none"
      /\ \A j \in (k + 1)..n : Rule(SubSeq(b, 1, j)) = "none"
  BY <1>1, LongestMatches
<1> HIDE DEF k
<1>4. \A j \in (k + 1)..Len(s) : Rule(SubSeq(s, 1, j)) = "none"
  <2> SUFFICES ASSUME NEW j \in (k + 1)..Len(s), Rule(SubSeq(s, 1, j)) # "none" PROVE FALSE
    OBVIOUS
  <2>1. CASE j <= n
    <3>1. j \in (k + 1)..n /\ j \in 1..n
      BY <1>3, <2>1
    <3> QED
      BY <1>1, <1>3, <3>1
  <2>2. CASE j > n
    <3>1. ~Open(b) /\ j \in 1..Len(s) /\ n \in 1..(j - 1)
      BY <1>3, <2>2 DEF b
    <3> DEFINE t == SubSeq(s, 1, j)
    <3>2. /\ t \in Seq(Chars) /\ Len(t) = j
          /\ \A i \in 1..j : SubSeq(t, 1, i) = SubSeq(s, 1, i)
      BY <3>1, PrefixAt
    <3>3. Rule(t) # "none"
      OBVIOUS
    <3> HIDE DEF t
    <3>4. Open(SubSeq(t, 1, n))
      BY <3>1, <3>2, <3>3, BeginningsAreOpen
    <3>5. SubSeq(t, 1, n) = b
      BY <3>1, <3>2 DEF b
    <3> QED
      BY <3>1, <3>4, <3>5
  <2> QED
    BY <1>3, <2>1, <2>2
<1>5. k \in 1..Len(s) /\ Rule(SubSeq(s, 1, k)) # "none"
  <2>1. k \in 1..Len(s)
    BY <1>2, <1>3
  <2> QED
    BY <1>1, <1>3, <2>1
<1>6. Longest(s) = k
  BY <1>2, <1>4, <1>5, LongestIs
<1> QED
  BY <1>1, <1>3, <1>6 DEF b, k
-----------------------------------------------------------------------------
Lexemes == [id   : {"comment", "skip", "NAME", "I_CONSTANT", "F_CONSTANT", "STRING_LITERAL",
                    "MULT", "DIVIDE", "none", "END"},
            text : Seq(Chars) \cup {Eof}]

End == [id |-> "END", text |-> Eof]

(* What is written from a position on depends on what is written from the  *)
(* positions behind it.                                                    *)
Agree(f, g, lo, hi) == \A i \in lo..hi : f[i] = g[i]

LEMMA FirstEnd ==
  ASSUME NEW S \in SUBSET Nat, S # {}
  PROVE  /\ (CHOOSE j \in S : \A k \in S : j <= k) \in S
         /\ \A k \in S : (CHOOSE j \in S : \A n \in S : j <= n) <= k
<1>1. PICK m \in S : \A k \in S : m <= k
  BY LeastOf
<1> QED
  BY <1>1

LEMMA BehindIsLocal ==
  ASSUME NEW text \in Seq(Chars), NEW i \in Nat, i >= 1, NEW f, NEW g,
         Agree(f, g, i + 1, Len(text) + 1),
         \A j \in (i + 1)..(Len(text) + 1) : f[j] \in Seq(Lexemes)
  PROVE  /\ BehindComment(text, f, i) = BehindComment(text, g, i)
         /\ BehindComment(text, f, i) \in Seq(Lexemes)
<1> DEFINE ends == {j \in (i + 1)..Len(text) : text[j - 1] = "*" /\ text[j] = "/"}
           m == CHOOSE j \in ends : \A k \in ends : j <= k
<1>1. CASE ends = {}
  BY <1>1 DEF BehindComment
<1>2. CASE ends # {}
  <2>1. m \in ends
    <3>1. ends \in SUBSET Nat
      OBVIOUS
    <3> HIDE DEF ends
    <3> QED
      BY <1>2, <3>1, FirstEnd
  <2>2. 1 + m \in (i + 1)..(Len(text) + 1)
    <3>1. m \in (i + 1)..Len(text) /\ Len(text) \in Nat
      BY <2>1
    <3> HIDE DEF m
    <3> QED
      BY <3>1
  <2>3. BehindComment(text, f, i) = f[1 + m] /\ BehindComment(text, g, i) = g[1 + m]
    BY <1>2 DEF BehindComment
  <2> HIDE DEF m, ends
  <2> QED
    BY <2>2, <2>3 DEF Agree
<1> QED
  BY <1>1, <1>2

(* A match takes at least one character, and of a comment two.             *)
LEMMA MatchAt ==
  ASSUME NEW text \in Seq(Chars), NEW i \in 1..Len(text)
  PROVE  LET rest  == SubSeq(text, i, Len(text))
             match == SubSeq(rest, 1, Longest(rest))
         IN /\ rest \in Seq(Chars) /\ Len(rest) = Len(text) - i + 1
            /\ \A j \in 1..Len(rest) : rest[j] = text[i + j - 1]
            /\ Longest(rest) \in 1..Len(rest)
            /\ match \in Seq(Chars) /\ Len(match) = Longest(rest)
            /\ \A j \in 1..Len(match) : match[j] = text[i + j - 1]
            /\ i + Len(match) \in (i + 1)..(Len(text) + 1)
            /\ Rule(match) # "none"
            /\ Rule(match) = "comment" =>
                 /\ Len(match) = 2 /\ i + 1 <= Len(text)
                 /\ match = <<"/", "*">>
<1> DEFINE rest == SubSeq(text, i, Len(text))
           k == Longest(rest)
           match == SubSeq(rest, 1, k)
<1>1. /\ rest \in Seq(Chars) /\ Len(rest) = Len(text) - i + 1 /\ Len(text) \in Nat
      /\ \A j \in 1..Len(rest) : rest[j] = text[i + j - 1]
  OBVIOUS
<1>2. rest # <<>>
  <2>1. Len(<<>>) = 0
    OBVIOUS
  <2> HIDE DEF rest
  <2> QED
    BY <1>1, <2>1
<1> HIDE DEF rest
<1>3. k \in 1..Len(rest) /\ Rule(match) # "none"
  BY <1>1, <1>2, LongestMatches
<1> HIDE DEF k
<1>4. match \in Seq(Chars) /\ Len(match) = k /\ \A j \in 1..k : match[j] = rest[j]
  BY <1>1, <1>3
<1> HIDE DEF match
<1>5. i + Len(match) \in (i + 1)..(Len(text) + 1)
  BY <1>1, <1>3, <1>4
<1>6. \A j \in 1..Len(match) : match[j] = text[i + j - 1]
  <2>1. \A j \in 1..Len(match) : j \in 1..Len(rest)
    BY <1>1, <1>3, <1>4
  <2> QED
    BY <1>1, <1>4, <2>1
<1>7. ASSUME Rule(match) = "comment"
      PROVE  Len(match) = 2 /\ i + 1 <= Len(text) /\ match = <<"/", "*">>
  <2>1. match = <<"/", "*">>
    BY <1>7 DEF Rule
  <2>2. Len(match) = 2
    BY <2>1
  <2> QED
    BY <1>5, <2>1, <2>2
<1> QED
  BY <1>1, <1>3, <1>4, <1>5, <1>6, <1>7 DEF match, k, rest

LEMMA LexemesAre ==
  ASSUME NEW s \in Seq(Chars), NEW t \in Seq(Chars)
  PROVE  /\ <<[id |-> Rule(s), text |-> t]>> \in Seq(Lexemes)
         /\ <<>> \in Seq(Lexemes)
         /\ [n \in 1..MaxEnds |-> End] \in Seq(Lexemes)
<1>1. [id |-> Rule(s), text |-> t] \in Lexemes
  BY RuleNames DEF Lexemes
<1>2. End \in Lexemes
  BY DEF Lexemes, End
<1>3. MaxEnds \in Nat
  BY ScannerAssumption
<1> QED
  BY <1>1, <1>2, <1>3

LEMMA FollowingIsLocal ==
  ASSUME NEW text \in Seq(Chars), NEW i \in 1..(Len(text) + 1), NEW f, NEW g,
         Agree(f, g, i + 1, Len(text) + 1),
         \A j \in (i + 1)..(Len(text) + 1) : f[j] \in Seq(Lexemes)
  PROVE  /\ Following(text, f, i) = Following(text, g, i)
         /\ Following(text, f, i) \in Seq(Lexemes)
<1>0. Len(text) \in Nat
  OBVIOUS
<1>e. <<>> \in Seq(Chars)
  OBVIOUS
<1>1. CASE i > Len(text)
  <2>1. /\ Following(text, f, i) = [n \in 1..MaxEnds |-> End]
        /\ Following(text, g, i) = [n \in 1..MaxEnds |-> End]
    BY <1>0, <1>1 DEF Following, End
  <2> QED
    BY <2>1, LexemesAre, <1>e
<1>2. CASE i <= Len(text)
  <2> DEFINE rest  == SubSeq(text, i, Len(text))
             match == SubSeq(rest, 1, Longest(rest))
             one   == <<[id |-> Rule(match), text |-> CString(match)]>>
             F(h)  == CASE Rule(match) = "skip" -> h[i + Len(match)]
                        [] Rule(match) = "comment" -> BehindComment(text, h, i + 2)
                        [] Rule(match) = "STRING_LITERAL" -> <<>>
                        [] OTHER -> one \o h[i + Len(match)]
  <2>1. i \in 1..Len(text) /\ ~(i > Len(text))
    BY <1>0, <1>2
  <2>2. /\ match \in Seq(Chars)
        /\ i + Len(match) \in (i + 1)..(Len(text) + 1)
        /\ Rule(match) = "comment" => i + 1 <= Len(text)
    BY <2>1, MatchAt
  <2>3. ASSUME NEW h PROVE Following(text, h, i) = F(h)
    BY <1>2, <2>1 DEF Following
  <2> HIDE DEF match
  <2>4. one \in Seq(Lexemes) /\ <<>> \in Seq(Lexemes)
    BY <2>2, CStringIs, LexemesAre
  <2> HIDE DEF one
  <2>5. /\ f[i + Len(match)] = g[i + Len(match)]
        /\ f[i + Len(match)] \in Seq(Lexemes)
    BY <2>2 DEF Agree
  <2>6. ASSUME Rule(match) = "comment"
        PROVE  /\ BehindComment(text, f, i + 2) = BehindComment(text, g, i + 2)
               /\ BehindComment(text, f, i + 2) \in Seq(Lexemes)
    <3>1. Agree(f, g, (i + 2) + 1, Len(text) + 1)
      BY <1>0 DEF Agree
    <3>2. \A j \in ((i + 2) + 1)..(Len(text) + 1) : f[j] \in Seq(Lexemes)
      BY <1>0
    <3>3. i + 2 \in Nat /\ i + 2 >= 1
      OBVIOUS
    <3> QED
      BY <3>1, <3>2, <3>3, BehindIsLocal
  <2>7. one \o f[i + Len(match)] \in Seq(Lexemes)
    BY <2>4, <2>5
  <2>8. F(f) = F(g) /\ F(f) \in Seq(Lexemes)
    BY <2>4, <2>5, <2>6, <2>7
  <2>9. Following(text, f, i) = F(f) /\ Following(text, g, i) = F(g)
    BY <2>3
  <2> QED
    BY <2>8, <2>9
<1> QED
  BY <1>0, <1>1, <1>2

(* What WrittenFrom is, from position lo on.                               *)
WrittenDownTo(text, lo) ==
  {f \in [lo..(Len(text) + 1) -> Seq(Lexemes)] :
     \A i \in lo..(Len(text) + 1) : f[i] = Following(text, f, i)}

LEMMA WrittenDownToThere ==
  ASSUME NEW text \in Seq(Chars)
  PROVE  WrittenDownTo(text, 1) # {}
<1> DEFINE L == Len(text) + 1
           S == {m \in Nat : m > Len(text) \/ WrittenDownTo(text, L - m) # {}}
<1>0. Len(text) \in Nat /\ L \in Nat /\ L >= 1
  OBVIOUS
<1>1. 0 \in S
  <2> DEFINE f == [i \in (L - 0)..L |-> [n \in 1..MaxEnds |-> End]]
  <2>1. f \in [(L - 0)..L -> Seq(Lexemes)]
    <3>1. <<>> \in Seq(Chars)
      OBVIOUS
    <3>2. [n \in 1..MaxEnds |-> End] \in Seq(Lexemes)
      BY <3>1, LexemesAre
    <3> QED
      BY <3>2
  <2>2. \A i \in (L - 0)..L : i > Len(text) /\ f[i] = [n \in 1..MaxEnds |-> End]
    BY <1>0
  <2> HIDE DEF f
  <2>3. \A i \in (L - 0)..L : f[i] = Following(text, f, i)
    <3> TAKE i \in (L - 0)..L
    <3>0. i > Len(text) /\ f[i] = [n \in 1..MaxEnds |-> End]
      BY <2>2
    <3>1. f[i] = [n \in 1..MaxEnds |-> End] /\ ~(i <= Len(text))
      BY <1>0, <3>0
    <3>2. Following(text, f, i) = [n \in 1..MaxEnds |-> End]
      BY <3>0, <3>1 DEF Following, End
    <3> QED
      BY <3>1, <3>2
  <2>4. f \in WrittenDownTo(text, L - 0)
    BY <2>1, <2>3 DEF WrittenDownTo
  <2> QED
    BY <2>4
<1>2. ASSUME NEW m \in S PROVE m + 1 \in S
  <2>1. m \in Nat
    OBVIOUS
  <2>2. CASE m + 1 > Len(text)
    BY <2>1, <2>2
  <2>3. CASE m + 1 <= Len(text)
    <3> DEFINE lo == L - m
    <3>1. lo \in Nat /\ lo >= 2 /\ lo <= L /\ L - (m + 1) = lo - 1 /\ ~(m > Len(text))
      BY <1>0, <2>1, <2>3
    <3>2. WrittenDownTo(text, lo) # {}
      BY <3>1
    <3> HIDE DEF lo
    <3>3. PICK f \in WrittenDownTo(text, lo) : TRUE
      BY <3>2
    <3>4. /\ f \in [lo..L -> Seq(Lexemes)]
          /\ \A i \in lo..L : f[i] = Following(text, f, i)
      BY <3>3 DEF WrittenDownTo
    <3> DEFINE g == [i \in (lo - 1)..L |-> IF i = lo - 1 THEN Following(text, f, lo - 1) ELSE f[i]]
    <3>5. \A i \in lo..L : i \in (lo - 1)..L /\ i # lo - 1
      BY <1>0, <3>1
    <3>6. lo - 1 \in (lo - 1)..L /\ lo - 1 \in 1..L
      BY <1>0, <3>1
    <3>7. g[lo - 1] = Following(text, f, lo - 1) /\ \A i \in lo..L : g[i] = f[i]
      BY <3>5, <3>6
    <3>8. DOMAIN g = (lo - 1)..L /\ g = [i \in (lo - 1)..L |-> g[i]]
      OBVIOUS
    <3> HIDE DEF g
    <3>9. \A i \in (lo - 1)..L : Agree(f, g, i + 1, L)
      <4> TAKE i \in (lo - 1)..L
      <4>1. \A j \in (i + 1)..L : j \in lo..L
        BY <1>0, <3>1
      <4> QED
        BY <3>7, <4>1 DEF Agree
    <3>10. \A i \in (lo - 1)..L :
             /\ Following(text, f, i) = Following(text, g, i)
             /\ Following(text, f, i) \in Seq(Lexemes)
      <4> TAKE i \in (lo - 1)..L
      <4>1. i \in 1..L
        BY <1>0, <3>1
      <4>2. \A j \in (i + 1)..L : f[j] \in Seq(Lexemes)
        <5>1. \A j \in (i + 1)..L : j \in lo..L
          BY <1>0, <3>1
        <5> QED
          BY <3>4, <5>1
      <4>3. Agree(f, g, i + 1, L)
        BY <3>9
      <4> QED
        BY <4>1, <4>2, <4>3, FollowingIsLocal
    <3>11. \A i \in (lo - 1)..L : i = lo - 1 \/ i \in lo..L
      BY <1>0, <3>1
    <3>12. \A i \in (lo - 1)..L : g[i] = Following(text, g, i) /\ g[i] \in Seq(Lexemes)
      <4> TAKE i \in (lo - 1)..L
      <4>1. g[i] = Following(text, f, i)
        BY <3>4, <3>7, <3>11
      <4> QED
        BY <3>10, <4>1
    <3>13. g \in [(lo - 1)..L -> Seq(Lexemes)]
      BY <3>8, <3>12
    <3>14. g \in WrittenDownTo(text, lo - 1)
      BY <3>12, <3>13 DEF WrittenDownTo
    <3>15. g \in WrittenDownTo(text, L - (m + 1))
      BY <3>1, <3>14
    <3> QED
      BY <2>1, <3>15
  <2> QED
    BY <1>0, <2>1, <2>2, <2>3
<1>3. Len(text) \in S
  <2>1. S \in SUBSET Nat
    OBVIOUS
  <2> HIDE DEF S
  <2>2. Nat \subseteq S
    BY <1>1, <1>2, <2>1, Induction
  <2> QED
    BY <1>0, <2>2
<1>4. ~(Len(text) > Len(text)) /\ L - Len(text) = 1
  BY <1>0
<1> QED
  BY <1>3, <1>4

LEMMA WrittenFollows ==
  ASSUME NEW text \in Seq(Chars)
  PROVE  \A i \in 1..(Len(text) + 1) :
           /\ WrittenFrom(text)[i] = Following(text, WrittenFrom(text), i)
           /\ WrittenFrom(text)[i] \in Seq(Lexemes)
<1> DEFINE L == Len(text) + 1
           W == WrittenFrom(text)
<1>0. Len(text) \in Nat /\ L \in Nat /\ L >= 1
  OBVIOUS
<1>1. PICK f \in WrittenDownTo(text, 1) : TRUE
  BY WrittenDownToThere
<1>2. f \in [1..L -> Seq(Lexemes)] /\ \A i \in 1..L : f[i] = Following(text, f, i)
  BY <1>1 DEF WrittenDownTo
<1>3. f = [i \in 1..L |-> Following(text, f, i)]
  <2>1. f = [i \in 1..L |-> f[i]]
    BY <1>2
  <2> QED
    BY <1>2, <2>1
<1>4. W = [i \in 1..L |-> Following(text, W, i)]
  BY <1>3 DEF WrittenFrom
<1> HIDE DEF W
<1>5. \A i \in 1..L : W[i] = Following(text, W, i)
  BY <1>4
<1>6. \A i \in 1..L : W[i] \in Seq(Lexemes)
  <2> DEFINE S == {k \in 0..Len(text) : W[L - k] \notin Seq(Lexemes)}
  <2>1. S # {} => FALSE
    <3> SUFFICES ASSUME S # {} PROVE FALSE
      OBVIOUS
    <3>1. S \in SUBSET Nat
      OBVIOUS
    <3> HIDE DEF S
    <3>2. PICK k \in S : \A n \in S : k <= n
      BY <3>1, LeastOf
    <3>3. k \in 0..Len(text) /\ W[L - k] \notin Seq(Lexemes)
      BY <3>2 DEF S
    <3>4. \A j \in ((L - k) + 1)..L : W[j] \in Seq(Lexemes)
      <4> SUFFICES ASSUME NEW j \in ((L - k) + 1)..L, W[j] \notin Seq(Lexemes) PROVE FALSE
        OBVIOUS
      <4>1. L - j \in 0..Len(text) /\ L - j < k /\ L - (L - j) = j
        BY <1>0, <3>3
      <4>2. L - j \in S
        BY <4>1 DEF S
      <4> QED
        BY <3>2, <3>3, <4>1, <4>2
    <3>5. L - k \in 1..L
      BY <1>0, <3>3
    <3>6. Agree(W, W, (L - k) + 1, L)
      BY DEF Agree
    <3>7. Following(text, W, L - k) \in Seq(Lexemes)
      BY <3>4, <3>5, <3>6, FollowingIsLocal
    <3> QED
      BY <1>5, <3>3, <3>5, <3>7
  <2>2. S = {}
    BY <2>1
  <2> SUFFICES ASSUME NEW i \in 1..L, W[i] \notin Seq(Lexemes) PROVE FALSE
    OBVIOUS
  <2>3. L - i \in 0..Len(text) /\ L - (L - i) = i
    BY <1>0
  <2>4. L - i \in S
    BY <2>3
  <2> QED
    BY <2>2, <2>4
<1> QED
  BY <1>5, <1>6 DEF W

(* The cases of Following, one by one.                                     *)
LEMMA WrittenAt ==
  ASSUME NEW text \in Seq(Chars), NEW i \in 1..Len(text)
  PROVE  LET W     == WrittenFrom(text)
             rest  == SubSeq(text, i, Len(text))
             match == SubSeq(rest, 1, Longest(rest))
         IN /\ Rule(match) = "skip" => W[i] = W[i + Len(match)]
            /\ Rule(match) = "comment" => W[i] = BehindComment(text, W, i + 2)
            /\ Rule(match) \notin {"skip", "comment", "STRING_LITERAL"} =>
                 W[i] = <<[id |-> Rule(match), text |-> CString(match)]>> \o W[i + Len(match)]
<1> DEFINE W     == WrittenFrom(text)
           rest  == SubSeq(text, i, Len(text))
           match == SubSeq(rest, 1, Longest(rest))
<1>1. W[i] = Following(text, W, i) /\ ~(i > Len(text)) /\ i <= Len(text)
  BY WrittenFollows
<1>2. W[i] = CASE Rule(match) = "skip" -> W[i + Len(match)]
               [] Rule(match) = "comment" -> BehindComment(text, W, i + 2)
               [] Rule(match) = "STRING_LITERAL" -> <<>>
               [] OTHER -> <<[id |-> Rule(match), text |-> CString(match)]>> \o W[i + Len(match)]
  BY <1>1 DEF Following
<1> HIDE DEF match, W
<1>3. /\ Rule(match) = "skip" => W[i] = W[i + Len(match)]
      /\ Rule(match) = "comment" => W[i] = BehindComment(text, W, i + 2)
      /\ Rule(match) \notin {"skip", "comment", "STRING_LITERAL"} =>
           W[i] = <<[id |-> Rule(match), text |-> CString(match)]>> \o W[i + Len(match)]
  BY <1>2
<1> QED
  BY <1>3 DEF match, W

LEMMA WrittenAtEnd ==
  ASSUME NEW text \in Seq(Chars)
  PROVE  WrittenFrom(text)[Len(text) + 1] = [n \in 1..MaxEnds |-> End]
<1>1. Len(text) + 1 \in 1..(Len(text) + 1) /\ Len(text) + 1 > Len(text)
  OBVIOUS
<1>2. WrittenFrom(text)[Len(text) + 1] = Following(text, WrittenFrom(text), Len(text) + 1)
  BY <1>1, WrittenFollows
<1> QED
  BY <1>1, <1>2 DEF Following, End
-----------------------------------------------------------------------------
(* How many ENDs were made.                                                *)
Ends == Cardinality({i \in DOMAIN heap : heap[i].id = "END"})

(* As long as no comment began in its middle, flex's buffer is the text in *)
(* front of yyin.                                                          *)
Buffered ==
  /\ opened = 0 => clean /\ mode \notin {"comment", "stars"}
  /\ clean => /\ Len(buf) < at
              /\ \A i \in 1..Len(buf) : buf[i] = file[at - 1 - Len(buf) + i]
              /\ mode \in {"comment", "stars"} => buf = <<>>

(* A token is what its text says; what was cut off of a character constant *)
(* does not change that.                                                   *)
Kind(t) == IF t[1] = "apos" THEN "I_CONSTANT" ELSE Rule(t)

Made ==
  \A i \in DOMAIN heap : heap[i].id # "END" =>
    /\ heap[i].text \in Seq(Chars) /\ heap[i].text # <<>>
    /\ heap[i].id = Kind(heap[i].text)
    /\ heap[i].id = "I_CONSTANT" => heap[i].value = Converted(heap[i].text)

(* END is made when all of the file was read, and as often as asked for.   *)
Ending ==
  /\ Ends <= MaxEnds
  /\ mode \in {"match", "comment", "stars"} => Ends < MaxEnds
  /\ Ends # 0 => mode \in {"idle", "match"} /\ buf = <<>> /\ at > Len(file)

Lexeme(n) == [id |-> heap[n].id, text |-> heap[n].text]
Given == [i \in DOMAIN handed |-> Lexeme(handed[i])]

W == WrittenFrom(file)

(* What is still to be handed out: what is written from the first position *)
(* that was not matched, or behind the comment.                            *)
Remaining ==
  IF mode \in {"comment", "stars"} THEN BehindComment(file, W, opened)
  ELSE IF at - Len(buf) > Len(file) THEN [n \in 1..(MaxEnds - Ends) |-> End]
  ELSE W[at - Len(buf)]

Reading == clean /\ mode # "abort" => Written(file) = Given \o Remaining

LEMMA EndsCounted ==
  ASSUME heap \in Seq(Tokens)
  PROVE  /\ Ends \in Nat
         /\ heap = <<>> => Ends = 0
<1>1. DOMAIN heap = 1..Len(heap) /\ Len(heap) \in Nat
  OBVIOUS
<1> DEFINE S == {i \in DOMAIN heap : heap[i].id = "END"}
<1>2. IsFiniteSet(S)
  <2>1. IsFiniteSet(1..Len(heap))
    BY <1>1, FS_Interval
  <2> QED
    BY <1>1, <2>1, FS_Subset
<1>3. heap = <<>> => S = {}
  OBVIOUS
<1> HIDE DEF S
<1>4. Cardinality(S) \in Nat /\ (heap = <<>> => Cardinality(S) = 0)
  BY <1>2, <1>3, FS_CardinalityType, FS_EmptySet
<1> QED
  BY <1>4 DEF Ends, S

LEMMA GivenIs ==
  ASSUME CacheOK, Made
  PROVE  /\ Given \in Seq(Lexemes) /\ Len(Given) = Len(handed) /\ Len(handed) \in Nat
         /\ \A i \in 1..Len(handed) : Given[i] = Lexeme(handed[i])
<1>1. /\ DOMAIN handed = 1..Len(handed) /\ Len(handed) \in Nat
      /\ DOMAIN heap = 1..Len(heap) /\ Len(heap) \in Nat
      /\ \A i \in 1..Len(handed) : handed[i] \in DOMAIN heap
  BY DEF CacheOK
<1>2. \A n \in DOMAIN heap : Lexeme(n) \in Lexemes
  <2> TAKE n \in DOMAIN heap
  <2>1. CASE heap[n].id = "END"
    BY <2>1 DEF Lexeme, Lexemes, CacheOK
  <2>2. CASE heap[n].id # "END"
    <3>1. heap[n].text \in Seq(Chars) /\ heap[n].id = Kind(heap[n].text)
      BY <2>2 DEF Made
    <3> QED
      BY <3>1, RuleNames DEF Lexeme, Lexemes, Kind
  <2> QED
    BY <2>1, <2>2
<1>3. Given = [i \in 1..Len(handed) |-> Lexeme(handed[i])]
  BY <1>1 DEF Given
<1>4. \A i \in 1..Len(handed) : Lexeme(handed[i]) \in Lexemes
  BY <1>1, <1>2
<1> QED
  BY <1>1, <1>3, <1>4

(* Handing out the token of a text adds it to what was given, and makes no *)
(* token that is not what it says.                                         *)
LEMMA DeliverGives ==
  ASSUME CacheOK, CacheOK', Made,
         NEW id, NEW text,
         id = "END" <=> text = Eof,
         id # "END" => text \in Seq(Chars) /\ text # <<>> /\ id = Kind(text),
         Deliver(id, text)
  PROVE  /\ Made'
         /\ Ends \in Nat
         /\ Ends' = IF id = "END" THEN Ends + 1 ELSE Ends
         /\ Given' = Append(Given, [id |-> id, text |-> text])
<1>0. /\ handed \in Seq(DOMAIN heap) /\ Len(handed) \in Nat /\ DOMAIN handed = 1..Len(handed)
      /\ heap \in Seq(Tokens)
      /\ Len(heap) \in Nat /\ DOMAIN heap = 1..Len(heap)
      /\ \A i \in 1..Len(handed) : handed[i] \in 1..Len(heap)
  BY SMTT(30) DEF CacheOK
<1>1. Ends \in Nat
  BY <1>0, EndsCounted
<1>2. CASE text \in DOMAIN tokens /\ id # "END"
  <2>1. UNCHANGED <<heap, tokens>> /\ handed' = Append(handed, tokens[text])
    BY <1>2 DEF Deliver
  <2>2. tokens[text] \in DOMAIN heap /\ heap[tokens[text]].text = text
    BY <1>2 DEF CacheOK
  <2>3. heap[tokens[text]].id = id
    <3>1. heap[tokens[text]].id # "END"
      BY <1>2, <2>2 DEF CacheOK
    <3> QED
      BY <1>2, <2>2, <3>1 DEF Made
  <2>4. Made' /\ Ends' = Ends
    BY <2>1 DEF Made, Ends
  <2>5. /\ DOMAIN handed' = 1..(Len(handed) + 1)
        /\ handed'[Len(handed) + 1] = tokens[text]
        /\ \A i \in 1..Len(handed) : handed'[i] = handed[i]
    BY <1>0, <2>1, <2>2
  <2>6. Given' = [i \in 1..(Len(handed) + 1) |-> Lexeme(handed'[i])]
    BY <2>1, <2>5 DEF Given, Lexeme
  <2>7. Lexeme(tokens[text]) = [id |-> id, text |-> text]
    BY <2>2, <2>3 DEF Lexeme
  <2>8. /\ Given \in Seq(Lexemes) /\ Len(Given) = Len(handed)
        /\ \A i \in 1..Len(handed) : Given[i] = Lexeme(handed[i])
    BY GivenIs
  <2>9. Append(Given, [id |-> id, text |-> text]) =
          [i \in 1..(Len(handed) + 1) |->
             IF i = Len(handed) + 1 THEN [id |-> id, text |-> text] ELSE Given[i]]
    BY <1>0, <2>8
  <2>10. \A i \in 1..(Len(handed) + 1) :
           Lexeme(handed'[i]) =
             IF i = Len(handed) + 1 THEN [id |-> id, text |-> text] ELSE Given[i]
    <3> TAKE i \in 1..(Len(handed) + 1)
    <3>1. i = Len(handed) + 1 \/ (i \in 1..Len(handed) /\ i # Len(handed) + 1)
      BY <1>0
    <3> QED
      BY <2>5, <2>7, <2>8, <3>1
  <2> QED
    BY <1>1, <1>2, <2>4, <2>6, <2>9, <2>10
<1>3. CASE ~(text \in DOMAIN tokens /\ id # "END")
  <2> DEFINE new == [id |-> id, text |-> text,
                     value |-> IF id = "I_CONSTANT" THEN Converted(text) ELSE 0]
  <2>1. /\ heap' = Append(heap, new)
        /\ handed' = Append(handed, Len(heap) + 1)
    BY <1>3 DEF Deliver
  <2>2. new.id = id /\ new.text = text /\ (id = "I_CONSTANT" => new.value = Converted(text))
    OBVIOUS
  <2> HIDE DEF new
  <2>3. /\ \A n \in 1..Len(heap) : heap'[n] = heap[n]
        /\ heap'[Len(heap) + 1] = new
        /\ DOMAIN heap' = 1..(Len(heap) + 1)
    BY <1>0, <2>1
  <2>4. \A n \in DOMAIN heap' : n \in 1..Len(heap) \/ n = Len(heap) + 1
    BY <1>0, <2>3
  <2>5. Made'
    <3> SUFFICES ASSUME NEW n \in DOMAIN heap', heap'[n].id # "END"
                 PROVE  /\ heap'[n].text \in Seq(Chars) /\ heap'[n].text # <<>>
                        /\ heap'[n].id = Kind(heap'[n].text)
                        /\ heap'[n].id = "I_CONSTANT" => heap'[n].value = Converted(heap'[n].text)
      BY DEF Made
    <3>1. CASE n \in 1..Len(heap)
      BY <1>0, <2>3, <3>1 DEF Made
    <3>2. CASE n = Len(heap) + 1
      BY <2>2, <2>3, <3>2
    <3> QED
      BY <2>4, <3>1, <3>2
  <2>6. Ends' = IF id = "END" THEN Ends + 1 ELSE Ends
    <3> DEFINE S == {n \in 1..Len(heap) : heap[n].id = "END"}
               T == {n \in 1..(Len(heap) + 1) : heap'[n].id = "END"}
    <3>1. IsFiniteSet(S)
      <4>1. IsFiniteSet(1..Len(heap))
        BY <1>0, FS_Interval
      <4> QED
        BY <4>1, FS_Subset
    <3>2. Ends = Cardinality(S)
      BY <1>0 DEF Ends
    <3>3. Ends' = Cardinality(T)
      BY <2>3 DEF Ends
    <3>4. CASE id = "END"
      <4>1. T = S \cup {Len(heap) + 1}
        BY <1>0, <2>2, <2>3, <3>4
      <4>2. Len(heap) + 1 \notin S
        BY <1>0
      <4> HIDE DEF S, T
      <4>3. Cardinality(S \cup {Len(heap) + 1}) = Cardinality(S) + 1
        BY <3>1, <4>2, FS_AddElement
      <4> QED
        BY <3>2, <3>3, <3>4, <4>1, <4>3
    <3>5. CASE id # "END"
      <4>1. T = S
        BY <1>0, <2>2, <2>3, <3>5
      <4> QED
        BY <3>2, <3>3, <3>5, <4>1
    <3> QED
      BY <3>4, <3>5
  <2>7. /\ DOMAIN handed' = 1..(Len(handed) + 1)
        /\ handed'[Len(handed) + 1] = Len(heap) + 1
        /\ \A i \in 1..Len(handed) : handed'[i] = handed[i]
    <3>1. handed \in Seq(Nat) /\ Len(heap) + 1 \in Nat
      BY <1>0
    <3> QED
      BY <1>0, <2>1, <3>1
  <2>8. Given' = [i \in 1..(Len(handed) + 1) |->
                    [id |-> heap'[handed'[i]].id, text |-> heap'[handed'[i]].text]]
    BY <2>7 DEF Given, Lexeme
  <2>9. /\ Given \in Seq(Lexemes) /\ Len(Given) = Len(handed)
        /\ \A i \in 1..Len(handed) : Given[i] = Lexeme(handed[i])
    BY GivenIs
  <2>10. Append(Given, [id |-> id, text |-> text]) =
          [i \in 1..(Len(handed) + 1) |->
             IF i = Len(handed) + 1 THEN [id |-> id, text |-> text] ELSE Given[i]]
    BY <1>0, <2>9
  <2>11. \A i \in 1..(Len(handed) + 1) :
           [id |-> heap'[handed'[i]].id, text |-> heap'[handed'[i]].text] =
             IF i = Len(handed) + 1 THEN [id |-> id, text |-> text] ELSE Given[i]
    <3> TAKE i \in 1..(Len(handed) + 1)
    <3>1. CASE i = Len(handed) + 1
      BY <2>2, <2>3, <2>7, <3>1
    <3>2. CASE i \in 1..Len(handed) /\ i # Len(handed) + 1
      <4>1. handed'[i] = handed[i] /\ heap'[handed'[i]] = heap[handed[i]]
        BY <1>0, <2>3, <2>7, <3>2
      <4> QED
        BY <2>9, <3>2, <4>1 DEF Lexeme
    <3> QED
      BY <1>0, <3>1, <3>2
  <2> QED
    BY <1>1, <2>5, <2>6, <2>8, <2>10, <2>11
<1> QED
  BY <1>2, <1>3

LEMMA KindIsRule ==
  ASSUME NEW s \in Seq(Chars), s # <<>>,
         Rule(s) \notin {"none", "skip", "comment", "STRING_LITERAL"}
  PROVE  /\ CString(s) \in Seq(Chars) /\ CString(s) # <<>> /\ CString(s) # Eof
         /\ Rule(s) = Kind(CString(s))
<1>0. DOMAIN s = 1..Len(s) /\ Len(s) \in Nat /\ 1 \in 1..Len(s)
  OBVIOUS
<1>1. \/ Character(s) \/ Identifier(s) \/ Number(s) \/ Floating(s)
      \/ s = <<"*">> \/ s = <<"/">>
  BY DEF Rule
<1>2. CString(s) \in Seq(Chars) /\ CString(s) # Eof
  BY CStringIs, EofIsNoText
<1>3. CASE Character(s)
  <2>1. s[1] = "apos" /\ s[1] # "nul"
    BY <1>3 DEF Character
  <2>2. CString(s) # <<>> /\ CString(s)[1] = "apos"
    BY <2>1, CStringIs
  <2>3. Rule(s) = "I_CONSTANT"
    <3>1. ~Identifier(s) /\ ~LineComment(s) /\ ~Strings(s)
      BY <2>1 DEF Identifier, LineComment, Strings
    <3>2. Len(s) > 2
      BY <1>3 DEF Character
    <3>3. s # <<"/", "*">> /\ s # <<"*">> /\ s # <<"/">>
      BY <2>1
    <3>4. ~Floating(s)
      BY <1>0, <2>1 DEF Floating, AllIn, Digits
    <3> QED
      BY <1>3, <3>1, <3>2, <3>3, <3>4 DEF Rule
  <2> QED
    BY <1>2, <2>2, <2>3 DEF Kind
<1>4. CASE ~Character(s)
  <2>1. \A i \in 1..Len(s) : s[i] \in Digits \cup {"x", "dot", "*", "/"}
    <3> TAKE i \in 1..Len(s)
    <3>1. CASE Identifier(s)
      BY <1>0, <3>1 DEF Identifier, AllIn
    <3>2. CASE AllIn(s, Digits)
      BY <1>0, <3>2 DEF AllIn
    <3>3. CASE Hexadecimal(s)
      <4>1. Len(s) > 2 /\ s[1] = "0" /\ s[2] = "x" /\ AllIn(Tail(Tail(s)), Digits)
        BY <3>3 DEF Hexadecimal
      <4>2. Tail(Tail(s)) = [j \in 1..(Len(s) - 2) |-> s[j + 2]]
        BY <1>0, <4>1, WithoutTwo
      <4>3. \A j \in 1..(Len(s) - 2) : s[j + 2] \in Digits
        BY <4>1, <4>2 DEF AllIn
      <4>4. i = 1 \/ i = 2 \/ (i - 2 \in 1..(Len(s) - 2) /\ (i - 2) + 2 = i)
        BY <1>0
      <4> QED
        BY <4>1, <4>3, <4>4 DEF Digits
    <3>4. CASE Floating(s)
      BY <1>0, <3>4 DEF Floating, AllIn
    <3>5. CASE s = <<"*">> \/ s = <<"/">>
      BY <3>5
    <3> QED
      BY <1>1, <1>4, <3>1, <3>2, <3>3, <3>4, <3>5 DEF Number
  <2>2. \A i \in 1..Len(s) : s[i] # "nul" /\ s[i] # "apos"
    BY <2>1 DEF Digits
  <2>3. CString(s) = s
    BY <2>2, CStringIs
  <2> QED
    BY <1>0, <1>2, <2>2, <2>3 DEF Kind
<1> QED
  BY <1>3, <1>4

(* What yylex matches in the buffer, and what that leaves.                 *)
LEMMA MatchSplits ==
  ASSUME TypeOK, Match
  PROVE  LET k    == Longest(buf)
             text == SubSeq(buf, 1, k)
         IN /\ k \in 1..Len(buf) /\ Len(buf) \in Nat /\ buf # <<>>
            /\ text \in Seq(Chars) /\ Len(text) = k /\ text # <<>>
            /\ \A i \in 1..k : text[i] = buf[i]
            /\ buf' \in Seq(Chars) /\ Len(buf') = Len(buf) - k
            /\ \A i \in 1..Len(buf') : buf'[i] = buf[k + i]
            /\ Rule(text) \in {"comment", "skip", "NAME", "I_CONSTANT", "F_CONSTANT",
                               "STRING_LITERAL", "MULT", "DIVIDE"}
            /\ text # Eof
<1> DEFINE k    == Longest(buf)
           text == SubSeq(buf, 1, k)
<1>1. buf \in Seq(Chars) /\ buf # <<>> /\ Len(buf) \in Nat
  BY DEF TypeOK, InputOK, Match
<1>2. k \in 1..Len(buf) /\ Rule(text) # "none"
  BY <1>1, LongestMatches
<1>3. buf' = SubSeq(buf, k + 1, Len(buf))
  BY DEF Match
<1> HIDE DEF k
<1>4. text \in Seq(Chars) /\ Len(text) = k /\ \A i \in 1..k : text[i] = buf[i]
  BY <1>1, <1>2
<1>5. /\ buf' \in Seq(Chars) /\ Len(buf') = Len(buf) - k
      /\ \A i \in 1..Len(buf') : buf'[i] = buf[k + i]
  BY <1>1, <1>2, <1>3
<1> HIDE DEF text
<1>6. text # <<>> /\ text # Eof
  <2>1. Len(<<>>) = 0
    OBVIOUS
  <2> QED
    BY <1>2, <1>4, <2>1, EofIsNoText
<1>7. Rule(text) \in {"comment", "skip", "NAME", "I_CONSTANT", "F_CONSTANT",
                      "STRING_LITERAL", "MULT", "DIVIDE"}
  BY <1>2, RuleNames
<1> QED
  BY <1>1, <1>2, <1>4, <1>5, <1>6, <1>7 DEF k, text

LEMMA MatchCases ==
  ASSUME Match
  PROVE  LET text == SubSeq(buf, 1, Longest(buf))
             rule == Rule(text)
         IN /\ UNCHANGED <<file, block, at>>
            /\ mode = "match" /\ Count(text)
            /\ \/ rule = "skip" /\ UNCHANGED <<mode, opened, clean, cache>>
               \/ /\ rule = "comment" /\ mode' = "comment" /\ opened' = at
                  /\ clean' = (clean /\ buf' = <<>>) /\ UNCHANGED cache
               \/ /\ rule = "STRING_LITERAL" /\ mode' = "abort"
                  /\ UNCHANGED <<opened, clean, cache>>
               \/ /\ rule \notin {"skip", "comment", "STRING_LITERAL"}
                  /\ Deliver(rule, CString(text)) /\ UNCHANGED <<opened, clean>>
                  /\ mode' = "idle"
  BY DEF Match, Deliver

LEMMA BufferedStays ==
  ASSUME TypeOK, Buffered, StarsSeen, [Next]_vars
  PROVE  Buffered'
<1>0. /\ file \in Seq(Chars) /\ Len(file) \in Nat /\ at \in 1..(Len(file) + 1)
      /\ buf \in Seq(Chars) /\ Len(buf) \in Nat /\ opened \in Nat
      /\ mode \in {"idle", "match", "comment", "stars", "abort"}
  BY ScannerAssumption DEF TypeOK, InputOK
<1>1. CASE /\ UNCHANGED <<file, at, buf, opened, clean>>
           /\ mode' \in {mode, "idle", "match"}
  <2>1. mode' \in {"comment", "stars"} => mode \in {"comment", "stars"}
    BY <1>1
  <2> QED
    BY <1>1, <2>1 DEF Buffered
<1>2. CASE Fill
  <2> DEFINE b == BlockAt(at)
  <2>1. /\ b \in Seq(Chars) /\ Len(b) \in Nat
        /\ \A i \in 1..Len(b) : b[i] = file[at + i - 1]
    <3>1. InputOK
      BY DEF TypeOK
    <3>2. b \in Seq(Chars)
      BY <1>0, <3>1, BlockIsText
    <3>3. Len(b) \in Nat
      <4> HIDE DEF b
      <4> QED
        BY <3>2
    <3> QED
      BY <1>0, <3>1, <3>2, <3>3, BlockIsText
  <2>2. /\ buf' = buf \o b /\ at' = at + Len(b) /\ mode = "match"
        /\ UNCHANGED <<file, opened, clean, mode>>
    BY <1>2 DEF Fill
  <2> HIDE DEF b
  <2>3. /\ Len(buf') = Len(buf) + Len(b)
        /\ \A i \in 1..(Len(buf) + Len(b)) :
             buf'[i] = IF i <= Len(buf) THEN buf[i] ELSE b[i - Len(buf)]
    BY <1>0, <2>1, <2>2
  <2>4. ASSUME clean
        PROVE  /\ Len(buf') < at'
               /\ \A i \in 1..Len(buf') : buf'[i] = file[at' - 1 - Len(buf') + i]
    <3>1. Len(buf) < at /\ \A i \in 1..Len(buf) : buf[i] = file[at - 1 - Len(buf) + i]
      BY <2>4 DEF Buffered
    <3>2. at' - 1 - Len(buf') = at - 1 - Len(buf)
      BY <1>0, <2>1, <2>2, <2>3
    <3>3. \A i \in 1..Len(buf') : buf'[i] = file[at - 1 - Len(buf) + i]
      <4> TAKE i \in 1..Len(buf')
      <4>1. CASE i <= Len(buf)
        <5>1. i \in 1..Len(buf)
          BY <1>0, <4>1
        <5> QED
          BY <2>3, <3>1, <4>1, <5>1
      <4>2. CASE i > Len(buf)
        <5>1. i - Len(buf) \in 1..Len(b) /\ ~(i <= Len(buf))
          BY <1>0, <2>1, <2>3, <4>2
        <5>2. b[i - Len(buf)] = file[at + (i - Len(buf)) - 1]
          BY <2>1, <5>1
        <5>3. at + (i - Len(buf)) - 1 = at - 1 - Len(buf) + i
          BY <1>0, <5>1
        <5>4. buf'[i] = b[i - Len(buf)]
          BY <2>3, <5>1
        <5> QED
          BY <5>2, <5>3, <5>4
      <4> QED
        BY <1>0, <2>3, <4>1, <4>2
    <3>4. Len(buf') < at'
      BY <1>0, <2>1, <2>2, <2>3, <3>1
    <3> QED
      BY <2>2, <3>2, <3>3, <3>4
  <2> QED
    BY <2>2, <2>4 DEF Buffered
<1>3. CASE Match
  <2> DEFINE k == Longest(buf)
  <2>1. /\ k \in 1..Len(buf) /\ buf' \in Seq(Chars) /\ Len(buf') = Len(buf) - k
        /\ \A i \in 1..Len(buf') : buf'[i] = buf[k + i]
    BY <1>3, MatchSplits
  <2>2. /\ UNCHANGED <<file, at>> /\ mode = "match"
        /\ \/ UNCHANGED <<mode, opened, clean>>
           \/ mode' \in {"abort", "idle"} /\ UNCHANGED <<opened, clean>>
           \/ mode' = "comment" /\ opened' = at /\ clean' = (clean /\ buf' = <<>>)
    BY <1>3, MatchCases
  <2> HIDE DEF k
  <2>3. ASSUME clean
        PROVE  /\ Len(buf') < at
               /\ \A i \in 1..Len(buf') : buf'[i] = file[at - 1 - Len(buf') + i]
    <3>1. Len(buf) < at /\ \A i \in 1..Len(buf) : buf[i] = file[at - 1 - Len(buf) + i]
      BY <2>3 DEF Buffered
    <3>2. Len(buf') < at
      BY <1>0, <2>1, <3>1
    <3>3. \A i \in 1..Len(buf') : buf'[i] = file[at - 1 - Len(buf') + i]
      <4> TAKE i \in 1..Len(buf')
      <4>1. k + i \in 1..Len(buf) /\ at - 1 - Len(buf) + (k + i) = at - 1 - Len(buf') + i
        BY <1>0, <2>1
      <4> QED
        BY <2>1, <3>1, <4>1
    <3> QED
      BY <3>2, <3>3
  <2>4. CASE mode' \in {"match", "abort", "idle"} /\ UNCHANGED <<opened, clean>>
    BY <2>2, <2>3, <2>4 DEF Buffered
  <2>5. CASE mode' = "comment" /\ opened' = at /\ clean' = (clean /\ buf' = <<>>)
    <3>1. clean' => clean /\ buf' = <<>>
      BY <2>5
    <3>2. opened' # 0 /\ at' = at /\ file' = file
      BY <1>0, <2>2, <2>5
    <3>3. clean' => Len(buf') < at' /\ \A i \in 1..Len(buf') : buf'[i] = file'[at' - 1 - Len(buf') + i]
      BY <2>3, <3>1, <3>2
    <3> QED
      BY <3>1, <3>2, <3>3 DEF Buffered
  <2> QED
    BY <2>2, <2>4, <2>5
<1>4. CASE CommentChar
  <2>1. /\ UNCHANGED <<file, buf, opened, clean>> /\ at' = Next1
        /\ mode \in {"comment", "stars"}
    BY <1>4 DEF CommentChar
  <2>2. at' >= at /\ at' \in Nat
    BY <1>0, <2>1 DEF Next1
  <2>3. opened # 0 /\ (clean => buf = <<>> /\ Len(buf) < at)
    BY <2>1 DEF Buffered
  <2>4. clean => Len(buf) < at' /\ \A i \in 1..Len(buf) : buf[i] = file[at' - 1 - Len(buf) + i]
    BY <1>0, <2>2, <2>3
  <2> QED
    BY <2>1, <2>3, <2>4 DEF Buffered
<1>5. CASE CommentNul
  <2>1. opened' = opened /\ clean' = FALSE /\ opened # 0
    BY <1>5 DEF CommentNul, Buffered
  <2> QED
    BY <2>1 DEF Buffered
<1> QED
  BY <1>1, <1>2, <1>3, <1>4, <1>5
     DEF Next, Step, Get, Wrap, Stopped, vars, input, Deliver

LEMMA EndingStays ==
  ASSUME TypeOK, TypeOK', Made, Ending, [Next]_vars
  PROVE  Ending' /\ Made'
<1>0. /\ file \in Seq(Chars) /\ Len(file) \in Nat /\ at \in 1..(Len(file) + 1)
      /\ CacheOK /\ CacheOK' /\ heap \in Seq(Tokens)
      /\ MaxEnds \in Nat
  BY ScannerAssumption DEF TypeOK, InputOK, CacheOK
<1>1. Ends \in Nat
  BY <1>0, EndsCounted
<1>2. UNCHANGED cache => Made' /\ Ends' = Ends
  BY DEF cache, Made, Ends
<1>3. CASE Get
  <2>1. Ends < MaxEnds /\ UNCHANGED <<input, cache>> /\ mode' = "match"
    BY <1>3 DEF Get, Ends
  <2>2. UNCHANGED <<file, buf, at>>
    BY <2>1 DEF input
  <2> QED
    BY <1>2, <2>1, <2>2 DEF Ending
<1>4. CASE Fill
  <2>1. at <= Len(file) /\ UNCHANGED <<cache, mode>>
    BY <1>4 DEF Fill
  <2>2. Ends = 0
    BY <1>0, <2>1 DEF Ending
  <2> QED
    BY <1>2, <2>1, <2>2 DEF Ending
<1>5. CASE Match
  <2> DEFINE text == SubSeq(buf, 1, Longest(buf))
             rule == Rule(text)
  <2>1. /\ text \in Seq(Chars) /\ text # <<>> /\ text # Eof /\ rule # "END" /\ buf # <<>>
    BY <1>5, MatchSplits
  <2>2. mode = "match" /\ Ends = 0 /\ Ends < MaxEnds
    BY <1>5, <2>1, MatchCases DEF Ending
  <2>3. CASE UNCHANGED cache
    BY <1>1, <1>2, <2>2, <2>3 DEF Ending
  <2>4. CASE rule \notin {"skip", "comment", "STRING_LITERAL"} /\ Deliver(rule, CString(text))
    <3>0. rule # "none"
      BY <1>5, MatchSplits
    <3> HIDE DEF text
    <3>a. /\ CString(text) \in Seq(Chars) /\ CString(text) # <<>> /\ CString(text) # Eof
          /\ rule = Kind(CString(text))
      BY <2>1, <2>4, <3>0, KindIsRule
    <3> HIDE DEF rule
    <3>1. Made' /\ Ends' = Ends
      BY <1>0, <2>1, <2>4, <3>a, DeliverGives
    <3> QED
      BY <1>1, <2>2, <3>1 DEF Ending
  <2> QED
    BY <1>5, <2>3, <2>4, MatchCases
<1>6. CASE Wrap
  <2>1. /\ Deliver("END", Eof) /\ UNCHANGED input /\ mode = "match"
        /\ buf = <<>> /\ at > Len(file)
    BY <1>6 DEF Wrap, AtEnd
  <2>2. Made' /\ Ends' = Ends + 1
    BY <1>0, <2>1, DeliverGives
  <2>3. Ends < MaxEnds
    BY <2>1 DEF Ending
  <2>4. mode' = "idle" /\ UNCHANGED <<file, buf, at>>
    BY <2>1 DEF Deliver, input
  <2> QED
    BY <1>0, <1>1, <2>1, <2>2, <2>3, <2>4 DEF Ending
<1>7. CASE CommentChar \/ CommentNul
  <2>1. mode \in {"comment", "stars"} /\ UNCHANGED cache
    BY <1>7 DEF CommentChar, CommentNul
  <2>2. Ends = 0 /\ Ends < MaxEnds
    BY <2>1 DEF Ending
  <2> QED
    BY <1>1, <1>2, <2>1, <2>2 DEF Ending
<1>8. CASE UNCHANGED vars
  <2>1. UNCHANGED <<cache, mode, buf, at, file>>
    BY <1>8 DEF vars, cache
  <2> QED
    BY <1>2, <2>1 DEF Ending
<1> QED
  BY <1>3, <1>4, <1>5, <1>6, <1>7, <1>8 DEF Next, Step, Stopped
-----------------------------------------------------------------------------
LEMMA WIs ==
  ASSUME file \in Seq(Chars)
  PROVE  /\ \A i \in 1..(Len(file) + 1) : W[i] \in Seq(Lexemes)
         /\ W[Len(file) + 1] = [n \in 1..MaxEnds |-> End]
         /\ Written(file) = W[1]
  BY WrittenFollows, WrittenAtEnd DEF W, Written

(* What remains before any END was made.                                   *)
LEMMA RemainingIs ==
  ASSUME file \in Seq(Chars), mode \notin {"comment", "stars"}, Ends = 0,
         at - Len(buf) \in 1..(Len(file) + 1)
  PROVE  Remaining = W[at - Len(buf)]
<1>1. CASE at - Len(buf) > Len(file)
  <2>1. at - Len(buf) = Len(file) + 1
    BY <1>1
  <2>2. MaxEnds - 0 = MaxEnds
    BY ScannerAssumption
  <2> QED
    BY <1>1, <2>1, <2>2, WIs DEF Remaining
<1>2. CASE ~(at - Len(buf) > Len(file))
  BY <1>2 DEF Remaining
<1> QED
  BY <1>1, <1>2

(* What yylex matches in the buffer is the match in the text.              *)
LEMMA MatchIsText ==
  ASSUME TypeOK, Buffered, clean, Match
  PROVE  LET pos  == at - Len(buf)
             rest == SubSeq(file, pos, Len(file))
         IN /\ pos \in 1..Len(file)
            /\ SubSeq(buf, 1, Longest(buf)) = SubSeq(rest, 1, Longest(rest))
            /\ Longest(buf) = Len(SubSeq(rest, 1, Longest(rest)))
<1> DEFINE pos  == at - Len(buf)
           rest == SubSeq(file, pos, Len(file))
           n    == Len(buf)
<1>1. /\ file \in Seq(Chars) /\ Len(file) \in Nat /\ at \in 1..(Len(file) + 1)
      /\ buf \in Seq(Chars) /\ Len(buf) \in Nat /\ buf # <<>>
      /\ ~Open(buf) \/ at > Len(file)
  BY ScannerAssumption DEF TypeOK, InputOK, Match
<1>2. Len(buf) < at /\ \A i \in 1..Len(buf) : buf[i] = file[at - 1 - Len(buf) + i]
  BY DEF Buffered
<1>3. Len(buf) >= 1
  BY <1>1
<1>4. pos \in 1..Len(file)
  BY <1>1, <1>2, <1>3
<1>5. /\ rest \in Seq(Chars) /\ Len(rest) = Len(file) - pos + 1
      /\ \A j \in 1..Len(rest) : rest[j] = file[pos + j - 1]
      /\ Len(SubSeq(rest, 1, Longest(rest))) = Longest(rest)
  BY <1>1, <1>4, MatchAt
<1> HIDE DEF rest
<1>6. n \in 1..Len(rest) /\ (at > Len(file) => n = Len(rest))
  <2>1. Len(rest) = Len(file) - at + n + 1
    BY <1>1, <1>5
  <2> HIDE DEF n
  <2>2. n \in Nat /\ n >= 1
    BY <1>1, <1>3 DEF n
  <2> QED
    BY <1>1, <2>1, <2>2
<1>7. SubSeq(rest, 1, n) = buf
  <2>1. SubSeq(rest, 1, n) = [i \in 1..n |-> rest[i]]
    BY <1>5, <1>6
  <2>2. buf = [i \in 1..n |-> buf[i]]
    BY <1>1
  <2>3. \A i \in 1..n : rest[i] = buf[i]
    <3> TAKE i \in 1..n
    <3>1. i \in 1..Len(rest) /\ pos + i - 1 = at - 1 - Len(buf) + i
      BY <1>1, <1>6
    <3> QED
      BY <1>2, <1>5, <3>1
  <2> QED
    BY <2>1, <2>2, <2>3
<1>8. n = Len(rest) \/ ~Open(SubSeq(rest, 1, n))
  BY <1>1, <1>6, <1>7
<1> HIDE DEF n
<1>9. /\ Longest(SubSeq(rest, 1, n)) = Longest(rest)
      /\ SubSeq(SubSeq(rest, 1, n), 1, Longest(rest)) = SubSeq(rest, 1, Longest(rest))
  BY <1>5, <1>6, <1>8, BufferIsEnough
<1> QED
  BY <1>4, <1>5, <1>7, <1>9 DEF rest

LEMMA OneMore ==
  ASSUME NEW s \in Seq(Lexemes), NEW e \in Lexemes, NEW r \in Seq(Lexemes)
  PROVE  s \o (<<e>> \o r) = Append(s, e) \o r
  BY SMTT(30)

LEMMA EndsGo ==
  ASSUME NEW m \in Nat, m > 0
  PROVE  [n \in 1..m |-> End] = <<End>> \o [n \in 1..(m - 1) |-> End]
<1> DEFINE r == [n \in 1..(m - 1) |-> End]
<1>1. r \in Seq({End}) /\ Len(r) = m - 1 /\ \A i \in 1..(m - 1) : r[i] = End
  OBVIOUS
<1> HIDE DEF r
<1>2. <<End>> \in Seq({End}) /\ Len(<<End>>) = 1 /\ <<End>>[1] = End
  OBVIOUS
<1>3. PICK s \in Seq({End}) : s = <<End>> \o r
  <2>1. <<End>> \o r \in Seq({End})
    BY <1>1, <1>2
  <2> QED
    BY <2>1
<1>4. Len(s) = m
  BY <1>1, <1>2, <1>3
<1>5. \A i \in 1..m : s[i] = End
  BY <1>4
<1>6. s = [n \in 1..Len(s) |-> s[n]]
  OBVIOUS
<1> QED
  BY <1>3, <1>4, <1>5, <1>6 DEF r

LEMMA ReadingStays ==
  ASSUME TypeOK, TypeOK', Buffered, Buffered', StarsSeen, CommentNotOverrun,
         Made, Ending, Ending', Reading, [Next]_vars
  PROVE  Reading'
<1> SUFFICES ASSUME clean', mode' # "abort"
             PROVE  (Written(file) = Given \o Remaining)'
  BY DEF Reading
<1>0. /\ file \in Seq(Chars) /\ Len(file) \in Nat /\ at \in 1..(Len(file) + 1)
      /\ buf \in Seq(Chars) /\ Len(buf) \in Nat
      /\ CacheOK /\ CacheOK' /\ heap \in Seq(Tokens) /\ heap' \in Seq(Tokens)
      /\ MaxEnds \in Nat
      /\ file' = file
  <2>1. file' = file
    BY DEF Next, Step, Get, Fill, Match, Wrap, CommentChar, CommentNul, Stopped, vars, input
  <2>2. file \in Seq(Chars)
    BY ScannerAssumption DEF TypeOK, InputOK
  <2> QED
    BY <2>1, <2>2, ScannerAssumption, SMTT(30) DEF TypeOK, InputOK, CacheOK
<1>1. Ends \in Nat /\ Ends' \in Nat
  <2>1. (heap \in Seq(Tokens))'
    BY <1>0
  <2>2. (Ends \in Nat)'
    BY <2>1, EndsCounted, PTL
  <2> QED
    BY <1>0, <2>2, EndsCounted
<1>2. UNCHANGED cache => Given' = Given /\ Ends' = Ends
  BY DEF cache, Given, Lexeme, Ends
<1>3. W' = W /\ Written(file)' = Written(file)
  BY <1>0 DEF W
<1>4. \A i \in 1..(Len(file) + 1) : W[i] \in Seq(Lexemes)
  BY <1>0, WIs
<1>5. Given \in Seq(Lexemes)
  BY <1>0, GivenIs
<1>6. clean => Len(buf) < at /\ at - Len(buf) \in 1..(Len(file) + 1)
  BY <1>0 DEF Buffered
<1>7. CASE Get \/ Stopped \/ UNCHANGED vars
  <2>1. UNCHANGED <<buf, at, opened, clean, cache>>
    BY <1>7 DEF Get, Stopped, vars, input, cache
  <2>2. mode' = mode \/ (mode = "idle" /\ mode' = "match")
    BY <1>7 DEF Get, Stopped, vars
  <2>3. mode # "abort"
    BY <2>2
  <2>4. Remaining' = Remaining
    BY <1>0, <1>2, <1>3, <2>1, <2>2 DEF Remaining
  <2> QED
    BY <1>2, <1>3, <2>1, <2>3, <2>4 DEF Reading
<1>8. CASE Fill
  <2>1. /\ UNCHANGED <<clean, cache, mode>> /\ mode = "match"
        /\ buf' = buf \o BlockAt(at) /\ at' = at + Len(BlockAt(at))
    BY <1>8 DEF Fill
  <2>2. PICK b \in Seq(Chars) : b = BlockAt(at)
    BY <1>0, BlockIsText DEF TypeOK
  <2>3. at' - Len(buf') = at - Len(buf)
    BY <1>0, <2>1, <2>2
  <2>4. Remaining' = Remaining
    BY <1>0, <1>2, <1>3, <2>1, <2>3 DEF Remaining
  <2> QED
    BY <1>2, <1>3, <2>1, <2>4 DEF Reading
<1>9. CASE Match
  <2> DEFINE pos  == at - Len(buf)
             rest == SubSeq(file, pos, Len(file))
             text == SubSeq(rest, 1, Longest(rest))
             rule == Rule(text)
  <2>1. clean /\ mode = "match" /\ at' = at
    BY <1>9, MatchCases
  <2>2. /\ pos \in 1..Len(file)
        /\ SubSeq(buf, 1, Longest(buf)) = text
        /\ Longest(buf) = Len(text)
    BY <1>9, <2>1, MatchIsText
  <2>3. /\ buf # <<>> /\ text \in Seq(Chars) /\ text # Eof /\ text # <<>>
        /\ Len(buf') = Len(buf) - Len(text) /\ buf' \in Seq(Chars) /\ Len(text) \in 1..Len(buf)
        /\ rule \in {"comment", "skip", "NAME", "I_CONSTANT", "F_CONSTANT",
                     "STRING_LITERAL", "MULT", "DIVIDE"}
    BY <1>9, <2>2, MatchSplits
  <2>4. /\ \/ rule = "skip" /\ UNCHANGED <<mode, opened, clean, cache>>
           \/ /\ rule = "comment" /\ mode' = "comment" /\ opened' = at
              /\ clean' = (clean /\ buf' = <<>>) /\ UNCHANGED cache
           \/ /\ rule = "STRING_LITERAL" /\ mode' = "abort"
              /\ UNCHANGED <<opened, clean, cache>>
           \/ /\ rule \notin {"skip", "comment", "STRING_LITERAL"}
              /\ Deliver(rule, CString(text)) /\ UNCHANGED <<opened, clean>>
              /\ mode' = "idle"
    BY <1>9, <2>2, MatchCases
  <2>5. /\ rule = "skip" => W[pos] = W[pos + Len(text)]
        /\ rule = "comment" => W[pos] = BehindComment(file, W, pos + 2)
        /\ rule \notin {"skip", "comment", "STRING_LITERAL"} =>
             W[pos] = <<[id |-> rule, text |-> CString(text)]>> \o W[pos + Len(text)]
    BY <1>0, <2>2, WrittenAt DEF W
  <2>6. rule = "comment" => Len(text) = 2
    BY <1>0, <2>2, MatchAt
  <2> HIDE DEF text
  <2>7. pos + Len(text) \in 1..(Len(file) + 1) /\ at' - Len(buf') = pos + Len(text)
    BY <1>0, <2>1, <2>2, <2>3
  <2>8. Ends = 0 /\ Written(file) = Given \o W[pos]
    <3>1. Ends = 0
      BY <2>3 DEF Ending
    <3>2. pos \in 1..(Len(file) + 1)
      BY <1>0, <2>2
    <3>3. Remaining = W[pos]
      BY <1>0, <2>1, <3>1, <3>2, RemainingIs
    <3> QED
      BY <2>1, <3>1, <3>3 DEF Reading
  <2>9. ASSUME mode' \notin {"comment", "stars"}, Ends' = 0
        PROVE  Remaining' = W[pos + Len(text)]
    <3>1. (file \in Seq(Chars) /\ mode \notin {"comment", "stars"} /\ Ends = 0
            /\ at - Len(buf) \in 1..(Len(file) + 1))'
      BY <1>0, <2>7, <2>9
    <3>2. (Remaining = W[at - Len(buf)])'
      BY <3>1, RemainingIs, PTL
    <3> QED
      BY <1>3, <2>7, <3>2
  <2>10. CASE rule = "skip" /\ UNCHANGED <<mode, opened, clean, cache>>
    BY <1>2, <1>3, <2>1, <2>5, <2>8, <2>9, <2>10
  <2>11. CASE /\ rule = "comment" /\ mode' = "comment" /\ opened' = at
              /\ clean' = (clean /\ buf' = <<>>) /\ UNCHANGED cache
    <3>1. buf' = <<>>
      BY <2>11
    <3>2. Len(buf) = 2 /\ pos + 2 = at
      <4>1. Len(buf') = 0 /\ Len(text) = 2
        BY <2>6, <2>11, <3>1
      <4>2. Len(buf') = Len(buf) - Len(text)
        BY <2>3
      <4>3. Len(buf) = 2
        BY <1>0, <4>1, <4>2
      <4> QED
        BY <1>0, <4>3
    <3>3. W[pos] = BehindComment(file, W, at)
      BY <2>5, <2>11, <3>2
    <3>4. Remaining' = BehindComment(file, W, at)
      BY <1>0, <1>3, <2>11 DEF Remaining
    <3> QED
      BY <1>2, <1>3, <2>8, <2>11, <3>3, <3>4
  <2>12. CASE /\ rule \notin {"skip", "comment", "STRING_LITERAL"}
              /\ Deliver(rule, CString(text)) /\ UNCHANGED <<opened, clean>>
              /\ mode' = "idle"
    <3> DEFINE e == [id |-> rule, text |-> CString(text)]
    <3>0. /\ CString(text) \in Seq(Chars) /\ CString(text) # <<>> /\ CString(text) # Eof
          /\ rule = Kind(CString(text))
      BY <2>3, <2>12, KindIsRule
    <3>1. Ends' = 0 /\ Given' = Append(Given, e)
      <4>1. (rule = "END" <=> CString(text) = Eof)
        BY <2>3, <3>0
      <4>2. CString(text) \in Seq(Chars) /\ CString(text) # <<>> /\ rule = Kind(CString(text))
        BY <3>0
      <4> HIDE DEF rule
      <4> QED
        BY <1>0, <2>3, <2>8, <2>12, <4>1, <4>2, DeliverGives
    <3>2. W[pos] = <<e>> \o W[pos + Len(text)]
      BY <2>5, <2>12
    <3>3. e \in Lexemes
      BY <2>3, <3>0 DEF Lexemes
    <3>4. W[pos + Len(text)] \in Seq(Lexemes)
      BY <1>4, <2>7
    <3> HIDE DEF e
    <3>5. Given \o (<<e>> \o W[pos + Len(text)]) = Append(Given, e) \o W[pos + Len(text)]
      BY <1>5, <3>3, <3>4, OneMore
    <3>6. Remaining' = W[pos + Len(text)]
      BY <2>9, <2>12, <3>1
    <3>7. Written(file) = Append(Given, e) \o W[pos + Len(text)]
      BY <2>8, <3>2, <3>5
    <3> QED
      BY <1>3, <3>1, <3>6, <3>7
  <2> QED
    BY <2>4, <2>10, <2>11, <2>12
<1>10. CASE Wrap
  <2>1. /\ Deliver("END", Eof) /\ UNCHANGED <<input, clean>> /\ mode = "match"
        /\ buf = <<>> /\ at > Len(file)
    BY <1>10 DEF Wrap, AtEnd
  <2>2. Ends' = Ends + 1 /\ Given' = Append(Given, End)
    <3>1. Ends' = Ends + 1 /\ Given' = Append(Given, [id |-> "END", text |-> Eof])
      BY <1>0, <2>1, DeliverGives
    <3> QED
      BY <3>1 DEF End
  <2>3. mode' = "idle" /\ UNCHANGED <<buf, at>>
    BY <2>1 DEF Deliver, input
  <2>4. Ends < MaxEnds
    BY <2>1 DEF Ending
  <2>5. at - Len(buf) > Len(file)
    BY <1>0, <2>1
  <2>6. Remaining = [n \in 1..(MaxEnds - Ends) |-> End]
    BY <2>1, <2>5 DEF Remaining
  <2>7. Remaining' = [n \in 1..(MaxEnds - Ends - 1) |-> End]
    <3>1. MaxEnds - (Ends + 1) = MaxEnds - Ends - 1
      BY <1>0, <1>1
    <3> QED
      BY <1>0, <2>2, <2>3, <2>5, <3>1 DEF Remaining
  <2>8. MaxEnds - Ends \in Nat /\ MaxEnds - Ends > 0
    BY <1>0, <1>1, <2>4
  <2>9. Remaining = <<End>> \o Remaining'
    BY <2>6, <2>7, <2>8, EndsGo
  <2>10. End \in Lexemes /\ Remaining' \in Seq(Lexemes)
    <3>1. End \in Lexemes
      BY DEF End, Lexemes
    <3>2. MaxEnds - Ends - 1 \in Nat
      BY <2>8
    <3> QED
      BY <2>7, <3>1, <3>2
  <2>11. PICK r \in Seq(Lexemes) : r = Remaining'
    BY <2>10
  <2>12. Given \o (<<End>> \o r) = Append(Given, End) \o r
    BY <1>5, <2>10, OneMore
  <2>13. Written(file) = Given \o (<<End>> \o r)
    BY <2>1, <2>9, <2>11 DEF Reading
  <2> QED
    BY <1>3, <2>2, <2>11, <2>12, <2>13
<1>11. CASE CommentChar
  <2>1. /\ mode \in {"comment", "stars"} /\ at' = Next1
        /\ UNCHANGED <<buf, opened, clean, cache>>
    BY <1>11 DEF CommentChar
  <2>2. /\ clean /\ buf = <<>> /\ Ends = 0
    BY <2>1 DEF Buffered, Ending
  <2>3. Written(file) = Given \o BehindComment(file, W, opened)
    BY <2>1, <2>2 DEF Reading, Remaining
  <2>4. CASE mode' \in {"comment", "stars"}
    <3>1. Remaining' = BehindComment(file, W, opened)
      BY <1>0, <1>3, <2>1, <2>4 DEF Remaining
    <3> QED
      BY <1>2, <1>3, <2>1, <2>3, <3>1
  <2>5. CASE mode' \notin {"comment", "stars"}
    <3>1. mode = "stars" /\ Fgetc = "/"
      BY <1>11, <2>5 DEF CommentChar
    <3>2. at <= Len(file) /\ file[at] = "/" /\ at' = at + 1
      BY <1>0, <2>1, <3>1 DEF Fgetc, Next1
    <3>3. at > opened /\ file[at - 1] = "*" /\ opened \in 1..at
      BY <3>1 DEF StarsSeen
    <3> DEFINE ends == {j \in (opened + 1)..Len(file) : file[j - 1] = "*" /\ file[j] = "/"}
    <3>4. at \in ends
      BY <1>0, <3>2, <3>3
    <3>5. \A j \in ends : at <= j
      <4> SUFFICES ASSUME NEW j \in ends, j < at PROVE FALSE
        BY <1>0, <3>3
      <4>1. j \in opened..(at - 1) /\ j > opened
        BY <1>0, <3>3
      <4> QED
        BY <2>1, <4>1 DEF CommentNotOverrun
    <3>6. BehindComment(file, W, opened) = W[1 + at]
      <4>1. BehindComment(file, W, opened) =
              IF ends = {} THEN <<>> ELSE W[1 + CHOOSE j \in ends : \A k \in ends : j <= k]
        BY DEF BehindComment
      <4>2. \A j \in ends : (\A k \in ends : j <= k) => j = at
        <5> TAKE j \in ends
        <5>1. j \in Nat
          BY <3>3
        <5> QED
          BY <1>0, <3>4, <3>5, <5>1
      <4> HIDE DEF ends
      <4>3. (CHOOSE j \in ends : \A k \in ends : j <= k) = at
        BY <3>4, <3>5, <4>2
      <4> QED
        BY <3>4, <4>1, <4>3
    <3>7. (file \in Seq(Chars) /\ mode \notin {"comment", "stars"} /\ Ends = 0
            /\ at - Len(buf) \in 1..(Len(file) + 1))'
      BY <1>0, <1>2, <2>1, <2>2, <2>5, <3>2
    <3>8. (Remaining = W[at - Len(buf)])'
      BY <3>7, RemainingIs, PTL
    <3>9. at' - Len(buf') = 1 + at
      BY <1>0, <2>1, <2>2, <3>2
    <3> QED
      BY <1>2, <1>3, <2>1, <2>3, <3>6, <3>8, <3>9
  <2> QED
    BY <2>4, <2>5
<1>12. CASE CommentNul
  <2>1. clean' = FALSE
    BY <1>12 DEF CommentNul
  <2> QED
    BY <2>1
<1> QED
  BY <1>7, <1>8, <1>9, <1>10, <1>11, <1>12 DEF Next, Step
-----------------------------------------------------------------------------
ReadInv == StarsSeen /\ CommentNotOverrun /\ Buffered /\ Made /\ Ending /\ Reading

LEMMA ReadsOn == Spec => []ReadInv
<1>1. Init => Buffered /\ Made /\ Ending /\ Reading
  <2> SUFFICES ASSUME Init PROVE Buffered /\ Made /\ Ending /\ Reading
    OBVIOUS
  <2>1. /\ file \in Seq(Chars) /\ Len(file) \in Nat /\ at = 1 /\ buf = <<>> /\ mode = "idle"
        /\ opened = 0 /\ clean = TRUE /\ heap = <<>> /\ handed = <<>> /\ MaxEnds \in Nat
    BY ScannerAssumption DEF Init
  <2>2. Ends = 0
    <3>1. heap \in Seq(Tokens)
      BY <2>1
    <3> QED
      BY <2>1, <3>1, EndsCounted
  <2>3. Buffered
    BY <2>1 DEF Buffered
  <2>4. Made
    BY <2>1 DEF Made
  <2>5. Ending
    BY <2>1, <2>2 DEF Ending
  <2>6. Reading
    <3>1. at - Len(buf) = 1 /\ 1 \in 1..(Len(file) + 1)
      BY <2>1
    <3>2. Remaining = W[1]
      BY <2>1, <2>2, <3>1, RemainingIs
    <3>3. W[1] \in Seq(Lexemes) /\ Written(file) = W[1]
      BY <2>1, <3>1, WIs
    <3>4. Given = <<>>
      BY <2>1 DEF Given
    <3>5. <<>> \o W[1] = W[1]
      BY <3>3
    <3> QED
      BY <3>2, <3>3, <3>4, <3>5 DEF Reading
  <2> QED
    BY <2>3, <2>4, <2>5, <2>6
<1>2. /\ TypeOK /\ TypeOK' /\ StarsSeen /\ CommentNotOverrun
      /\ Buffered /\ Made /\ Ending /\ Reading /\ [Next]_vars
      => Buffered' /\ Made' /\ Ending' /\ Reading'
  <2> SUFFICES ASSUME TypeOK, TypeOK', StarsSeen, CommentNotOverrun,
                      Buffered, Made, Ending, Reading, [Next]_vars
               PROVE  Buffered' /\ Made' /\ Ending' /\ Reading'
    OBVIOUS
  <2>1. Buffered'
    BY BufferedStays
  <2>2. Made' /\ Ending'
    BY EndingStays
  <2>3. Reading'
    BY <2>1, <2>2, ReadingStays
  <2> QED
    BY <2>1, <2>2, <2>3
<1> QED
  BY <1>1, <1>2, TypeCorrect, StarsAreSeen, PTL DEF Spec, ReadInv

(* Scanner::get (scanner.cc:30-95) gives the parser the tokens of the      *)
(* text, each once and in order, wherever the blocks of flex end, as long  *)
(* as every comment began where flex had stopped to read.                  *)
THEOREM TokensAsWritten == Spec => []LexesAsWritten
<1>1. TypeOK /\ ReadInv => LexesAsWritten
  <2> SUFFICES ASSUME TypeOK, ReadInv, clean, mode = "idle"
               PROVE  /\ Len(handed) <= Len(Written(file))
                      /\ \A i \in DOMAIN handed :
                           /\ heap[handed[i]].id = Written(file)[i].id
                           /\ heap[handed[i]].text = Written(file)[i].text
    BY DEF LexesAsWritten
  <2>1. /\ file \in Seq(Chars) /\ Len(file) \in Nat /\ at \in 1..(Len(file) + 1)
        /\ buf \in Seq(Chars) /\ Len(buf) \in Nat /\ CacheOK /\ MaxEnds \in Nat
        /\ heap \in Seq(Tokens) /\ DOMAIN handed = 1..Len(handed)
    <3>1. file \in Seq(Chars)
      BY ScannerAssumption DEF TypeOK, InputOK
    <3> QED
      BY <3>1, ScannerAssumption DEF TypeOK, InputOK, CacheOK
  <2>2. /\ Given \in Seq(Lexemes) /\ Len(Given) = Len(handed) /\ Len(handed) \in Nat
        /\ \A i \in 1..Len(handed) : Given[i] = Lexeme(handed[i])
    BY <2>1, GivenIs DEF ReadInv
  <2>3. Remaining \in Seq(Lexemes)
    <3>1. Len(buf) < at /\ at - Len(buf) \in 1..(Len(file) + 1)
      BY <2>1 DEF ReadInv, Buffered
    <3>2. W[at - Len(buf)] \in Seq(Lexemes)
      BY <2>1, <3>1, WIs
    <3>3. [n \in 1..(MaxEnds - Ends) |-> End] \in Seq(Lexemes)
      <4>1. End \in Lexemes
        BY DEF End, Lexemes
      <4>2. Ends \in Nat /\ Ends <= MaxEnds
        BY <2>1, EndsCounted DEF ReadInv, Ending
      <4>3. MaxEnds - Ends \in Nat
        BY <2>1, <4>2
      <4> QED
        BY <4>1, <4>3
    <3> QED
      BY <3>2, <3>3 DEF Remaining
  <2>4. PICK r \in Seq(Lexemes) : r = Remaining
    BY <2>3
  <2>5. Written(file) = Given \o r
    BY <2>4 DEF ReadInv, Reading
  <2>6. /\ Len(Given \o r) = Len(Given) + Len(r) /\ Len(r) \in Nat
        /\ \A i \in 1..Len(Given) : (Given \o r)[i] = Given[i]
    BY <2>2
  <2>7. ASSUME NEW i \in DOMAIN handed
        PROVE  /\ heap[handed[i]].id = Written(file)[i].id
               /\ heap[handed[i]].text = Written(file)[i].text
    <3>1. Written(file)[i] = Lexeme(handed[i])
      BY <2>1, <2>2, <2>5, <2>6
    <3> QED
      BY <3>1 DEF Lexeme
  <2>8. Len(handed) <= Len(Written(file))
    BY <2>2, <2>5, <2>6
  <2> QED
    BY <2>7, <2>8
<1> QED
  BY <1>1, TypeCorrect, ReadsOn, PTL
-----------------------------------------------------------------------------
Newlines(n) == {i \in 1..n : file[i] = "nl"}

LEMMA NewlinesCounted ==
  ASSUME NEW n \in Nat
  PROVE  IsFiniteSet(Newlines(n)) /\ Cardinality(Newlines(n)) \in Nat
<1>1. IsFiniteSet(1..n)
  BY FS_Interval
<1>2. Newlines(n) \subseteq 1..n
  BY DEF Newlines
<1> QED
  BY <1>1, <1>2, FS_Subset, FS_CardinalityType

(* No match but a newline, or a string, has a newline in it.               *)
LEMMA NoNewline ==
  ASSUME NEW s \in Seq(Chars), Rule(s) \notin {"none", "STRING_LITERAL"}, s # <<"nl">>,
         NEW i \in 1..Len(s)
  PROVE  s[i] # "nl"
<1>0. DOMAIN s = 1..Len(s) /\ Len(s) \in Nat /\ i \in DOMAIN s
  OBVIOUS
<1>1. CASE s = <<"/", "*">>
  <2>1. i \in 1..2
    BY <1>1
  <2> QED
    BY <1>1, <2>1
<1>2. CASE LineComment(s)
  BY <1>0, <1>2 DEF LineComment
<1>3. CASE Identifier(s)
  BY <1>0, <1>3 DEF Identifier, AllIn, Digits
<1>4. CASE AllIn(s, Digits)
  BY <1>0, <1>4 DEF AllIn, Digits
<1>5. CASE Hexadecimal(s)
  <2>1. Len(s) > 2 /\ s[1] = "0" /\ s[2] = "x" /\ AllIn(Tail(Tail(s)), Digits)
    BY <1>5 DEF Hexadecimal
  <2>2. Tail(Tail(s)) = [j \in 1..(Len(s) - 2) |-> s[j + 2]]
    BY <1>0, <2>1, WithoutTwo
  <2>3. \A j \in 1..(Len(s) - 2) : s[j + 2] \in Digits
    BY <2>1, <2>2 DEF AllIn
  <2>4. i = 1 \/ i = 2 \/ (i - 2 \in 1..(Len(s) - 2) /\ (i - 2) + 2 = i)
    BY <1>0
  <2>5. s[i] \in {"0", "x"} \cup Digits
    BY <2>1, <2>3, <2>4
  <2> QED
    BY <2>5 DEF Digits
<1>6. CASE Floating(s)
  BY <1>0, <1>6 DEF Floating, AllIn, Digits
<1>7. CASE s = <<"*">> \/ s = <<"/">>
  BY <1>7
<1>8. CASE Len(s) = 1 /\ s[1] \in {"dot", "quote", "apos", "nl", "space", "nul"}
  <2>1. s = <<s[1]>> /\ i = 1
    <3>1. s = [j \in 1..1 |-> s[j]] /\ <<s[1]>> = [j \in 1..1 |-> s[1]]
      BY <1>8
    <3>2. [j \in 1..1 |-> s[j]] = [j \in 1..1 |-> s[1]]
      OBVIOUS
    <3> QED
      BY <1>8, <3>1, <3>2
  <2> QED
    BY <2>1
<1>9. CASE Character(s)
  <2>1. i = 1 \/ i = Len(s) \/ i \in 2..(Len(s) - 1)
    BY <1>0
  <2> QED
    BY <1>9, <2>1 DEF Character
<1> QED
  BY <1>1, <1>2, <1>3, <1>4, <1>5, <1>6, <1>7, <1>8, <1>9 DEF Rule, Number

(* Counting on over a match.                                               *)
LEMMA NewlinesAdded ==
  ASSUME NEW n \in Nat, NEW k \in Nat
  PROVE  /\ Cardinality(Newlines(n)) <= Cardinality(Newlines(n + k))
         /\ (\A i \in 1..k : file[n + i] # "nl") => Newlines(n + k) = Newlines(n)
         /\ k = 1 /\ file[n + 1] = "nl" =>
              /\ Newlines(n + k) = Newlines(n) \cup {n + 1}
              /\ Cardinality(Newlines(n + k)) = Cardinality(Newlines(n)) + 1
<1>1. Newlines(n) \subseteq Newlines(n + k)
  BY DEF Newlines
<1>2. Cardinality(Newlines(n)) <= Cardinality(Newlines(n + k))
  BY <1>1, NewlinesCounted, FS_Subset
<1>3. ASSUME \A i \in 1..k : file[n + i] # "nl" PROVE Newlines(n + k) = Newlines(n)
  <2>1. ASSUME NEW i \in (n + 1)..(n + k) PROVE file[i] # "nl"
    <3>1. i - n \in 1..k /\ n + (i - n) = i
      OBVIOUS
    <3> QED
      BY <1>3, <3>1
  <2>2. \A i \in 1..(n + k) : i \in 1..n \/ i \in (n + 1)..(n + k)
    OBVIOUS
  <2> QED
    BY <1>1, <2>1, <2>2 DEF Newlines
<1>4. ASSUME k = 1, file[n + 1] = "nl"
      PROVE  /\ Newlines(n + k) = Newlines(n) \cup {n + 1}
             /\ Cardinality(Newlines(n + k)) = Cardinality(Newlines(n)) + 1
  <2>1. Newlines(n + k) = Newlines(n) \cup {n + 1}
    BY <1>4 DEF Newlines
  <2>2. n + 1 \notin Newlines(n)
    BY DEF Newlines
  <2>3. Cardinality(Newlines(n) \cup {n + 1}) = Cardinality(Newlines(n)) + 1
    BY <2>2, NewlinesCounted, FS_AddElement
  <2> QED
    BY <2>1, <2>3
<1> QED
  BY <1>2, <1>3, <1>4

(* Where the last line before a position begins.                           *)
LastOf(S) == IF S = {} THEN 0 ELSE CHOOSE i \in S : \A j \in S : j <= i

LineStart(n) == LastOf(Newlines(n))

Column(n) == n - LineStart(n) + (IF Newlines(n) = {} THEN 1 ELSE 0)

LEMMA PositionsAre ==
  PositionsAreThere <=>
    /\ opened = 0 /\ mode # "abort" =>
         /\ line = 1 + Cardinality(Newlines(at - 1 - Len(buf)))
         /\ col = Column(at - 1 - Len(buf))
    /\ clean => line <= 1 + Cardinality(Newlines(at - 1 - Len(buf)))
  BY DEF PositionsAreThere, Newlines, LastOf, LineStart, Column

LEMMA LineStartIsInt ==
  ASSUME NEW n \in Nat
  PROVE  LineStart(n) \in Int
<1>1. CASE Newlines(n) = {}
  BY <1>1 DEF LineStart, LastOf
<1>2. CASE Newlines(n) # {}
  <2> DEFINE Above == {u \in Nat : \A j \in Newlines(n) : j <= u}
  <2>1. n \in Above
    BY DEF Newlines
  <2>2. PICK m \in Above : \A u \in Above : m <= u
    <3>1. Above \in SUBSET Nat
      OBVIOUS
    <3> HIDE DEF Above
    <3> QED
      BY <2>1, <3>1, LeastOf
  <2>3. m \in Newlines(n)
    <3> SUFFICES ASSUME m \notin Newlines(n) PROVE FALSE
      OBVIOUS
    <3>1. PICK i \in Newlines(n) : TRUE
      BY <1>2
    <3>2. \A j \in Newlines(n) : j \in Nat /\ j >= 1 /\ j <= m /\ j # m
      BY DEF Newlines
    <3>3. m - 1 \in Above
      BY <3>1, <3>2
    <3> QED
      BY <2>2, <3>3
  <2>4. LineStart(n) \in Newlines(n)
    BY <1>2, <2>2, <2>3 DEF LineStart, LastOf
  <2> QED
    BY <2>4 DEF Newlines
<1> QED
  BY <1>1, <1>2

LEMMA LineStarts ==
  ASSUME NEW n \in Nat, file[n + 1] = "nl"
  PROVE  Column(n + 1) = 0
<1>1. Newlines(n + 1) = Newlines(n) \cup {n + 1}
  BY NewlinesAdded
<1>2. n + 1 \in Newlines(n + 1) /\ \A j \in Newlines(n + 1) : j \in Nat /\ j <= n + 1
  BY <1>1 DEF Newlines
<1>3. (CHOOSE i \in Newlines(n + 1) : \A j \in Newlines(n + 1) : j <= i) = n + 1
  <2>1. \A i \in Newlines(n + 1) : (\A j \in Newlines(n + 1) : j <= i) => i = n + 1
    BY <1>2
  <2> QED
    BY <1>2, <2>1
<1> QED
  BY <1>2, <1>3 DEF Column, LineStart, LastOf

LEMMA PositionsStay ==
  ASSUME TypeOK, TypeOK', Buffered, Buffered', PositionsAreThere, [Next]_vars
  PROVE  PositionsAreThere'
<1>0. /\ file \in Seq(Chars) /\ Len(file) \in Nat /\ at \in 1..(Len(file) + 1)
      /\ buf \in Seq(Chars) /\ Len(buf) \in Nat /\ line \in Nat /\ col \in Nat
      /\ opened \in Nat
  <2>1. file \in Seq(Chars)
    BY ScannerAssumption DEF TypeOK, InputOK
  <2> QED
    BY <2>1 DEF TypeOK, InputOK
<1> DEFINE n == at - 1 - Len(buf)
<1>1. clean => n \in Nat
  BY <1>0 DEF Buffered
<1>2. opened = 0 => clean /\ mode \notin {"comment", "stars"}
  BY DEF Buffered
<1>3. /\ opened = 0 /\ mode # "abort" =>
         /\ line = 1 + Cardinality(Newlines(n))
         /\ col = Column(n)
      /\ clean => line <= 1 + Cardinality(Newlines(n))
  BY PositionsAre
<1>4. file' = file
  BY DEF Next, Step, Get, Fill, Match, Wrap, CommentChar, CommentNul, Stopped, vars, input
<1>5. SUFFICES /\ opened' = 0 /\ mode' # "abort" =>
                  /\ line' = 1 + Cardinality(Newlines(at' - 1 - Len(buf')))
                  /\ col' = Column(at' - 1 - Len(buf'))
               /\ clean' => line' <= 1 + Cardinality(Newlines(at' - 1 - Len(buf')))
  BY <1>4 DEF PositionsAreThere, Newlines, LastOf, LineStart, Column
<1>6. CASE /\ UNCHANGED <<line, col, opened, clean>>
           /\ at' - 1 - Len(buf') = n
           /\ mode = "abort" => mode' = "abort"
  BY <1>3, <1>6
<1>7. CASE Fill
  <2>1. PICK b \in Seq(Chars) : b = BlockAt(at)
    BY <1>0, BlockIsText DEF TypeOK
  <2>2. buf' = buf \o b /\ at' = at + Len(b)
    BY <1>7, <2>1 DEF Fill
  <2>3. at' - 1 - Len(buf') = n
    BY <1>0, <2>1, <2>2
  <2> QED
    BY <1>6, <1>7, <2>3 DEF Fill
<1>8. CASE Match
  <2> DEFINE k    == Longest(buf)
             text == SubSeq(buf, 1, k)
  <2>1. /\ k \in 1..Len(buf) /\ text \in Seq(Chars) /\ Len(text) = k
        /\ \A i \in 1..k : text[i] = buf[i]
        /\ buf' \in Seq(Chars) /\ Len(buf') = Len(buf) - k
        /\ Rule(text) # "none"
    BY <1>8, MatchSplits
  <2>2. /\ at' = at /\ mode = "match" /\ Count(text)
        /\ clean' => clean
        /\ opened' = 0 => opened = 0
        /\ Rule(text) = "STRING_LITERAL" => mode' = "abort"
    <3>1. at # 0
      BY <1>0
    <3>2. /\ at' = at /\ mode = "match" /\ Count(text)
          /\ Rule(text) = "STRING_LITERAL" => mode' = "abort"
      BY <1>8, MatchCases
    <3>3. \/ UNCHANGED <<opened, clean>>
          \/ opened' = at /\ clean' = (clean /\ buf' = <<>>)
      BY <1>8, MatchCases
    <3>4. clean' => clean
      BY <3>3
    <3> QED
      BY <3>1, <3>2, <3>3, <3>4
  <2> HIDE DEF text, k
  <2>3. at' - 1 - Len(buf') = n + k /\ k \in Nat
    BY <1>0, <2>1, <2>2
  <2>4. clean => \A i \in 1..k : file[n + i] = text[i]
    <3>1. SUFFICES ASSUME clean, NEW i \in 1..k PROVE file[n + i] = text[i]
      OBVIOUS
    <3>2. i \in 1..Len(buf)
      BY <1>0, <2>1
    <3> QED
      BY <2>1, <3>1, <3>2 DEF Buffered
  <2>5. /\ text = <<"nl">> => line' = line + 1 /\ col' = 0 /\ k = 1 /\ text[1] = "nl"
        /\ text # <<"nl">> => line' = line /\ col' = col + k
    <3>1. text = <<"nl">> => k = 1 /\ text[1] = "nl"
      BY <2>1
    <3> QED
      BY <2>2, <2>1, <3>1 DEF Count
  <2>6. ASSUME clean, text = <<"nl">>
        PROVE  /\ line' = line + 1 /\ col' = 0
               /\ Cardinality(Newlines(n + k)) = Cardinality(Newlines(n)) + 1
               /\ Column(n + k) = 0
    <3>1. n \in Nat /\ k = 1 /\ file[n + 1] = "nl"
      BY <1>1, <2>4, <2>5, <2>6
    <3> HIDE DEF n
    <3> QED
      BY <2>5, <2>6, <3>1, NewlinesAdded, LineStarts
  <2>7. ASSUME clean, text # <<"nl">>, Rule(text) # "STRING_LITERAL"
        PROVE  Newlines(n + k) = Newlines(n)
    <3>1. \A i \in 1..k : text[i] # "nl"
      BY <2>1, <2>7, NoNewline
    <3>2. n \in Nat /\ \A i \in 1..k : file[n + i] # "nl"
      BY <1>1, <2>4, <2>7, <3>1
    <3> HIDE DEF n
    <3> QED
      BY <2>3, <3>2, NewlinesAdded
  <2>8. clean => Cardinality(Newlines(n)) <= Cardinality(Newlines(n + k))
    <3> HIDE DEF n
    <3> QED
      BY <1>1, <2>3, NewlinesAdded
  <2>9. clean => n \in Nat /\ Cardinality(Newlines(n)) \in Nat /\ Cardinality(Newlines(n + k)) \in Nat
    <3> HIDE DEF n
    <3>1. clean => n \in Nat /\ n + k \in Nat
      BY <1>1, <2>3
    <3> QED
      BY <3>1, NewlinesCounted
  <2> HIDE DEF n
  <2>10. ASSUME opened' = 0, mode' # "abort"
         PROVE  line' = 1 + Cardinality(Newlines(n + k)) /\ col' = Column(n + k)
    <3>1. clean /\ line = 1 + Cardinality(Newlines(n)) /\ col = Column(n)
      BY <1>2, <1>3, <2>2, <2>10 DEF n
    <3>2. CASE text = <<"nl">>
      BY <1>0, <2>6, <2>9, <3>1, <3>2
    <3>3. CASE text # <<"nl">>
      <4>1. Newlines(n + k) = Newlines(n)
        BY <2>2, <2>7, <2>10, <3>1, <3>3
      <4>2. LineStart(n + k) = LineStart(n)
        BY <4>1 DEF LineStart
      <4>3. LineStart(n) \in Int
        BY <2>9, <3>1, LineStartIsInt
      <4>4. Column(n + k) = Column(n) + k
        BY <2>3, <2>9, <3>1, <4>1, <4>2, <4>3 DEF Column
      <4> QED
        BY <2>5, <3>1, <3>3, <4>1, <4>4
    <3> QED
      BY <3>2, <3>3
  <2>11. ASSUME clean' PROVE line' <= 1 + Cardinality(Newlines(n + k))
    <3>1. clean /\ line <= 1 + Cardinality(Newlines(n))
      BY <1>3, <2>2, <2>11 DEF n
    <3>2. CASE text = <<"nl">>
      BY <1>0, <2>6, <2>9, <3>1, <3>2
    <3>3. CASE text # <<"nl">>
      BY <1>0, <2>5, <2>8, <2>9, <3>1, <3>3
    <3> QED
      BY <3>2, <3>3
  <2> QED
    BY <2>3, <2>10, <2>11
<1>9. CASE CommentChar
  <2>1. /\ mode \in {"comment", "stars"} /\ UNCHANGED <<line, buf, opened, clean>>
        /\ at' = Next1
    BY <1>9 DEF CommentChar
  <2>2. opened' # 0
    BY <1>2, <2>1
  <2>3. ASSUME clean' PROVE line' <= 1 + Cardinality(Newlines(at' - 1 - Len(buf')))
    <3>1. clean /\ n \in Nat /\ line <= 1 + Cardinality(Newlines(n))
      BY <1>1, <1>3, <2>1, <2>3
    <3>2. at' - 1 - Len(buf') = n \/ at' - 1 - Len(buf') = n + 1
      BY <1>0, <2>1 DEF Next1
    <3> HIDE DEF n
    <3>3. /\ Cardinality(Newlines(n)) \in Nat /\ Cardinality(Newlines(n + 1)) \in Nat
          /\ Cardinality(Newlines(n)) <= Cardinality(Newlines(n + 1))
      BY <3>1, NewlinesCounted, NewlinesAdded
    <3> QED
      BY <1>0, <2>1, <3>1, <3>2, <3>3
  <2> QED
    BY <2>2, <2>3
<1>10. CASE CommentNul
  <2>1. clean' = FALSE /\ opened' = opened /\ opened # 0
    BY <1>2, <1>10 DEF CommentNul
  <2> QED
    BY <2>1
<1>11. CASE Get \/ Wrap \/ Stopped \/ UNCHANGED vars
  <2>1. /\ UNCHANGED <<line, col, opened, clean, at, buf>>
        /\ mode = "abort" => mode' = "abort"
    BY <1>11 DEF Get, Wrap, AtEnd, Stopped, vars, input
  <2> QED
    BY <1>6, <2>1
<1> QED
  BY <1>7, <1>8, <1>9, <1>10, <1>11 DEF Next, Step

(* Reports point to what was scanned last, line and column, as long as no  *)
(* comment was read, and to no line behind it afterwards (expr.lxx:44-52,  *)
(* 94-96).                                                                 *)
THEOREM PositionsStand == Spec => []PositionsAreThere
<1>1. Init => PositionsAreThere
  <2> SUFFICES ASSUME Init PROVE PositionsAreThere
    OBVIOUS
  <2>a. at = 1 /\ buf = <<>> /\ line = 1 /\ col = 1 /\ Len(<<>>) = 0
    BY DEF Init
  <2>b. Len(buf) = 0
    BY <2>a
  <2>c. at = 1
    BY <2>a
  <2>d. at - 1 - Len(buf) = 0
    BY <2>b, <2>c
  <2>1. at - 1 - Len(buf) = 0 /\ line = 1 /\ col = 1
    BY <2>a, <2>d
  <2>2. Newlines(0) = {}
    BY DEF Newlines
  <2>3. Cardinality(Newlines(0)) = 0
    BY <2>2, FS_EmptySet
  <2>4. Column(0) = 1
    BY <2>2 DEF Column, LineStart, LastOf
  <2> QED
    BY <2>1, <2>3, <2>4, PositionsAre
<1>2. TypeOK /\ TypeOK' /\ Buffered /\ Buffered' /\ PositionsAreThere /\ [Next]_vars
      => PositionsAreThere'
  BY PositionsStay
<1>3. ReadInv => Buffered
  BY DEF ReadInv
<1> QED
  BY <1>1, <1>2, <1>3, TypeCorrect, ReadsOn, PTL DEF Spec
-----------------------------------------------------------------------------
(* What a digit adds to the value of those in front of it.                 *)
Plus(digits, base, n, v) == base * v + (IF digits[n] = "1" THEN 1 ELSE 0)

ValuesTo(digits, base, m) ==
  {f \in [0..m -> Nat] : \A n \in 0..m :
     f[n] = IF n = 0 THEN 0 ELSE Plus(digits, base, n, f[n - 1])}

LEMMA PlusIsNat ==
  ASSUME NEW digits, NEW base \in Nat, NEW n, NEW v \in Nat
  PROVE  Plus(digits, base, n, v) \in Nat
<1>1. base * v \in Nat
  OBVIOUS
<1> QED
  BY <1>1 DEF Plus

LEMMA ValuesThere ==
  ASSUME NEW digits, NEW base \in Nat, NEW m \in Nat
  PROVE  ValuesTo(digits, base, m) # {}
<1> DEFINE S == {k \in Nat : ValuesTo(digits, base, k) # {}}
<1>1. 0 \in S
  <2> DEFINE f == [n \in 0..0 |-> 0]
  <2>1. f \in [0..0 -> Nat] /\ \A n \in 0..0 : n = 0 /\ f[n] = 0
    OBVIOUS
  <2> HIDE DEF f
  <2>2. f \in ValuesTo(digits, base, 0)
    BY <2>1 DEF ValuesTo
  <2> QED
    BY <2>2
<1>2. ASSUME NEW k \in S PROVE k + 1 \in S
  <2>1. PICK f \in ValuesTo(digits, base, k) : TRUE
    OBVIOUS
  <2>2. /\ k \in Nat /\ f \in [0..k -> Nat]
        /\ \A n \in 0..k : f[n] = IF n = 0 THEN 0 ELSE Plus(digits, base, n, f[n - 1])
    BY <2>1 DEF ValuesTo
  <2>3. f[k] \in Nat
    BY <2>2
  <2> DEFINE g == [n \in 0..(k + 1) |->
                     IF n = k + 1 THEN Plus(digits, base, k + 1, f[k]) ELSE f[n]]
  <2>4. \A n \in 0..(k + 1) : n = k + 1 \/ (n \in 0..k /\ n # k + 1)
    BY <2>2
  <2>5. /\ g[k + 1] = Plus(digits, base, k + 1, f[k])
        /\ \A n \in 0..k : n \in 0..(k + 1) /\ g[n] = f[n]
    BY <2>2
  <2>6. g = [n \in 0..(k + 1) |-> g[n]]
    OBVIOUS
  <2> HIDE DEF g
  <2>7. \A n \in 0..(k + 1) : g[n] \in Nat
    <3>1. g[k + 1] \in Nat
      BY <2>3, <2>5, PlusIsNat
    <3> QED
      BY <2>2, <2>4, <2>5, <3>1
  <2>8. \A n \in 0..(k + 1) : g[n] = IF n = 0 THEN 0 ELSE Plus(digits, base, n, g[n - 1])
    <3> TAKE n \in 0..(k + 1)
    <3>1. CASE n = k + 1
      <4>1. n # 0 /\ n - 1 = k /\ k \in 0..k
        BY <2>2, <3>1
      <4> QED
        BY <2>5, <3>1, <4>1
    <3>2. CASE n \in 0..k /\ n # 0
      <4>1. n - 1 \in 0..k
        BY <2>2, <3>2
      <4> QED
        BY <2>2, <2>5, <3>2, <4>1
    <3>3. CASE n = 0
      BY <2>2, <2>5, <3>3
    <3> QED
      BY <2>4, <3>1, <3>2, <3>3
  <2>9. g \in ValuesTo(digits, base, k + 1)
    BY <2>6, <2>7, <2>8 DEF ValuesTo
  <2> QED
    BY <2>2, <2>9
<1>3. S \in SUBSET Nat
  OBVIOUS
<1> HIDE DEF S
<1>4. m \in S
  BY <1>1, <1>2, <1>3, Induction
<1> QED
  BY <1>4 DEF S

(* The value of digits is a number, that of a zero is 0.                   *)
LEMMA ValueIs ==
  ASSUME NEW digits \in Seq(Chars), NEW base \in Nat
  PROVE  /\ ValueOf(digits, base) \in Nat
         /\ Len(digits) = 1 /\ digits[1] = "0" => ValueOf(digits, base) = 0
<1> DEFINE L == Len(digits)
           Values(f) == f = [n \in 0..L |->
                               IF n = 0 THEN 0
                               ELSE base * f[n - 1] + (IF digits[n] = "1" THEN 1 ELSE 0)]
<1>0. L \in Nat
  OBVIOUS
<1>1. \E f : Values(f)
  <2>1. PICK f \in ValuesTo(digits, base, L) : TRUE
    BY <1>0, ValuesThere
  <2>2. /\ f \in [0..L -> Nat]
        /\ \A n \in 0..L : f[n] = IF n = 0 THEN 0 ELSE Plus(digits, base, n, f[n - 1])
    BY <2>1 DEF ValuesTo
  <2>3. f = [n \in 0..L |-> f[n]]
    BY <2>2
  <2>4. f = [n \in 0..L |-> IF n = 0 THEN 0 ELSE Plus(digits, base, n, f[n - 1])]
    BY <2>2, <2>3
  <2>5. Values(f)
    BY <2>4 DEF Plus
  <2> QED
    BY <2>5
<1>2. \E v : Values(v) /\ ValueOf(digits, base) = v[L]
  BY <1>1 DEF ValueOf
<1>3. PICK v : Values(v) /\ ValueOf(digits, base) = v[L]
  BY <1>2
<1>4. \A n \in 0..L : v[n] = IF n = 0 THEN 0 ELSE Plus(digits, base, n, v[n - 1])
  <2>1. v = [n \in 0..L |-> IF n = 0 THEN 0 ELSE Plus(digits, base, n, v[n - 1])]
    BY <1>3 DEF Plus
  <2> QED
    BY <2>1
<1> DEFINE S == {n \in Nat : n > L \/ v[n] \in Nat}
<1>5. 0 \in S
  BY <1>0, <1>4
<1>6. ASSUME NEW n \in S PROVE n + 1 \in S
  <2>1. CASE n + 1 > L
    BY <2>1
  <2>2. CASE n + 1 <= L
    <3>1. n + 1 \in 0..L /\ n + 1 # 0 /\ (n + 1) - 1 = n /\ v[n] \in Nat
      BY <1>0, <2>2
    <3>2. v[n + 1] = Plus(digits, base, n + 1, v[n])
      BY <1>4, <3>1
    <3>3. v[n + 1] \in Nat
      BY <3>1, <3>2, PlusIsNat
    <3> QED
      BY <3>3
  <2> QED
    BY <1>0, <2>1, <2>2
<1>7. L \in S
  <2>1. S \in SUBSET Nat
    OBVIOUS
  <2> HIDE DEF S
  <2> QED
    BY <1>0, <1>5, <1>6, <2>1, Induction
<1>8. v[L] \in Nat
  BY <1>0, <1>7
<1>9. ASSUME L = 1, digits[1] = "0" PROVE v[L] = 0
  <2>1. v[1] = Plus(digits, base, 1, v[0]) /\ v[0] = 0
    <3>1. 1 \in 0..L /\ 0 \in 0..L /\ 1 # 0 /\ 1 - 1 = 0
      BY <1>9
    <3> QED
      BY <1>4, <3>1
  <2>2. base * 0 = 0
    OBVIOUS
  <2>3. Plus(digits, base, 1, 0) = 0
    BY <1>9, <2>2 DEF Plus
  <2> QED
    BY <1>9, <2>1, <2>3
<1> QED
  BY <1>3, <1>8, <1>9

LEMMA ValueOfNone == ValueOf(<<>>, 10) = 0
<1> DEFINE value == [n \in 0..0 |-> 0]
           Values(f) == f = [n \in 0..Len(<<>>) |->
                               IF n = 0 THEN 0
                               ELSE 10 * f[n - 1] + (IF <<>>[n] = "1" THEN 1 ELSE 0)]
<1>1. Values(value) /\ Len(<<>>) = 0
  OBVIOUS
<1>2. \E v : Values(v) /\ ValueOf(<<>>, 10) = v[Len(<<>>)]
  BY <1>1 DEF ValueOf
<1>3. PICK v : Values(v) /\ ValueOf(<<>>, 10) = v[0]
  BY <1>1, <1>2
<1>4. v[0] = 0
  BY <1>3
<1> QED
  BY <1>3, <1>4

(* What strtol makes of a text that is all digits: its value, if a long    *)
(* can hold that, and an int that can hold it keeps it.                    *)
LEMMA DigitsConverted ==
  ASSUME NEW s \in Seq(Chars), AllIn(s, Digits), ValueOf(s, 10) <= IntMax
  PROVE  Converted(s) = ValueOf(s, 10)
<1> DEFINE v == ValueOf(s, 10)
           P(k) == AllIn(SubSeq(s, 1, k), Digits) /\ (k = Len(s) \/ s[k + 1] \notin Digits)
           n == CHOOSE k \in 0..Len(s) : P(k)
<1>0. /\ v \in Nat /\ Len(s) \in Nat /\ DOMAIN s = 1..Len(s)
      /\ IntMax \in Nat /\ LongMax \in Nat /\ LongMax >= IntMax
  BY ValueIs, ScannerAssumption
<1>1. SubSeq(s, 1, Len(s)) = s
  OBVIOUS
<1>2. Len(s) \in 0..Len(s) /\ P(Len(s))
  <2>1. AllIn(SubSeq(s, 1, Len(s)), Digits)
    BY <1>1
  <2>2. Len(s) \in 0..Len(s)
    BY <1>0
  <2> QED
    BY <2>1, <2>2
<1>3. \A k \in 0..Len(s) : P(k) => k = Len(s)
  <2> TAKE k \in 0..Len(s)
  <2>1. k = Len(s) \/ k + 1 \in DOMAIN s
    <3>1. PICK m \in Nat : m = Len(s)
      BY <1>0
    <3>2. k \in 0..m /\ (k = m \/ k + 1 \in 1..m)
      BY <3>1
    <3> QED
      BY <1>0, <3>1, <3>2
  <2>2. k + 1 \in DOMAIN s => s[k + 1] \in Digits
    BY DEF AllIn
  <2> QED
    BY <2>1, <2>2
<1> HIDE DEF P
<1>4. n = Len(s)
  BY <1>2, <1>3
<1>5. StrToL(s, 10) = LET value == ValueOf(SubSeq(s, 1, n), 10)
                      IN IF value \in 0..LongMax THEN value ELSE LongMax
  BY DEF StrToL, P
<1> HIDE DEF n
<1>6. StrToL(s, 10) = IF v \in 0..LongMax THEN v ELSE LongMax
  BY <1>1, <1>4, <1>5
<1> HIDE DEF v
<1>7. v <= IntMax
  BY DEF v
<1>8. StrToL(s, 10) = v
  BY <1>0, <1>6, <1>7
<1>9. v % (2 * IntMax + 2) = v
  BY <1>0, <1>7
<1>10. ToInt(v) = v
  BY <1>7, <1>9 DEF ToInt
<1> QED
  BY <1>8, <1>10 DEF Converted, v

(* Where a text begins with no digit, strtol finds 0.                      *)
LEMMA NoDigitIsZero ==
  ASSUME NEW s \in Seq(Chars), s # <<>>, s[1] \notin Digits
  PROVE  Converted(s) = 0
<1> DEFINE P(k) == AllIn(SubSeq(s, 1, k), Digits) /\ (k = Len(s) \/ s[k + 1] \notin Digits)
           n == CHOOSE k \in 0..Len(s) : P(k)
<1>0. Len(s) \in Nat /\ Len(s) >= 1 /\ IntMax \in Nat /\ LongMax \in Nat
  BY ScannerAssumption
<1>1. SubSeq(s, 1, 0) = <<>>
  BY <1>0
<1>2. 0 \in 0..Len(s) /\ P(0)
  BY <1>0, <1>1 DEF AllIn
<1>3. \A k \in 0..Len(s) : P(k) => k = 0
  <2> TAKE k \in 0..Len(s)
  <2>1. CASE k > 0
    <3>1. k \in 1..Len(s)
      BY <1>0, <2>1
    <3>2. 1 \in DOMAIN SubSeq(s, 1, k) /\ SubSeq(s, 1, k)[1] = s[1]
      BY <1>0, <3>1
    <3>3. ~AllIn(SubSeq(s, 1, k), Digits)
      BY <3>2 DEF AllIn
    <3> QED
      BY <3>3
  <2> QED
    BY <1>0, <2>1
<1> HIDE DEF P
<1>4. n = 0
  BY <1>2, <1>3
<1>5. StrToL(s, 10) = LET value == ValueOf(SubSeq(s, 1, n), 10)
                      IN IF value \in 0..LongMax THEN value ELSE LongMax
  BY DEF StrToL, P
<1> HIDE DEF n
<1>6. ValueOf(<<>>, 10) = 0
  BY ValueOfNone
<1>7. StrToL(s, 10) = 0
  <2>1. ValueOf(SubSeq(s, 1, n), 10) = 0
    BY <1>1, <1>4, <1>6
  <2>2. 0 \in 0..LongMax
    BY <1>0
  <2> QED
    BY <1>5, <2>1, <2>2
<1>8. 0 % (2 * IntMax + 2) = 0
  BY <1>0
<1>9. ToInt(0) = 0
  BY <1>0, <1>8 DEF ToInt
<1> QED
  BY <1>7, <1>9 DEF Converted

(* A character constant is 0.  Another integer constant without a prefix   *)
(* has the value it says, unless that is too large for an int              *)
(* (scanner.cc:62-69).                                                     *)
THEOREM ConstantsAreExact == Spec => []ConstantsExact
<1>1. TypeOK /\ ReadInv => ConstantsExact
  <2> SUFFICES ASSUME TypeOK, ReadInv, NEW i \in DOMAIN heap,
                      heap[i].id = "I_CONSTANT"
               PROVE  /\ heap[i].text[1] = "apos" => heap[i].value = 0
                      /\ heap[i].text[1] # "apos" /\ heap[i].value # Denotes(heap[i].text)
                           => \/ heap[i].text[1] = "0" /\ Len(heap[i].text) > 1
                              \/ Denotes(heap[i].text) > IntMax
    BY DEF ConstantsExact
  <2>0. /\ heap[i].text \in Seq(Chars) /\ heap[i].text # <<>>
        /\ Kind(heap[i].text) = "I_CONSTANT"
        /\ heap[i].value = Converted(heap[i].text)
    BY DEF ReadInv, Made
  <2>a. heap[i].text[1] = "apos" => heap[i].value = 0
    BY <2>0, NoDigitIsZero DEF Digits
  <2> SUFFICES ASSUME heap[i].text[1] # "apos",
                      heap[i].value # Denotes(heap[i].text),
                      ~(heap[i].text[1] = "0" /\ Len(heap[i].text) > 1)
               PROVE  Denotes(heap[i].text) > IntMax
    BY <2>a
  <2>1. PICK s : s = heap[i].text
    OBVIOUS
  <2>2. /\ s \in Seq(Chars) /\ s # <<>> /\ Rule(s) = "I_CONSTANT"
        /\ heap[i].value = Converted(s)
    BY <2>0, <2>1 DEF Kind
  <2>3. ~(s[1] = "0" /\ Len(s) > 1) /\ Converted(s) # Denotes(s)
    BY <2>1, <2>2
  <2>4. ~Hexadecimal(s)
    BY <2>2, <2>3 DEF Hexadecimal
  <2>5. AllIn(s, Digits)
    <3>1. ~Character(s)
      BY <2>1 DEF Character
    <3> QED
      BY <2>2, <2>4, <3>1 DEF Rule, Number
  <2>6. ValueOf(s, 10) \in Nat /\ IntMax \in Nat
    BY <2>2, ValueIs, ScannerAssumption
  <2>7. CASE s[1] # "0"
    <3>1. Denotes(s) = ValueOf(s, 10)
      BY <2>4, <2>7 DEF Denotes
    <3>2. ~(ValueOf(s, 10) <= IntMax)
      BY <2>2, <2>3, <2>5, <3>1, DigitsConverted
    <3> QED
      BY <2>1, <2>6, <3>1, <3>2
  <2>8. CASE s[1] = "0"
    <3>1. Len(s) = 1
      <4>1. Len(s) \in Nat /\ Len(s) # 0
        BY <2>2
      <4>2. ~(Len(s) > 1)
        BY <2>3, <2>8
      <4>3. PICK m \in Nat : m = Len(s)
        BY <4>1
      <4>4. m = 1
        BY <4>1, <4>2, <4>3
      <4> QED
        BY <4>3, <4>4
    <3>2. ValueOf(s, 8) = 0 /\ ValueOf(s, 10) = 0
      BY <2>2, <2>8, <3>1, ValueIs
    <3>3. Denotes(s) = ValueOf(s, 8)
      BY <2>4, <2>8 DEF Denotes
    <3>4. Converted(s) = ValueOf(s, 10)
      BY <2>2, <2>5, <2>6, <3>2, DigitsConverted
    <3> QED
      BY <2>3, <3>2, <3>3, <3>4
  <2> QED
    BY <2>7, <2>8
<1> QED
  BY <1>1, TypeCorrect, ReadsOn, PTL
=============================================================================
