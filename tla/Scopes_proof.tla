---------------------------- MODULE Scopes_proof ----------------------------
(***************************************************************************)
(* Lemmas about stacks of tables, for every set of values V in them.       *)
(***************************************************************************)
EXTENDS Scopes, WellFoundedInduction, TLAPS

(* What pushing, popping and adding do to a non-empty stack of tables.     *)
LEMMA EnteredStack ==
  ASSUME NEW V, NEW stk \in Seq(Tables(V)), Len(stk) >= 1
  PROVE  /\ Entered(stk) \in Seq(Tables(V))
         /\ Len(Entered(stk)) = Len(stk) + 1
         /\ \A i \in 1..Len(stk) : Entered(stk)[i] = stk[i]
         /\ Entered(stk)[Len(stk) + 1] = EmptyTable
<1>1. EmptyTable \in Tables(V)
  BY DEF EmptyTable, Tables
<1> QED
  BY <1>1 DEF Entered

LEMMA ExitedStack ==
  ASSUME NEW V, NEW stk \in Seq(Tables(V)), Len(stk) >= 2
  PROVE  /\ Exited(stk) \in Seq(Tables(V))
         /\ Len(Exited(stk)) = Len(stk) - 1
         /\ \A i \in 1..(Len(stk) - 1) : Exited(stk)[i] = stk[i]
  BY DEF Exited, Front

LEMMA AddedStack ==
  ASSUME NEW V, NEW stk \in Seq(Tables(V)), Len(stk) >= 1,
         NEW k \in Kinds, NEW n \in Idents, NEW v \in V
  PROVE  /\ Added(stk, k, n, v) \in Seq(Tables(V))
         /\ Len(Added(stk, k, n, v)) = Len(stk)
         /\ \A i \in 1..(Len(stk) - 1) : Added(stk, k, n, v)[i] = stk[i]
         /\ \A j \in Kinds, m \in Idents :
              stk[Len(stk)][j][m] # Null \/ j # k \/ m # n
                => Added(stk, k, n, v)[Len(stk)][j][m] = stk[Len(stk)][j][m]
         /\ stk[Len(stk)][k][n] = Null
              => Added(stk, k, n, v)[Len(stk)][k][n] = v
<1> DEFINE top == stk[Len(stk)]
           new == [top EXCEPT ![k][n] = v]
<1>1. top \in Tables(V)
  OBVIOUS
<1>2. new \in Tables(V)
  BY <1>1 DEF Tables
<1>3. CASE top[k][n] # Null
  BY <1>3 DEF Added
<1>4. CASE top[k][n] = Null
  <2>1. Added(stk, k, n, v) = [stk EXCEPT ![Len(stk)] = new]
    BY <1>4 DEF Added
  <2>2. \A j \in Kinds, m \in Idents :
          new[j][m] = IF j = k /\ m = n THEN v ELSE top[j][m]
    BY <1>1 DEF Tables
  <2>3. Added(stk, k, n, v)[Len(stk)] = new
    BY <2>1
  <2> HIDE DEF new
  <2>4. /\ Added(stk, k, n, v) \in Seq(Tables(V))
        /\ Len(Added(stk, k, n, v)) = Len(stk)
        /\ \A i \in 1..(Len(stk) - 1) : Added(stk, k, n, v)[i] = stk[i]
    BY <1>2, <2>1
  <2> QED
    BY <1>4, <2>2, <2>3, <2>4
<1> QED
  BY <1>3, <1>4
-----------------------------------------------------------------------------
(* A non-empty set of levels has a highest one, which is what Max denotes. *)
LEMMA LeastNatural ==
  ASSUME NEW T, T \subseteq Nat, T # {}
  PROVE  \E x \in T : \A y \in T : x <= y
<1> DEFINE R == OpToRel(<, Nat)
<1>1. PICK x \in T : \A y \in T : ~(<<y, x>> \in R)
  <2>1. IsWellFoundedOn(R, Nat)
    BY NatLessThanWellFounded
  <2> HIDE DEF R
  <2> QED
    BY <2>1, WFMin
<1>2. \A y \in T : ~(y < x)
  BY <1>1 DEF OpToRel
<1> QED
  BY <1>2

LEMMA Highest ==
  ASSUME NEW n \in Nat, NEW H, H \subseteq 1..n, H # {}
  PROVE  Max(H) \in H /\ \A j \in H : j <= Max(H)
<1> DEFINE U == {u \in Nat : \A h \in H : h <= u}
<1>1. PICK m \in U : \A u \in U : m <= u
  <2>1. n \in U
    OBVIOUS
  <2> QED
    BY <2>1, LeastNatural
<1>2. m \in H
  <2> SUFFICES ASSUME m \notin H PROVE FALSE
    OBVIOUS
  <2>0. PICK h : h \in H
    OBVIOUS
  <2>1. h \in 1..n
    BY <2>0
  <2>2. m \in Nat /\ \A g \in H : g <= m /\ g # m
    BY <1>1
  <2>3. \A g \in H : g <= m - 1
    BY <2>2
  <2>4. m - 1 \in U
    BY <2>0, <2>1, <2>2, <2>3
  <2> QED
    BY <2>2, <2>4, <1>1
<1> QED
  BY <1>1, <1>2 DEF Max
-----------------------------------------------------------------------------
(* A lookup that starts at level lvl sees only the tables up to that level *)
(* and answers from the nearest one that has the name.                     *)
LEMMA LookupIsLocal ==
  ASSUME NEW s, NEW t, NEW lvl \in Nat, \A i \in 1..lvl : s[i] = t[i],
         NEW k \in Kinds, NEW n \in Idents
  PROVE  FindFrom(s, lvl, k, n) = FindFrom(t, lvl, k, n)
<1>1. Holders(s, lvl, k, n) = Holders(t, lvl, k, n)
  BY DEF Holders
<1>2. Holders(s, lvl, k, n) \subseteq 1..lvl
  BY DEF Holders
<1>3. CASE Holders(s, lvl, k, n) = {}
  BY <1>1, <1>3 DEF FindFrom
<1>4. CASE Holders(s, lvl, k, n) # {}
  <2>1. Max(Holders(s, lvl, k, n)) \in 1..lvl
    BY <1>2, <1>4, Highest
  <2> QED
    BY <1>1, <1>4, <2>1 DEF FindFrom
<1> QED
  BY <1>3, <1>4

LEMMA LookupInTop ==
  ASSUME NEW s, NEW lvl \in Nat, lvl >= 1,
         NEW k \in Kinds, NEW n \in Idents, s[lvl][k][n] # Null
  PROVE  FindFrom(s, lvl, k, n) = s[lvl][k][n]
<1> DEFINE H == Holders(s, lvl, k, n)
<1>1. H \subseteq 1..lvl /\ lvl \in H
  BY DEF Holders
<1>2. Max(H) \in H /\ \A j \in H : j <= Max(H)
  <2> HIDE DEF H
  <2> QED
    BY <1>1, Highest
<1>3. Max(H) = lvl
  <2>1. PICK m \in 1..lvl : m = Max(H)
    BY <1>1, <1>2
  <2> HIDE DEF H
  <2> QED
    BY <1>1, <1>2, <2>1
<1> QED
  BY <1>1, <1>3 DEF FindFrom

LEMMA LookupBelowTop ==
  ASSUME NEW s, NEW lvl \in Nat,
         NEW k \in Kinds, NEW n \in Idents, s[lvl + 1][k][n] = Null
  PROVE  FindFrom(s, lvl + 1, k, n) = FindFrom(s, lvl, k, n)
<1>1. Holders(s, lvl + 1, k, n) = Holders(s, lvl, k, n)
  BY DEF Holders
<1> QED
  BY <1>1 DEF FindFrom

(* What is found is a value.                                               *)
LEMMA FoundIsValue ==
  ASSUME NEW V, NEW stk \in Seq(Tables(V)), Len(stk) >= 1,
         NEW k \in Kinds, NEW n \in Idents
  PROVE  Find(stk, k, n) \in V \cup {Null}
<1> DEFINE H == Holders(stk, Len(stk), k, n)
<1>1. CASE H = {}
  BY <1>1 DEF Find, FindFrom
<1>2. CASE H # {}
  <2>1. Len(stk) \in Nat /\ H \subseteq 1..Len(stk)
    BY DEF Holders
  <2>2. Max(H) \in 1..Len(stk)
    <3> HIDE DEF H
    <3> QED
      BY <1>2, <2>1, Highest
  <2>3. stk[Max(H)] \in Tables(V)
    <3> HIDE DEF H
    <3> QED
      BY <2>2
  <2>4. stk[Max(H)][k][n] \in V \cup {Null}
    <3> HIDE DEF H
    <3> QED
      BY <2>3 DEF Tables
  <2> QED
    BY <1>2, <2>4 DEF Find, FindFrom
<1> QED
  BY <1>1, <1>2
=============================================================================
