----------------------------- MODULE FoldProofs -----------------------------
(***************************************************************************)
(* Induction over what a loop has read.  FoldLeft is defined by recursion  *)
(* over sets of positions, whose existence the first lemmas establish; a   *)
(* fold over a sequence then has a trace, the values of its accumulator,   *)
(* over which a property of the loop is proved by induction.               *)
(***************************************************************************)
EXTENDS SequencesExt, SequenceTheorems, WellFoundedInduction, TLAPS

(* Induction over the natural numbers, for a set instead of a predicate.   *)
LEMMA NatSet ==
  ASSUME NEW S, 0 \in S, \A n \in Nat : n \in S => n + 1 \in S
  PROVE  Nat \subseteq S
<1> DEFINE T == Nat \ S
<1> SUFFICES ASSUME T # {} PROVE FALSE
  OBVIOUS
<1>1. PICK x \in T : \A y \in T : ~(<<y, x>> \in OpToRel(<, Nat))
  <2> HIDE DEF T
  <2>1. T \subseteq Nat BY DEF T
  <2> QED BY <2>1, NatLessThanWellFounded, WFMin
<1>2. x # 0 /\ x - 1 \in Nat 
  OBVIOUS
<1>3. ASSUME x - 1 \in T PROVE FALSE
  <2>1. <<x - 1, x>> \in OpToRel(<, Nat)
    BY <1>2 DEF OpToRel
  <2> QED BY <1>1, <1>3, <2>1
<1>4. x - 1 \in S
  BY <1>2, <1>3
<1>5. (x - 1) + 1 = x
  OBVIOUS
<1> QED BY <1>2, <1>4, <1>5


(* A set of numbers below a bound has a largest element, which Max finds.  *)
LEMMA MaxOf ==
  ASSUME NEW n \in Nat, NEW t \in SUBSET (0..n), t # {}
  PROVE  Max(t) \in t /\ \A y \in t : y =< Max(t)
<1> DEFINE Has(u) == \E x \in u : \A y \in u : x >= y
<1> DEFINE S == {m \in Nat : \A u \in SUBSET (0..m) : u # {} => Has(u)}
<1>1. 0 \in S
  <2>0. \A x \in 0..0 : x = 0
    OBVIOUS
  <2>1. \A u \in SUBSET (0..0) : u # {} => u = {0}
    BY <2>0, Zenon
  <2>2. Has({0})
    OBVIOUS
  <2> HIDE DEF Has
  <2> QED BY <2>1, <2>2
<1>2. ASSUME NEW m \in Nat, m \in S PROVE m + 1 \in S
  <2> SUFFICES ASSUME NEW u \in SUBSET (0..(m + 1)), u # {}
               PROVE  Has(u)
    OBVIOUS
  <2>1. CASE m + 1 \in u
    BY <2>1
  <2>2. CASE m + 1 \notin u
    <3>1. u \in SUBSET (0..m)
      BY <2>2
    <3> QED BY <1>2, <3>1
  <2> QED BY <2>1, <2>2
<1>3. n \in S
  <2> HIDE DEF S
  <2> QED BY <1>1, <1>2, NatSet
<1>4. Has(t)
  BY <1>3
<1>5. Max(t) \in t /\ \A y \in t : Max(t) >= y
  BY <1>4 DEF Max
<1>6. t \subseteq Int
  OBVIOUS
<1> QED BY <1>5, <1>6

(* A set of numbers has a smallest element, which Min finds.               *)
LEMMA MinOf ==
  ASSUME NEW n \in Nat, NEW t \in SUBSET (0..n), t # {}
  PROVE  Min(t) \in t /\ \A y \in t : Min(t) =< y
<1>1. t \subseteq Nat
  OBVIOUS
<1>2. PICK x \in t : \A y \in t : ~(<<y, x>> \in OpToRel(<, Nat))
  BY <1>1, NatLessThanWellFounded, WFMin
<1>3. \A y \in t : x =< y
  <2> SUFFICES ASSUME NEW y \in t, y < x PROVE FALSE
    BY <1>1
  <2>1. <<y, x>> \in OpToRel(<, Nat)
    BY <1>1 DEF OpToRel
  <2> QED BY <1>2, <2>1
<1> QED BY <1>3 DEF Min

(* Induction over sets of positions, largest element last.                 *)
LEMMA SubsetInduction ==
  ASSUME NEW n \in Nat, NEW T, {} \in T,
         \A t \in SUBSET (1..n) : t # {} /\ t \ {Max(t)} \in T => t \in T
  PROVE  SUBSET (1..n) \subseteq T
<1> DEFINE S == {m \in Nat : \A t \in SUBSET (1..m) : t \in SUBSET (1..n) => t \in T}
<1>1. 0 \in S
  <2>1. \A u \in SUBSET (1..0) : u = {}
    OBVIOUS
  <2> QED BY <2>1
<1>2. ASSUME NEW m \in Nat, m \in S PROVE m + 1 \in S
  <2> SUFFICES ASSUME NEW t \in SUBSET (1..(m + 1)), t \in SUBSET (1..n)
               PROVE t \in T
    OBVIOUS
  <2>1. CASE t = {}
    BY <2>1
  <2>2. CASE t # {}
    <3>1. Max(t) \in t /\ \A y \in t : y =< Max(t)
      BY <2>2, MaxOf
    <3>2. t \ {Max(t)} \in SUBSET (1..m)
      <4> SUFFICES ASSUME NEW y \in t, y # Max(t) PROVE y \in 1..m
        OBVIOUS
      <4>1. y \in 1..(m + 1) /\ Max(t) \in 1..(m + 1) /\ y =< Max(t)
        BY <3>1
      <4> QED BY <4>1
    <3>3. t \ {Max(t)} \in T
      BY <1>2, <3>2
    <3> QED BY <2>2, <3>3
  <2> QED BY <2>1, <2>2
<1>3. n \in S
  <2> HIDE DEF S
  <2> QED BY <1>1, <1>2, NatSet
<1> QED BY <1>3


(* h is the recursion of a fold over s: F adds an element to what the      *)
(* smaller positions of the set gave.                                      *)
Iterates(h, F, base, s, m, A) ==
  /\ h \in [SUBSET (1..m) -> A]
  /\ \A t \in SUBSET (1..m) :
       h[t] = IF t = {} THEN base ELSE F[<<h[t \ {Max(t)}], s[Max(t)]>>]

LEMMA IterExists ==
  ASSUME NEW A, NEW K, NEW F \in [A \X K -> A], NEW base \in A, NEW s \in Seq(K)
  PROVE  \E h : Iterates(h, F, base, s, Len(s), A)
<1> DEFINE S == {m \in Nat : m =< Len(s) => \E h : Iterates(h, F, base, s, m, A)}
<1>1. 0 \in S
  <2> DEFINE h == [t \in SUBSET (1..0) |-> base]
  <2>1. \A u \in SUBSET (1..0) : u = {}
    OBVIOUS
  <2>2. h \in [SUBSET (1..0) -> A] /\ \A t \in SUBSET (1..0) : h[t] = base
    OBVIOUS
  <2> HIDE DEF h
  <2>3. Iterates(h, F, base, s, 0, A)
    BY <2>1, <2>2 DEF Iterates
  <2> QED BY <2>3
<1>2. ASSUME NEW m \in Nat, m \in S PROVE m + 1 \in S
  <2> SUFFICES ASSUME m + 1 =< Len(s) PROVE \E h : Iterates(h, F, base, s, m + 1, A)
    OBVIOUS
  <2>1. PICK h : Iterates(h, F, base, s, m, A)
    BY <1>2
  <2>0. /\ h \in [SUBSET (1..m) -> A]
        /\ \A t \in SUBSET (1..m) :
             h[t] = IF t = {} THEN base ELSE F[<<h[t \ {Max(t)}], s[Max(t)]>>]
    BY <2>1 DEF Iterates
  <2> DEFINE g == [t \in SUBSET (1..(m + 1)) |->
                    IF m + 1 \in t THEN F[<<h[t \ {m + 1}], s[m + 1]>>] ELSE h[t]]
  <2>2. \A t \in SUBSET (1..(m + 1)) :
          /\ t \ {m + 1} \in SUBSET (1..m)
          /\ m + 1 \notin t => t \in SUBSET (1..m)
    OBVIOUS
  <2>3. s[m + 1] \in K
    OBVIOUS
  <2>4. g \in [SUBSET (1..(m + 1)) -> A]
    BY <2>0, <2>2, <2>3
  <2>5. ASSUME NEW t \in SUBSET (1..(m + 1))
        PROVE g[t] = IF t = {} THEN base ELSE F[<<g[t \ {Max(t)}], s[Max(t)]>>]
    <3>1. CASE m + 1 \in t
      <4>1. Max(t) = m + 1
        <5>1. m + 1 \in Nat /\ t # {} /\ t \in SUBSET (0..(m + 1))
          BY <3>1
        <5>2. Max(t) \in t /\ \A y \in t : y =< Max(t)
          BY <5>1, MaxOf
        <5>3. Max(t) \in 1..(m + 1)
          BY <5>2
        <5> QED BY <3>1, <5>2, <5>3
      <4>2. g[t \ {m + 1}] = h[t \ {m + 1}]
        BY <2>2
      <4>3. g[t] = F[<<h[t \ {m + 1}], s[m + 1]>>]
        BY <3>1
      <4> QED BY <3>1, <4>1, <4>2, <4>3
    <3>2. CASE m + 1 \notin t
      <4>1. g[t] = h[t] /\ t \in SUBSET (1..m)
        BY <2>2, <3>2
      <4>2. g[t \ {Max(t)}] = h[t \ {Max(t)}]
        BY <3>2, <4>1
      <4> QED BY <2>0, <4>1, <4>2
    <3> QED BY <3>1, <3>2
  <2> HIDE DEF g
  <2>6. Iterates(g, F, base, s, m + 1, A)
    BY <2>4, <2>5 DEF Iterates
  <2> QED BY <2>6
<1>3. Len(s) \in Nat /\ Len(s) \in S
  <2>1. Len(s) \in Nat
    OBVIOUS
  <2>2. Nat \subseteq S
    <3> HIDE DEF S
    <3> QED BY <1>1, <1>2, NatSet
  <2> QED BY <2>1, <2>2
<1> QED BY <1>3


(* The values a loop over s takes, from base on.                           *)
Trace(a, F, base, s, A) ==
  /\ a \in [0..Len(s) -> A]
  /\ a[0] = base
  /\ \A i \in 1..Len(s) : a[i] = F[<<a[i - 1], s[i]>>]

LEMMA TraceOf ==
  ASSUME NEW A, NEW K, NEW F, NEW base, NEW s \in Seq(K), NEW h,
         Iterates(h, F, base, s, Len(s), A)
  PROVE  \E a : Trace(a, F, base, s, A) /\ h[1..Len(s)] = a[Len(s)]
<1> DEFINE n == Len(s)
           a == [i \in 0..n |-> h[1..i]]
<1>0. n \in Nat
  OBVIOUS
<1>1. /\ h \in [SUBSET (1..n) -> A]
      /\ \A t \in SUBSET (1..n) :
           h[t] = IF t = {} THEN base ELSE F[<<h[t \ {Max(t)}], s[Max(t)]>>]
  BY DEF Iterates
<1> HIDE DEF n
<1>2. \A i \in 0..n : 1..i \in SUBSET (1..n)
  BY <1>0
<1>3. a \in [0..n -> A]
  BY <1>1, <1>2
<1>4. a[0] = base
  <2>1. 1..0 = {} /\ 0 \in 0..n
    BY <1>0
  <2> QED BY <1>1, <1>2, <2>1
<1>5. ASSUME NEW i \in 1..n PROVE a[i] = F[<<a[i - 1], s[i]>>]
  <2>1. i \in Nat /\ 1..i \in SUBSET (0..i) /\ i \in 1..i /\ i - 1 \in 0..n
    BY <1>0
  <2>2. Max(1..i) \in 1..i /\ \A y \in 1..i : y =< Max(1..i)
    BY <2>1, MaxOf
  <2>3. Max(1..i) = i
    BY <2>1, <2>2
  <2>4. (1..i) \ {i} = 1..(i - 1)
    BY <2>1
  <2>5. h[1..i] = F[<<h[1..(i - 1)], s[i]>>]
    BY <1>1, <1>2, <2>1, <2>3, <2>4
  <2> QED BY <2>1, <2>5
<1>6. h[1..n] = a[n]
  BY <1>0
<1> HIDE DEF a
<1> QED BY <1>3, <1>4, <1>5, <1>6 DEF Trace, n

(* The recursion that FoldLeft chooses has a solution, which F defines.    *)
Framed(h, F, base, s, A, K) ==
  /\ h = [t \in SUBSET DOMAIN s |-> h[t]]
  /\ h[{}] = base
  /\ \A t \in SUBSET DOMAIN s : t # {} =>
       /\ s[Max(t)] \in K /\ h[t \ {Max(t)}] \in A
       /\ h[t] = F[<<h[t \ {Max(t)}], s[Max(t)]>>]

LEMMA FoldFrame ==
  ASSUME NEW A, NEW K, NEW F \in [A \X K -> A], NEW base \in A, NEW s \in Seq(K)
  PROVE  \E h : Framed(h, F, base, s, A, K)
<1>1. PICK h : Iterates(h, F, base, s, Len(s), A)
  BY IterExists
<1>2. DOMAIN s = 1..Len(s) /\ Len(s) \in Nat
  OBVIOUS
<1>3. h = [t \in SUBSET DOMAIN s |-> h[t]] /\ h[{}] = base
  BY <1>1, <1>2 DEF Iterates
<1>4. ASSUME NEW t \in SUBSET DOMAIN s, t # {}
      PROVE  /\ s[Max(t)] \in K /\ h[t \ {Max(t)}] \in A
             /\ h[t] = F[<<h[t \ {Max(t)}], s[Max(t)]>>]
  <2>1. t \in SUBSET (0..Len(s))
    BY <1>2
  <2>2. Max(t) \in 1..Len(s)
    BY <1>2, <1>4, <2>1, MaxOf
  <2> QED BY <1>1, <1>2, <1>4, <2>2 DEF Iterates
<1> QED BY <1>3, <1>4 DEF Framed

(* Whatever solves it runs through the values of a trace.                  *)
Solves(g, F, base, s, A, K) ==
  /\ g[{}] = base
  /\ \A t \in SUBSET DOMAIN s :
       t # {} /\ s[Max(t)] \in K /\ g[t \ {Max(t)}] \in A =>
         g[t] = F[<<g[t \ {Max(t)}], s[Max(t)]>>]

RunsThrough(g, F, base, s, A) ==
  \E a : Trace(a, F, base, s, A) /\ g[DOMAIN s] = a[Len(s)]

LEMMA FoldTrace ==
  ASSUME NEW A, NEW K, NEW F \in [A \X K -> A], NEW base \in A, NEW s \in Seq(K), NEW g,
         Solves(g, F, base, s, A, K)
  PROVE  RunsThrough(g, F, base, s, A)
<1>1. PICK h : Iterates(h, F, base, s, Len(s), A)
  BY IterExists
<1>2. DOMAIN s = 1..Len(s) /\ Len(s) \in Nat
  OBVIOUS
<1> DEFINE T == {t \in SUBSET (1..Len(s)) : g[t] = h[t]}
<1>3. {} \in T
  BY <1>1 DEF Iterates, Solves
<1>4. ASSUME NEW t \in SUBSET (1..Len(s)), t # {}, t \ {Max(t)} \in T PROVE t \in T
  <2>1. t \in SUBSET (0..Len(s))
    BY <1>2
  <2>2. Max(t) \in 1..Len(s)
    BY <1>2, <1>4, <2>1, MaxOf
  <2>3. s[Max(t)] \in K /\ h[t \ {Max(t)}] \in A
    <3>1. h \in [SUBSET (1..Len(s)) -> A] /\ t \ {Max(t)} \in SUBSET (1..Len(s))
      BY <1>1 DEF Iterates
    <3> QED BY <2>2, <3>1
  <2>4. h[t] = F[<<h[t \ {Max(t)}], s[Max(t)]>>]
    BY <1>1, <1>4 DEF Iterates
  <2>5. g[t] = F[<<g[t \ {Max(t)}], s[Max(t)]>>]
    BY <1>2, <1>4, <2>3 DEF Solves
  <2> QED BY <1>4, <2>4, <2>5
<1>5. SUBSET (1..Len(s)) \subseteq T
  <2> HIDE DEF T
  <2> QED BY <1>2, <1>3, <1>4, SubsetInduction
<1>6. g[1..Len(s)] = h[1..Len(s)]
  BY <1>5
<1>7. PICK a : Trace(a, F, base, s, A) /\ h[1..Len(s)] = a[Len(s)]
  BY <1>1, TraceOf
<1>8. g[DOMAIN s] = a[Len(s)]
  BY <1>2, <1>6, <1>7
<1> QED BY <1>7, <1>8 DEF RunsThrough
=============================================================================
