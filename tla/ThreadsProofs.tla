--------------------------- MODULE ThreadsProofs ---------------------------
(***************************************************************************)
(* Proofs about Threads, for any callers, labels, windows and limits: the  *)
(* types, that no caller reaches the threads of another, that every id a   *)
(* client was told names its thread, and that a listing is what it should  *)
(* be.                                                                     *)
(***************************************************************************)
EXTENDS Threads, FoldProofs

-----------------------------------------------------------------------------
(* What Of keeps of a sequence of checkpoints.                             *)

\* a[i] is what Of keeps of the first i of the checkpoints ks.
Keeps(a, ts, ks, K) ==
  /\ a \in [0..Len(ks) -> Seq(K)]
  /\ a[0] = <<>>
  /\ \A i \in 1..Len(ks) :
       a[i] = IF ks[i].thread \in ts THEN Append(a[i - 1], ks[i]) ELSE a[i - 1]
  /\ Of(ts, ks) = a[Len(ks)]

\* The fold of Of has a trace.
LEMMA OfTrace ==
  ASSUME NEW K, NEW ts, NEW ks \in Seq(K)
  PROVE  \E a : Keeps(a, ts, ks, K)
<1> DEFINE F == [p \in Seq(K) \X K |-> IF p[2].thread \in ts THEN Append(p[1], p[2]) ELSE p[1]]
           op(k, kept) == IF k.thread \in ts THEN Append(kept, k) ELSE kept
           Eq(f) == f = [t \in SUBSET DOMAIN ks |-> IF t = {} THEN <<>>
                                            ELSE op(ks[Max(t)], f[t \ {Max(t)}])]
           g == CHOOSE f : Eq(f)
           A == Seq(K)
           base == <<>>
<1>1. Of(ts, ks) = g[DOMAIN ks]
  BY Zenon DEF Of, FoldLeft, MapThenFoldSet
<1>2. F \in [A \X K -> A] /\ base \in A /\ base = <<>>
  OBVIOUS
<1>3. \A kept \in A, k \in K : F[<<kept, k>>] = op(k, kept)
  OBVIOUS
<1> HIDE DEF F, op, base, A
<1>4. PICK h : Framed(h, F, base, ks, A, K)
  BY <1>2, FoldFrame
<1>5. Eq(h)
  BY <1>2, <1>3, <1>4 DEF Framed
<1>6. Eq(g)
  <2> HIDE DEF Eq
  <2> QED BY <1>5, Zenon
<1>7. \A t \in SUBSET DOMAIN ks :
        g[t] = IF t = {} THEN <<>> ELSE op(ks[Max(t)], g[t \ {Max(t)}])
  <2> HIDE DEF g
  <2> QED BY <1>6
<1> HIDE DEF g
<1>8. Solves(g, F, base, ks, A, K)
  BY <1>2, <1>3, <1>7 DEF Solves
<1>9. RunsThrough(g, F, base, ks, A)
  BY <1>2, <1>8, FoldTrace
<1>10. PICK a : Trace(a, F, base, ks, A) /\ g[DOMAIN ks] = a[Len(ks)]
  BY <1>9, Zenon DEF RunsThrough
<1>11. ASSUME NEW i \in 1..Len(ks)
       PROVE  a[i] = IF ks[i].thread \in ts THEN Append(a[i - 1], ks[i]) ELSE a[i - 1]
  <2>1. i - 1 \in 0..Len(ks) /\ ks[i] \in K
    OBVIOUS
  <2> QED BY <1>3, <1>10, <2>1 DEF Trace, op
<1>12. Keeps(a, ts, ks, K)
  BY <1>1, <1>2, <1>10, <1>11 DEF Trace, Keeps, A
<1> QED BY <1>12

LEMMA OfType ==
  ASSUME NEW K, NEW ts, NEW ks \in Seq(K)
  PROVE  Of(ts, ks) \in Seq(K)
<1>1. PICK a : Keeps(a, ts, ks, K)
  BY OfTrace
<1>2. Len(ks) \in 0..Len(ks)
  OBVIOUS
<1> QED BY <1>1, <1>2 DEF Keeps

LEMMA OfEmpty == \A ts : Of(ts, <<>>) = <<>>
<1> SUFFICES ASSUME NEW ts PROVE Of(ts, <<>>) = <<>>
  OBVIOUS
<1>1. <<>> \in Seq({}) /\ Len(<<>>) = 0
  OBVIOUS
<1>2. PICK a : Keeps(a, ts, <<>>, {})
  BY <1>1, OfTrace
<1> QED BY <1>1, <1>2 DEF Keeps

\* One checkpoint more.
LEMMA OfAppend ==
  ASSUME NEW K, NEW ts, NEW ks \in Seq(K), NEW k \in K
  PROVE  Of(ts, Append(ks, k)) = IF k.thread \in ts THEN Append(Of(ts, ks), k) ELSE Of(ts, ks)
<1> DEFINE n == Len(ks)
           more == Append(ks, k)
<1>1. /\ more \in Seq(K) /\ Len(more) = n + 1 /\ more[n + 1] = k /\ n \in Nat
      /\ \A i \in 1..n : more[i] = ks[i]
  OBVIOUS
<1> HIDE DEF more
<1>2. PICK a : Keeps(a, ts, ks, K)
  BY OfTrace
<1>3. PICK b : Keeps(b, ts, more, K)
  BY <1>1, OfTrace
<1>9. /\ a[0] = <<>> /\ Of(ts, ks) = a[n]
      /\ \A i \in 1..n :
           a[i] = IF ks[i].thread \in ts THEN Append(a[i - 1], ks[i]) ELSE a[i - 1]
  BY <1>2 DEF Keeps
<1>10. /\ b[0] = <<>> /\ Of(ts, more) = b[n + 1]
       /\ \A i \in 1..(n + 1) :
            b[i] = IF more[i].thread \in ts THEN Append(b[i - 1], more[i]) ELSE b[i - 1]
  BY <1>1, <1>3 DEF Keeps
<1> HIDE DEF n
<1> DEFINE S == {m \in Nat : m =< n => a[m] = b[m]}
<1>4. 0 \in S
  BY <1>9, <1>10
<1>5. ASSUME NEW m \in Nat, m \in S PROVE m + 1 \in S
  <2> SUFFICES ASSUME m + 1 =< n PROVE a[m + 1] = b[m + 1]
    OBVIOUS
  <2>1. m + 1 \in 1..n /\ m + 1 \in 1..(n + 1) /\ (m + 1) - 1 = m
    BY <1>1
  <2>2. a[m] = b[m] /\ more[m + 1] = ks[m + 1]
    BY <1>1, <1>5, <2>1
  <2> QED BY <1>9, <1>10, <2>1, <2>2
<1>6. a[n] = b[n]
  <2>1. Nat \subseteq S
    <3> HIDE DEF S
    <3> QED BY <1>4, <1>5, NatSet
  <2> QED BY <1>1, <2>1
<1>7. n + 1 \in 1..(n + 1) /\ (n + 1) - 1 = n
  BY <1>1
<1> QED BY <1>1, <1>6, <1>7, <1>9, <1>10 DEF more

\* What is dropped first, of threads that are not asked for, is not missed.
LEMMA OfOf ==
  ASSUME NEW K, NEW ts, NEW us, NEW ks \in Seq(K),
         \A i \in 1..Len(ks) : ks[i].thread \in us => ks[i].thread \in ts
  PROVE  Of(us, Of(ts, ks)) = Of(us, ks)
<1> DEFINE n == Len(ks)
<1>7. PICK a : Keeps(a, ts, ks, K)
  BY OfTrace
<1>8. PICK b : Keeps(b, us, ks, K)
  BY OfTrace
<1>1. /\ a \in [0..n -> Seq(K)] /\ a[0] = <<>> /\ Of(ts, ks) = a[n]
      /\ \A i \in 1..n :
           a[i] = IF ks[i].thread \in ts THEN Append(a[i - 1], ks[i]) ELSE a[i - 1]
  BY <1>7 DEF Keeps
<1>2. /\ b[0] = <<>> /\ Of(us, ks) = b[n]
      /\ \A i \in 1..n :
           b[i] = IF ks[i].thread \in us THEN Append(b[i - 1], ks[i]) ELSE b[i - 1]
  BY <1>8 DEF Keeps
<1>3. n \in Nat /\ \A i \in 1..n : ks[i] \in K
  OBVIOUS
<1> DEFINE S == {m \in Nat : m =< n => Of(us, a[m]) = b[m]}
<1>4. 0 \in S
  BY <1>1, <1>2, OfEmpty
<1>5. ASSUME NEW m \in Nat, m \in S PROVE m + 1 \in S
  <2> SUFFICES ASSUME m + 1 =< n PROVE Of(us, a[m + 1]) = b[m + 1]
    OBVIOUS
  <2> HIDE DEF n
  <2>1. m + 1 \in 1..n /\ m \in 0..n /\ (m + 1) - 1 = m
    BY <1>3
  <2>2. Of(us, a[m]) = b[m] /\ a[m] \in Seq(K) /\ ks[m + 1] \in K
    BY <1>1, <1>3, <1>5, <2>1
  <2>3. a[m + 1] = IF ks[m + 1].thread \in ts THEN Append(a[m], ks[m + 1]) ELSE a[m]
    BY <1>1, <2>1
  <2>4. b[m + 1] = IF ks[m + 1].thread \in us THEN Append(b[m], ks[m + 1]) ELSE b[m]
    BY <1>2, <2>1
  <2>5. ks[m + 1].thread \in us => ks[m + 1].thread \in ts
    BY <2>1 DEF n
  <2>6. CASE ks[m + 1].thread \in ts
    <3>1. a[m + 1] = Append(a[m], ks[m + 1])
      BY <2>3, <2>6
    <3>2. Of(us, Append(a[m], ks[m + 1])) =
            IF ks[m + 1].thread \in us THEN Append(Of(us, a[m]), ks[m + 1]) ELSE Of(us, a[m])
      <4>1. ASSUME NEW s \in Seq(K), NEW k \in K
            PROVE  Of(us, Append(s, k)) = IF k.thread \in us THEN Append(Of(us, s), k) ELSE Of(us, s)
        BY OfAppend
      <4> QED BY <2>2, <4>1
    <3> QED BY <2>2, <2>4, <3>1, <3>2
  <2>7. CASE ks[m + 1].thread \notin ts
    BY <2>2, <2>3, <2>4, <2>5, <2>7
  <2> QED BY <2>6, <2>7
<1>6. Nat \subseteq S
  <2> HIDE DEF S
  <2> QED BY <1>4, <1>5, NatSet
<1> QED BY <1>1, <1>2, <1>3, <1>6

-----------------------------------------------------------------------------
(* Thread ids.                                                             *)

LEMMA CallerPartOf ==
  /\ \A c \in Caller : CallerPart(c) \in Part /\ CallerPart(c) \in {"word"} \X STRING
  /\ \A c, d \in Caller : CallerPart(c) = CallerPart(d) => c = d
  /\ {"word"} \X STRING \subseteq Part
<1>1. ASSUME NEW c \in Caller PROVE CallerPart(c) \in {"word"} \X STRING
  BY NamesAssumption DEF CallerPart
<1> QED BY <1>1 DEF CallerPart, Part

LEMMA OneOwner ==
  ASSUME NEW c \in Caller, NEW d \in Caller, NEW t, OwnedBy(c, t), OwnedBy(d, t)
  PROVE  c = d
BY CallerPartOf DEF OwnedBy

\* A part put before an id.
LEMMA Prefixed ==
  ASSUME NEW part \in Part, NEW id \in Id
  PROVE  /\ <<part>> \o id \in Id
         /\ Len(<<part>> \o id) = Len(id) + 1
         /\ Head(<<part>> \o id) = part
         /\ Tail(<<part>> \o id) = id
<1>1. <<part>> \in Seq(Part) /\ id \in Seq(Part)
  BY DEF Id
<1>2. /\ <<part>> \o id \in Seq(Part) /\ Len(<<part>> \o id) = Len(id) + 1
      /\ (<<part>> \o id)[1] = part
      /\ \A i \in 1..Len(id) : (<<part>> \o id)[i + 1] = id[i]
  BY <1>1
<1>3. Tail(<<part>> \o id) = id
  <2>1. /\ Tail(<<part>> \o id) \in Seq(Part)
        /\ Len(Tail(<<part>> \o id)) = Len(id)
        /\ \A i \in 1..Len(id) : Tail(<<part>> \o id)[i] = id[i]
    BY <1>1, <1>2
  <2> QED BY <1>1, <2>1, SeqEqual
<1> QED BY <1>1, <1>2, <1>3 DEF Id

\* An id cut at its first part and put together again.
LEMMA HeadTail ==
  ASSUME NEW t \in Id, Len(t) > 1
  PROVE  /\ Tail(t) \in Id /\ Tail(t) # None /\ Head(t) \in Part
         /\ <<Head(t)>> \o Tail(t) = t
<1>1. t \in Seq(Part) /\ Tail(t) \in Seq(Part) /\ Len(Tail(t)) = Len(t) - 1 /\ Head(t) \in Part
      /\ Head(t) = t[1] /\ \A i \in 1..(Len(t) - 1) : Tail(t)[i] = t[i + 1]
  BY DEF Id
<1>2. Tail(t) # None
  <2>1. Len(None) = 0
    BY DEF None
  <2>2. Len(t) \in Nat
    BY DEF Id
  <2>3. Len(Tail(t)) # 0
    BY <1>1, <2>2
  <2> QED BY <2>1, <2>3
<1>3. <<Head(t)>> \o Tail(t) = t
  <2> DEFINE s == <<Head(t)>> \o Tail(t)
  <2>1. s \in Seq(Part) /\ Len(s) = Len(t) /\ \A i \in 1..Len(t) : s[i] = t[i]
    BY <1>1
  <2> HIDE DEF s
  <2>2. s = t
    BY <1>1, <2>1, SeqEqual
  <2> QED BY <2>2 DEF s
<1> QED BY <1>1, <1>2, <1>3 DEF Id

LEMMA RouteOwned ==
  ASSUME NEW c \in Caller, NEW id \in Id
  PROVE  /\ Route(c, id) \in Id
         /\ Head(Route(c, id)) = CallerPart(c)
         /\ id # None => OwnedBy(c, Route(c, id))
<1>1. id # None => Len(id) > 0
  BY DEF Id, None
<1>2. Len(id) \in Nat
  BY DEF Id
<1> QED BY <1>1, <1>2, CallerPartOf, Prefixed DEF Route, OwnedBy

LEMMA StripRoute ==
  ASSUME NEW c \in Caller, NEW t \in Id, OwnedBy(c, t)
  PROVE  Strip(c, t) \in Id /\ Strip(c, t) # None /\ Route(c, Strip(c, t)) = t
BY HeadTail DEF OwnedBy, Strip, Route

\* An id made of the caller and one part more.
LEMMA TwoParts ==
  ASSUME NEW c \in Caller, NEW part \in Part
  PROVE  <<CallerPart(c), part>> \in Id /\ OwnedBy(c, <<CallerPart(c), part>>)
BY CallerPartOf DEF Id, OwnedBy

LEMMA FreshId ==
  ASSUME NEW c \in Caller, minted \in Nat
  PROVE  <<CallerPart(c), FreshUuid>> \in Id /\ OwnedBy(c, <<CallerPart(c), FreshUuid>>)
<1>1. FreshUuid \in Part
  BY DEF FreshUuid, Part
<1> QED BY <1>1, TwoParts

LEMMA SessionId ==
  ASSUME NEW c \in Caller, NEW project \in Project, NEW topic \in Topic \cup {None}
  PROVE  LET t == <<CallerPart(c), SessionUuid(c, project, topic)>> IN t \in Id /\ OwnedBy(c, t)
<1> DEFINE Words == {"word"} \X STRING
               said == IF topic = None THEN DefaultTopic ELSE topic
<1>1. project \in Seq(Words) /\ said \in Seq(Words) /\ CallerPart(c) \in Words
  BY NamesAssumption, CallerPartOf
<1> HIDE DEF Words, said
<1>2. <<CallerPart(c)>> \o project \o said \in Seq(Words)
  BY <1>1
<1>3. SessionUuid(c, project, topic) \in {"uuid5"} \X Seq(Words)
  BY <1>2 DEF SessionUuid, said
<1>4. SessionUuid(c, project, topic) \in Part
  BY <1>3 DEF Part, Words
<1> QED BY <1>4, TwoParts

\* Every thread a caller has been told of is its own.
OwnTold ==
  /\ returned \in [Caller -> SUBSET Id]
  /\ \A c \in Caller : \A t \in returned[c] : OwnedBy(c, t)

LEMMA RequestedId ==
  ASSUME OwnTold, NEW c \in Caller, NEW id \in Requested(c)
  PROVE  id \in Id /\ id # None
BY NamesAssumption, StripRoute DEF OwnTold, Requested, OwnedBy, None

\* Whatever is asked for, the id a request is given is its caller's own.
LEMMA ResolveOwned ==
  ASSUME OwnTold, minted \in Nat, NEW c \in Caller, NEW req \in ChatRequest(c)
  PROVE  Resolve(c, req) \in Id /\ OwnedBy(c, Resolve(c, req))
<1>1. /\ req.thread \in Requested(c) \cup {None} /\ req.fresh \in BOOLEAN
      /\ req.project \in Project /\ req.topic \in Topic \cup {None}
  BY DEF ChatRequest
<1>2. CASE req.thread # None /\ ~req.fresh
  <2>1. req.thread \in Id
    BY <1>1, <1>2, RequestedId
  <2>2. CASE OwnedBy(c, req.thread)
    BY <1>2, <2>1, <2>2 DEF Resolve
  <2>3. CASE ~OwnedBy(c, req.thread)
    BY <1>2, <2>1, <2>3, RouteOwned DEF Resolve
  <2> QED BY <2>2, <2>3
<1>3. CASE req.fresh
  BY <1>3, FreshId DEF Resolve
<1>4. CASE ~req.fresh /\ req.thread = None
  BY <1>1, <1>4, SessionId DEF Resolve
<1> QED BY <1>1, <1>2, <1>3, <1>4

-----------------------------------------------------------------------------
(* The newest checkpoint of a thread, and the newest of all.               *)

Checkpoints == Seq([thread : Id, messages : Nat])

LEMMA CheckpointAt ==
  ASSUME NEW s \in Checkpoints
  PROVE  /\ Len(s) \in Nat /\ DOMAIN s = 1..Len(s)
         /\ \A i \in 1..Len(s) : /\ s[i] \in [thread : Id, messages : Nat]
                                /\ s[i].thread \in Id /\ s[i].messages \in Nat
<1> DEFINE K == [thread : Id, messages : Nat]
<1>1. \A k \in K : k.thread \in Id /\ k.messages \in Nat
  OBVIOUS
<1>2. s \in Seq(K)
  BY DEF Checkpoints
<1> HIDE DEF K
<1>3. Len(s) \in Nat /\ DOMAIN s = 1..Len(s) /\ \A i \in 1..Len(s) : s[i] \in K
  BY <1>2
<1> QED BY <1>1, <1>3 DEF K

\* Where the newest checkpoint of a thread lies.
LEMMA LastOfIs ==
  ASSUME checkpoints \in Checkpoints, NEW t
  PROVE  /\ LastOf(t) \in 0..Len(checkpoints)
         /\ LastOf(t) = 0 <=> t \notin Threads
         /\ LastOf(t) # 0 => checkpoints[LastOf(t)].thread = t
         /\ \A i \in 1..Len(checkpoints) : checkpoints[i].thread = t => i =< LastOf(t)
<1> DEFINE n == Len(checkpoints)
           at == {i \in DOMAIN checkpoints : checkpoints[i].thread = t}
<1>1. n \in Nat /\ DOMAIN checkpoints = 1..n
  BY DEF Checkpoints
<1>2. {0} \cup at \in SUBSET (0..n) /\ {0} \cup at # {}
  BY <1>1
<1>3. LastOf(t) = Max({0} \cup at)
  BY DEF LastOf
<1> HIDE DEF at, n
<1>4. LastOf(t) \in {0} \cup at /\ \A i \in {0} \cup at : i =< LastOf(t)
  BY <1>1, <1>2, <1>3, MaxOf
<1>5. LastOf(t) \in 0..n
  BY <1>2, <1>4
<1>6. \A i \in at : i \in 1..n /\ checkpoints[i].thread = t
  BY <1>1 DEF at
<1>7. t \in Threads <=> at # {}
  BY DEF Threads, at
<1>8. LastOf(t) = 0 <=> at = {}
  <2>1. CASE at = {}
    BY <1>4, <2>1
  <2>2. CASE at # {}
    <3>1. PICK i \in at : i >= 1 /\ i \in Nat
      BY <1>1, <1>6, <2>2
    <3>2. LastOf(t) >= 1
      BY <1>4, <1>5, <3>1
    <3> QED BY <2>2, <3>2
  <2> QED BY <2>1, <2>2
<1>9. LastOf(t) # 0 => checkpoints[LastOf(t)].thread = t
  BY <1>4, <1>6
<1>10. \A i \in 1..n : checkpoints[i].thread = t => i =< LastOf(t)
  BY <1>1, <1>4 DEF at
<1> QED BY <1>5, <1>7, <1>8, <1>9, <1>10 DEF n

LEMMA MessagesType ==
  ASSUME checkpoints \in Checkpoints, NEW t
  PROVE  Messages(t) \in Nat
<1>1. LastOf(t) = 0 \/ LastOf(t) \in 1..Len(checkpoints)
  <2>1. LastOf(t) \in 0..Len(checkpoints)
    BY LastOfIs
  <2> QED BY <2>1, CheckpointAt
<1> QED BY <1>1, CheckpointAt DEF Messages

LEMMA MaxOfTwo == \A x, y \in Int : Max({x, y}) = IF x >= y THEN x ELSE y
<1> SUFFICES ASSUME NEW x \in Int, NEW y \in Int PROVE Max({x, y}) = IF x >= y THEN x ELSE y
  OBVIOUS
<1> DEFINE larger == IF x >= y THEN x ELSE y
<1>1. larger \in {x, y} /\ \A z \in {x, y} : larger >= z
  OBVIOUS
<1>2. \A z \in {x, y} : (\A u \in {x, y} : z >= u) => z = larger
  OBVIOUS
<1> HIDE DEF larger
<1>3. Max({x, y}) = larger
  BY <1>1, <1>2 DEF Max
<1> QED BY <1>3 DEF larger

LEMMA MinOfTwo == \A x, y \in Int : Min({x, y}) = IF x =< y THEN x ELSE y
<1> SUFFICES ASSUME NEW x \in Int, NEW y \in Int PROVE Min({x, y}) = IF x =< y THEN x ELSE y
  OBVIOUS
<1> DEFINE smaller == IF x =< y THEN x ELSE y
<1>1. smaller \in {x, y} /\ \A z \in {x, y} : smaller =< z
  OBVIOUS
<1>2. \A z \in {x, y} : (\A u \in {x, y} : z =< u) => z = smaller
  OBVIOUS
<1> HIDE DEF smaller
<1>3. Min({x, y}) = smaller
  BY <1>1, <1>2 DEF Min
<1> QED BY <1>3 DEF smaller

\* The window of the n newest checkpoints, counted back from the newest.
LEMMA NewestIs ==
  ASSUME checkpoints \in Checkpoints, NEW n \in Nat \ {0}
  PROVE  LET k == Len(checkpoints) IN
         /\ Newest(n) \in Checkpoints
         /\ Len(Newest(n)) = IF k < n THEN k ELSE n
         /\ \A i \in 1..Len(Newest(n)) : Newest(n)[i] = checkpoints[k - i + 1]
<1> DEFINE k == Len(checkpoints)
           K == [thread : Id, messages : Nat]
           from == Max({1, k - n + 1})
           s == SubSeq(checkpoints, from, k)
<1>1. k \in Nat /\ checkpoints \in Seq(K)
  BY DEF Checkpoints
<1>2. from = IF k < n THEN 1 ELSE k - n + 1
  <2>1. k - n + 1 \in Int /\ (1 >= k - n + 1 => k - n + 1 = 1 \/ k < n)
    BY <1>1
  <2> QED BY <1>1, <2>1, MaxOfTwo
<1>3. /\ s \in Seq(K) /\ Len(s) = IF k < n THEN k ELSE n
      /\ \A i \in 1..Len(s) : s[i] = checkpoints[from + i - 1]
  <2> HIDE DEF K, from
  <2>1. from \in 1..(k + 1) /\ k \in Nat
    BY <1>1, <1>2
  <2>2. /\ s \in Seq(K) /\ Len(s) = k - from + 1
        /\ \A i \in 1..(k - from + 1) : s[i] = checkpoints[from + i - 1]
    <3>1. \A i \in from..k : checkpoints[i] \in K
      BY <1>1, <2>1
    <3>2. from \in Int /\ k \in Int /\ (from =< k \/ k - from + 1 = 0)
      BY <2>1
    <3> HIDE DEF k
    <3>3. s \in Seq(K)
      BY <3>1, <3>2, SubSeqProperties
    <3>4. Len(s) = IF from =< k THEN k - from + 1 ELSE 0
      BY <3>1, <3>2, SubSeqProperties
    <3>5. \A i \in 1..(k - from + 1) : s[i] = checkpoints[from + i - 1]
      BY <3>1, <3>2, SubSeqProperties
    <3>6. Len(s) = k - from + 1
      <4> HIDE DEF s
      <4> QED BY <3>2, <3>4
    <3> HIDE DEF s
    <3> QED BY <3>3, <3>5, <3>6
  <2>3. k - from + 1 = IF k < n THEN k ELSE n
    BY <1>1, <1>2
  <2> HIDE DEF s
  <2> QED BY <2>2, <2>3
<1>4. Newest(n) = Reverse(s)
  BY DEF Newest
<1> HIDE DEF s, K, from
<1>5. /\ Reverse(s) \in Seq(K) /\ Len(Reverse(s)) = Len(s)
      /\ \A i \in 1..Len(s) : Reverse(s)[i] = s[Len(s) - i + 1]
  BY <1>3 DEF Reverse
<1>6. ASSUME NEW i \in 1..Len(s) PROVE s[Len(s) - i + 1] = checkpoints[k - i + 1]
  <2>1. Len(s) \in Nat /\ Len(s) - i + 1 \in 1..Len(s)
    BY <1>3
  <2>2. from + (Len(s) - i + 1) - 1 = k - i + 1
    BY <1>1, <1>2, <1>3, <2>1
  <2> QED BY <1>3, <2>1, <2>2
<1> QED BY <1>3, <1>4, <1>5, <1>6 DEF Checkpoints, K

-----------------------------------------------------------------------------
(* The loop of list_threads.                                               *)

\* What the loop has seen and listed.
Listing == [seen : SUBSET Id, listed : Checkpoints]
Nothing == [seen |-> {}, listed |-> <<>>]

LEMMA VisitType ==
  ASSUME NEW c, NEW most, NEW archivedToo, NEW acc \in Listing,
         NEW k \in [thread : Id, messages : Nat]
  PROVE  Visit(c, most, archivedToo, acc, k) \in Listing
<1>1. k.thread \in Id /\ acc.seen \in SUBSET Id /\ acc.listed \in Checkpoints
  BY DEF Listing
<1>2. Append(acc.listed, k) \in Checkpoints
  <2> DEFINE K == [thread : Id, messages : Nat]
  <2>1. k \in K /\ acc.listed \in Seq(K)
    BY <1>1 DEF Checkpoints
  <2> HIDE DEF K
  <2>2. Append(acc.listed, k) \in Seq(K)
    BY <2>1
  <2> QED BY <2>2 DEF Checkpoints, K
<1> QED BY <1>1, <1>2 DEF Visit, Listing

\* a[i] is what the loop has made of the first i of the checkpoints ks.
Scans(a, c, most, archivedToo, ks) ==
  /\ a \in [0..Len(ks) -> Listing]
  /\ a[0] = Nothing
  /\ \A i \in 1..Len(ks) : a[i] = Visit(c, most, archivedToo, a[i - 1], ks[i])

\* The fold of Scan has a trace.
LEMMA ScanTrace ==
  ASSUME checkpoints \in Checkpoints, NEW c, NEW limit, NEW archivedToo
  PROVE  \E a : /\ Scans(a, c, Clamp(limit), archivedToo, Newest(ListWindow))
                /\ Scan(c, limit, archivedToo) = a[Len(Newest(ListWindow))]
<1> DEFINE K == [thread : Id, messages : Nat]
           ks == Newest(ListWindow)
           most == Clamp(limit)
           F == [p \in Listing \X K |-> Visit(c, most, archivedToo, p[1], p[2])]
           op(k, acc) == Visit(c, most, archivedToo, acc, k)
           Eq(f) == f = [t \in SUBSET DOMAIN ks |->
                           IF t = {} THEN Nothing ELSE op(ks[Max(t)], f[t \ {Max(t)}])]
           g == CHOOSE f : Eq(f)
<1>1. Scan(c, limit, archivedToo) = g[DOMAIN ks]
  BY Zenon DEF Scan, FoldLeft, MapThenFoldSet, Nothing
<1>2. ks \in Seq(K)
  <2>1. ListWindow \in Nat \ {0}
    BY BoundsAssumption
  <2> QED BY <2>1, NewestIs DEF Checkpoints
<1>3. Nothing \in Listing
  BY DEF Nothing, Listing, Checkpoints
<1>4. \A acc \in Listing, k \in K : op(k, acc) \in Listing
  BY VisitType
<1> HIDE DEF ks, K, most, op
<1>5. F \in [Listing \X K -> Listing] /\ \A acc \in Listing, k \in K : F[<<acc, k>>] = op(k, acc)
  BY <1>4 DEF op
<1> HIDE DEF F
<1>6. PICK h : Framed(h, F, Nothing, ks, Listing, K)
  BY <1>2, <1>3, <1>5, FoldFrame
<1>7. Eq(h)
  BY <1>5, <1>6 DEF Framed
<1>8. Eq(g)
  <2> HIDE DEF Eq
  <2> QED BY <1>7, Zenon
<1>9. \A t \in SUBSET DOMAIN ks :
        g[t] = IF t = {} THEN Nothing ELSE op(ks[Max(t)], g[t \ {Max(t)}])
  <2> HIDE DEF g
  <2> QED BY <1>8
<1> HIDE DEF g
<1>10. Solves(g, F, Nothing, ks, Listing, K)
  BY <1>5, <1>9 DEF Solves
<1>11. RunsThrough(g, F, Nothing, ks, Listing)
  BY <1>2, <1>3, <1>5, <1>10, FoldTrace
<1>12. PICK a : Trace(a, F, Nothing, ks, Listing) /\ g[DOMAIN ks] = a[Len(ks)]
  BY <1>11, Zenon DEF RunsThrough
<1>13. ASSUME NEW i \in 1..Len(ks)
       PROVE  a[i] = Visit(c, most, archivedToo, a[i - 1], ks[i])
  <2>1. ks[i] \in K /\ i - 1 \in 0..Len(ks)
    BY <1>2
  <2> QED BY <1>5, <1>12, <2>1 DEF Trace, op
<1>14. Scans(a, c, most, archivedToo, ks)
  BY <1>12, <1>13 DEF Scans, Trace
<1> QED BY <1>1, <1>12, <1>14 DEF ks, most

\* What is appended to a listing stands at its end.
LEMMA ListedMore ==
  ASSUME NEW listed \in Checkpoints, NEW k \in [thread : Id, messages : Nat]
  PROVE  /\ Append(listed, k) \in Checkpoints
         /\ Len(listed) \in Nat /\ Len(Append(listed, k)) = Len(listed) + 1
         /\ DOMAIN listed = 1..Len(listed) /\ DOMAIN Append(listed, k) = 1..(Len(listed) + 1)
         /\ Append(listed, k)[Len(listed) + 1] = k
         /\ \A i \in 1..Len(listed) : Append(listed, k)[i] = listed[i]
<1> DEFINE K == [thread : Id, messages : Nat]
<1>1. k \in K /\ listed \in Seq(K)
  BY DEF Checkpoints
<1> HIDE DEF K
<1>2. /\ Append(listed, k) \in Seq(K) /\ Len(listed) \in Nat
      /\ Len(Append(listed, k)) = Len(listed) + 1
      /\ DOMAIN listed = 1..Len(listed) /\ DOMAIN Append(listed, k) = 1..(Len(listed) + 1)
      /\ Append(listed, k)[Len(listed) + 1] = k
      /\ \A i \in 1..Len(listed) : Append(listed, k)[i] = listed[i]
  BY <1>1
<1> QED BY <1>2 DEF Checkpoints, K

\* The loop passes over the threads of other callers.
OwnListing(c, acc) ==
  /\ \A t \in acc.seen : OwnedBy(c, t)
  /\ \A i \in DOMAIN acc.listed : OwnedBy(c, acc.listed[i].thread)

LEMMA VisitOwned ==
  ASSUME NEW c, NEW most, NEW archivedToo, NEW acc \in Listing, OwnListing(c, acc),
         NEW k \in [thread : Id, messages : Nat]
  PROVE  OwnListing(c, Visit(c, most, archivedToo, acc, k))
<1> DEFINE next == Visit(c, most, archivedToo, acc, k)
<1>1. CASE next = acc
  BY <1>1
<1>2. CASE next # acc
  <2>1. /\ OwnedBy(c, k.thread)
        /\ next.seen = acc.seen \cup {k.thread}
        /\ next.listed = acc.listed \/ next.listed = Append(acc.listed, k)
    BY <1>2 DEF Visit
  <2> HIDE DEF next
  <2>2. acc.listed \in Checkpoints
    BY DEF Listing
  <2>3. ASSUME NEW i \in DOMAIN next.listed PROVE OwnedBy(c, next.listed[i].thread)
    <3>1. CASE next.listed = acc.listed
      BY <3>1 DEF OwnListing
    <3>2. CASE next.listed = Append(acc.listed, k)
      <4>1. i \in 1..Len(acc.listed) \/ i = Len(acc.listed) + 1
        BY <2>2, <3>2, ListedMore
      <4>2. CASE i \in 1..Len(acc.listed)
        BY <2>2, <3>2, <4>2, ListedMore DEF OwnListing
      <4>3. CASE i = Len(acc.listed) + 1
        BY <2>1, <2>2, <3>2, <4>3, ListedMore
      <4> QED BY <4>1, <4>2, <4>3
    <3> QED BY <2>1, <3>1, <3>2
  <2>4. \A t \in next.seen : OwnedBy(c, t)
    BY <2>1 DEF OwnListing
  <2>5. OwnListing(c, next)
    BY <2>3, <2>4 DEF OwnListing
  <2> QED BY <2>5 DEF next
<1> QED BY <1>1, <1>2

\* list_threads names no thread of another caller, listed or not.
LEMMA ScanOwned ==
  ASSUME checkpoints \in Checkpoints, NEW c, NEW limit, NEW archivedToo
  PROVE  /\ Scan(c, limit, archivedToo) \in Listing
         /\ OwnListing(c, Scan(c, limit, archivedToo))
<1> DEFINE ks == Newest(ListWindow)
           most == Clamp(limit)
           n == Len(ks)
<1>1. ks \in Checkpoints
  BY BoundsAssumption, NewestIs
<1>2. n \in Nat /\ \A i \in 1..n : ks[i] \in [thread : Id, messages : Nat]
  <2> HIDE DEF ks
  <2> QED BY <1>1, CheckpointAt
<1>3. PICK a : Scans(a, c, most, archivedToo, ks) /\ Scan(c, limit, archivedToo) = a[n]
  BY ScanTrace
<1> HIDE DEF ks, most, n
<1>4. /\ a \in [0..n -> Listing] /\ a[0] = Nothing
      /\ \A i \in 1..n : a[i] = Visit(c, most, archivedToo, a[i - 1], ks[i])
  BY <1>3 DEF Scans, n
<1> DEFINE S == {m \in Nat : m =< n => OwnListing(c, a[m])}
<1>5. 0 \in S
  BY <1>4 DEF OwnListing, Nothing
<1>6. ASSUME NEW m \in Nat, m \in S PROVE m + 1 \in S
  <2> SUFFICES ASSUME m + 1 =< n PROVE OwnListing(c, a[m + 1])
    OBVIOUS
  <2>1. m + 1 \in 1..n /\ m \in 0..n /\ (m + 1) - 1 = m
    BY <1>2
  <2>2. a[m + 1] = Visit(c, most, archivedToo, a[m], ks[m + 1]) /\ a[m] \in Listing
    BY <1>4, <2>1
  <2>3. OwnListing(c, a[m])
    BY <1>2, <1>6, <2>1
  <2> QED BY <1>2, <2>1, <2>2, <2>3, VisitOwned
<1>7. Nat \subseteq S
  <2> HIDE DEF S
  <2> QED BY <1>5, <1>6, NatSet
<1>8. n \in 0..n /\ n =< n
  BY <1>2
<1> QED BY <1>2, <1>3, <1>4, <1>7, <1>8

-----------------------------------------------------------------------------
(* What a request does beside running a turn.                              *)

MetaEntry == [title : Titles, status : {"regular", "archived"}]
MetaType(m) == DOMAIN m \subseteq Id /\ \A t \in DOMAIN m : m[t] \in MetaEntry

LEMMA TouchedIs ==
  ASSUME MetaType(meta), NEW ts \in SUBSET Id
  PROVE  /\ MetaType(Touched(ts))
         /\ DOMAIN Touched(ts) = DOMAIN meta \cup ts
         /\ \A t \in DOMAIN meta : Touched(ts)[t] = meta[t]
         /\ \A t : MetaOf(t) \in MetaEntry
BY DEF Touched, MetaOf, MetaType, MetaEntry, Blank, Titles

\* A dictionary in which c has changed no entry but its own.
OwnChange(c, m) ==
  /\ MetaType(m) /\ DOMAIN meta \subseteq DOMAIN m
  /\ \A t \in DOMAIN m : (t \in DOMAIN meta /\ m[t] = meta[t]) \/ OwnedBy(c, t)

LEMMA TouchedOwn ==
  ASSUME MetaType(meta), NEW c, NEW ts \in SUBSET Id, \A t \in ts : OwnedBy(c, t)
  PROVE  OwnChange(c, Touched(ts))
BY TouchedIs DEF OwnChange

LEMMA ExceptOwn ==
  ASSUME MetaType(meta), NEW c, NEW t \in Id, OwnedBy(c, t), NEW entry \in MetaEntry
  PROVE  OwnChange(c, [Touched({t}) EXCEPT ![t] = entry])
<1> DEFINE m == [Touched({t}) EXCEPT ![t] = entry]
<1>1. OwnChange(c, Touched({t})) /\ DOMAIN Touched({t}) = DOMAIN meta \cup {t}
  BY TouchedOwn, TouchedIs
<1>2. /\ DOMAIN m = DOMAIN Touched({t}) /\ m[t] = entry
      /\ \A u \in DOMAIN m : u # t => m[u] = Touched({t})[u]
  BY <1>1 DEF Touched
<1> HIDE DEF m
<1>3. OwnChange(c, m)
  BY <1>1, <1>2 DEF OwnChange, MetaType
<1> QED BY <1>3 DEF m

LEMMA TellOwn ==
  ASSUME OwnTold, NEW c \in Caller, NEW ts \in SUBSET Id, \A t \in ts : OwnedBy(c, t),
         Tell(c, ts)
  PROVE  OwnTold' /\ ts \subseteq returned'[c] /\ \A d \in Caller : returned[d] \subseteq returned'[d]
<1>1. returned' = [returned EXCEPT ![c] = @ \cup ts]
  BY DEF Tell
<1>2. returned' \in [Caller -> SUBSET Id]
  BY <1>1 DEF OwnTold
<1>3. \A d \in Caller : returned'[d] = IF d = c THEN returned[d] \cup ts ELSE returned[d]
  BY <1>1 DEF OwnTold
<1>4. OwnTold'
  BY <1>2, <1>3 DEF OwnTold, OwnedBy, CallerPart
<1> QED BY <1>3, <1>4

\* What is left of the checkpoints, the dictionary and the ids when c has made a
\* request: without a thread of its own at most, and with changes of its own.
Managed(c) ==
  /\ turns' = turns
  /\ checkpoints' = checkpoints
     \/ \E t \in Id : Head(t) = CallerPart(c) /\ checkpoints' = Of(Threads \ {t}, checkpoints)
  /\ OwnChange(c, meta')
  /\ OwnTold' /\ \A d \in Caller : returned[d] \subseteq returned'[d]
  /\ minted' \in Nat

LEMMA ManageDoes ==
  ASSUME TypeOK, OwnTold, NEW c \in Caller, Manage(c)
  PROVE  Managed(c)
<1>0. /\ checkpoints \in Checkpoints /\ MetaType(meta) /\ minted \in Nat
      /\ OwnChange(c, meta)
  BY DEF TypeOK, Checkpoints, MetaType, MetaEntry, OwnChange
<1>1. ASSUME UNCHANGED returned
      PROVE  OwnTold' /\ \A d \in Caller : returned[d] \subseteq returned'[d]
  BY <1>1 DEF OwnTold, OwnedBy, CallerPart
<1>2. ASSUME NEW id \in Requested(c)
      PROVE  Route(c, id) \in Id /\ OwnedBy(c, Route(c, id))
             /\ Head(Route(c, id)) = CallerPart(c)
  BY RequestedId, RouteOwned
<1>3. ASSUME NEW id \in Requested(c), DeleteThread(c, id) PROVE Managed(c)
  BY <1>0, <1>1, <1>2, <1>3 DEF DeleteThread, Managed
<1>4. ASSUME NEW id \in Requested(c), GetThread(c, id) PROVE Managed(c)
  <2>1. OwnChange(c, Touched({Route(c, id)}))
    BY <1>0, <1>2, TouchedOwn
  <2> QED BY <1>0, <1>1, <1>4, <2>1 DEF GetThread, Managed
<1>5. ASSUME NEW id \in Requested(c), NEW title \in Titles,
             NEW status \in {"", "regular", "archived"}, PatchThread(c, id, title, status)
      PROVE  Managed(c)
  <2> DEFINE t == Route(c, id)
             entry == [title |-> IF title = "" THEN MetaOf(t).title ELSE title,
                       status |-> IF status = "" THEN MetaOf(t).status ELSE status]
  <2>1. entry \in MetaEntry
    <3>1. MetaOf(t) \in MetaEntry
      BY <1>0, TouchedIs
    <3> QED BY <3>1 DEF MetaEntry
  <2>2. meta' = [Touched({t}) EXCEPT ![t] = entry]
    BY <1>5 DEF PatchThread
  <2> HIDE DEF entry
  <2>3. OwnChange(c, meta')
    BY <1>0, <1>2, <2>1, <2>2, ExceptOwn
  <2> QED BY <1>0, <1>1, <1>5, <2>3 DEF PatchThread, Managed
<1>6. ASSUME NEW limit, NEW archivedToo, ListThreads(c, limit, archivedToo) PROVE Managed(c)
  <2> DEFINE scan == Scan(c, limit, archivedToo)
             named == {k.thread : k \in ToSet(scan.listed)}
  <2>1. scan \in Listing /\ OwnListing(c, scan)
    BY <1>0, ScanOwned
  <2>2. meta' = Touched(scan.seen) /\ Tell(c, named)
        /\ UNCHANGED <<checkpoints, turns, minted>>
    BY <1>6 DEF ListThreads
  <2> HIDE DEF scan
  <2>3. OwnChange(c, meta')
    BY <1>0, <2>1, <2>2, TouchedOwn DEF Listing, OwnListing
  <2>4. named \in SUBSET Id /\ \A t \in named : OwnedBy(c, t)
    <3>1. scan.listed \in Checkpoints
      BY <2>1 DEF Listing
    <3> QED BY <2>1, <3>1, CheckpointAt DEF OwnListing, ToSet
  <2> HIDE DEF named
  <2>5. OwnTold' /\ \A d \in Caller : returned[d] \subseteq returned'[d]
    BY <2>2, <2>4, TellOwn
  <2> QED BY <1>0, <2>2, <2>3, <2>5 DEF Managed
<1>7. ASSUME NEW id \in Requested(c) \cup {None}, NEW title \in Titles,
             InitializeThread(c, id, title)
      PROVE  Managed(c)
  <2> DEFINE t == IF id = None THEN <<CallerPart(c), FreshUuid>> ELSE Route(c, id)
  <2>1. t \in Id /\ OwnedBy(c, t)
    BY <1>0, <1>2, FreshId
  <2>2. /\ meta' = IF title = "" THEN Touched({t}) ELSE [Touched({t}) EXCEPT ![t].title = title]
        /\ Tell(c, {t})
    BY <1>7 DEF InitializeThread
  <2>5. minted' \in {minted, minted + 1} /\ UNCHANGED <<checkpoints, turns>>
    BY <1>7 DEF InitializeThread
  <2> HIDE DEF t
  <2>3. OwnChange(c, meta')
    <3>1. CASE title = ""
      BY <1>0, <2>1, <2>2, <3>1, TouchedOwn
    <3>2. CASE title # ""
      <4> DEFINE entry == [Touched({t})[t] EXCEPT !.title = title]
      <4>1. Touched({t})[t] \in MetaEntry /\ t \in DOMAIN Touched({t})
        BY <1>0, <2>1, TouchedIs DEF MetaType
      <4>2. entry \in MetaEntry
        BY <4>1 DEF MetaEntry
      <4>3. meta' = [Touched({t}) EXCEPT ![t] = entry]
        BY <2>2, <3>2, <4>1
      <4> HIDE DEF entry
      <4> QED BY <1>0, <2>1, <4>2, <4>3, ExceptOwn
    <3> QED BY <3>1, <3>2
  <2>4. OwnTold' /\ \A d \in Caller : returned[d] \subseteq returned'[d]
    BY <2>1, <2>2, TellOwn
  <2>6. minted' \in Nat
    BY <1>0, <2>5
  <2> QED BY <2>3, <2>4, <2>5, <2>6 DEF Managed
<1>8. "" \in Titles /\ "regular" \in {"", "regular", "archived"}
  BY DEF Titles
<1> QED BY <1>3, <1>4, <1>5, <1>6, <1>7, <1>8 DEF Manage, UnarchiveThread

-----------------------------------------------------------------------------
(* The invariant, and the properties of the ids.                           *)

Turn == [by : Caller \cup {Agui}, thread : Id, messages : Nat]

\* A turn a caller has started writes to a thread it has been told of.
TurnsTold ==
  \A r \in Request : turns[r].by # Agui => turns[r].thread \in returned[turns[r].by]

OwnInv == TypeOK /\ OwnTold /\ TurnsTold

LEMMA OwnInit == Init => OwnInv
<1> SUFFICES ASSUME Init PROVE OwnInv
  OBVIOUS
<1>1. Idle \in Turn
  BY DEF Turn, Idle, None, Id
<1> QED BY <1>1 DEF Init, OwnInv, TypeOK, OwnTold, TurnsTold, Turn, Idle

\* The start of a turn in slot r, on a thread its caller is told of.
LEMMA BeginOwn ==
  ASSUME OwnInv, NEW r \in Request, NEW c \in Caller, NEW t \in Id, OwnedBy(c, t),
         Begin(r, c, t), Tell(c, {t}), UNCHANGED <<checkpoints, meta>>, minted' \in Nat
  PROVE  OwnInv'
<1>1. checkpoints \in Checkpoints /\ turns \in [Request -> Turn]
  BY DEF OwnInv, TypeOK, Checkpoints, Turn
<1>2. OwnTold' /\ t \in returned'[c] /\ \A d \in Caller : returned[d] \subseteq returned'[d]
  BY TellOwn DEF OwnInv
<1>3. turns' = [turns EXCEPT ![r] = [by |-> c, thread |-> t, messages |-> Messages(t)]]
  BY DEF Begin
<1>4. turns' \in [Request -> Turn]
  BY <1>1, <1>3, MessagesType DEF Turn
<1>5. TypeOK'
  BY <1>2, <1>4 DEF OwnInv, TypeOK, OwnTold, Turn
<1>6. TurnsTold'
  BY <1>1, <1>2, <1>3 DEF OwnInv, TurnsTold, Turn
<1> QED BY <1>2, <1>5, <1>6 DEF OwnInv

LEMMA OwnNext == OwnInv /\ [Next]_vars => OwnInv'
<1> SUFFICES ASSUME OwnInv, [Next]_vars PROVE OwnInv'
  OBVIOUS
<1>0. /\ TypeOK /\ OwnTold /\ TurnsTold /\ minted \in Nat
      /\ turns \in [Request -> Turn]
  BY DEF OwnInv, TypeOK, Turn
<1>1. ASSUME NEW c \in Caller, StartTurn(c) PROVE OwnInv'
  <2>1. ASSUME NEW r \in Request, NEW req \in ChatRequest(c), Chat(r, c, req) PROVE OwnInv'
    <3> DEFINE t == Resolve(c, req)
    <3>1. t \in Id /\ OwnedBy(c, t)
      BY <1>0, ResolveOwned
    <3>2. /\ Begin(r, c, t) /\ Tell(c, {t}) /\ UNCHANGED <<checkpoints, meta>>
          /\ minted' \in {minted, minted + 1}
      BY <2>1 DEF Chat
    <3> HIDE DEF t
    <3> QED BY <1>0, <3>1, <3>2, BeginOwn
  <2>2. ASSUME NEW r \in Request, NEW id \in Requested(c), Resume(r, c, id) PROVE OwnInv'
    <3>1. Route(c, id) \in Id /\ OwnedBy(c, Route(c, id))
      BY <1>0, RequestedId, RouteOwned
    <3> QED BY <1>0, <2>2, <3>1, BeginOwn DEF Resume
  <2> QED BY <1>1, <2>1, <2>2 DEF StartTurn
<1>2. ASSUME NEW c \in Caller, Manage(c) PROVE OwnInv'
  <2>1. Managed(c)
    BY <1>0, <1>2, ManageDoes
  <2>2. checkpoints' \in Checkpoints
    <3> DEFINE K == [thread : Id, messages : Nat]
    <3>1. checkpoints \in Seq(K)
      BY <1>0 DEF TypeOK
    <3> HIDE DEF K
    <3>2. checkpoints' \in Seq(K)
      BY <2>1, <3>1, OfType DEF Managed
    <3> QED BY <3>2 DEF Checkpoints, K
  <2>3. TypeOK'
    BY <1>0, <2>1, <2>2
       DEF TypeOK, Managed, OwnChange, MetaType, MetaEntry, OwnTold, Checkpoints
  <2>4. TurnsTold'
    BY <1>0, <2>1 DEF Managed, TurnsTold, Turn
  <2> QED BY <2>1, <2>3, <2>4 DEF OwnInv, Managed
<1>3. ASSUME NEW r \in Request, Checkpoint(r) PROVE OwnInv'
  <2> DEFINE longer == turns[r].messages + 1
             k == [thread |-> turns[r].thread, messages |-> longer]
  <2>1. /\ turns[r] # Idle /\ checkpoints' = Append(checkpoints, k)
        /\ turns' = [turns EXCEPT ![r].messages = longer]
        /\ UNCHANGED <<meta, returned, minted>>
    BY <1>3 DEF Checkpoint
  <2>2. longer \in Nat /\ k \in [thread : Id, messages : Nat]
    BY <1>0 DEF Turn
  <2>3. checkpoints' \in Checkpoints
    <3> HIDE DEF k
    <3>1. checkpoints \in Checkpoints
      BY <1>0 DEF TypeOK, Checkpoints
    <3> QED BY <2>1, <2>2, <3>1, ListedMore
  <2>4. turns' \in [Request -> Turn]
        /\ \A q \in Request : turns'[q].by = turns[q].by /\ turns'[q].thread = turns[q].thread
    <3> HIDE DEF longer
    <3> QED BY <1>0, <2>1, <2>2 DEF Turn
  <2>5. TypeOK'
    BY <1>0, <2>1, <2>3, <2>4 DEF TypeOK, Checkpoints, Turn
  <2>6. OwnTold' /\ TurnsTold'
    BY <1>0, <2>1, <2>4 DEF OwnTold, OwnedBy, CallerPart, TurnsTold
  <2> QED BY <2>5, <2>6 DEF OwnInv
<1>4. ASSUME NEW r \in Request, EndTurn(r) PROVE OwnInv'
  <2>1. /\ turns' = [turns EXCEPT ![r] = Idle]
        /\ UNCHANGED <<checkpoints, meta, returned, minted>>
    BY <1>4 DEF EndTurn
  <2>2. Idle \in Turn
    BY DEF Turn, Idle, None, Id
  <2>3. turns' \in [Request -> Turn]
    BY <1>0, <2>1, <2>2
  <2>4. TypeOK'
    BY <1>0, <2>1, <2>3 DEF TypeOK, Turn
  <2>5. OwnTold' /\ TurnsTold'
    BY <1>0, <2>1 DEF OwnTold, OwnedBy, CallerPart, TurnsTold, Idle
  <2> QED BY <2>4, <2>5 DEF OwnInv
<1>5. CASE Restart
  <2>1. /\ checkpoints' \in {checkpoints, <<>>} /\ meta' = <<>>
        /\ turns' = [r \in Request |-> Idle] /\ UNCHANGED <<returned, minted>>
    BY <1>5 DEF Restart
  <2>2. Idle \in Turn
    BY DEF Turn, Idle, None, Id
  <2>3. checkpoints' \in Seq([thread : Id, messages : Nat])
    <3> DEFINE K == [thread : Id, messages : Nat]
    <3>1. checkpoints \in Seq(K)
      BY <1>0 DEF TypeOK
    <3> HIDE DEF K
    <3>2. <<>> \in Seq(K)
      OBVIOUS
    <3>3. checkpoints' \in Seq(K)
      BY <2>1, <3>1, <3>2
    <3> QED BY <3>3 DEF K
  <2>4. TypeOK'
    BY <1>0, <2>1, <2>2, <2>3 DEF TypeOK, Turn
  <2>5. OwnTold' /\ TurnsTold'
    BY <1>0, <2>1 DEF OwnTold, OwnedBy, CallerPart, TurnsTold, Idle
  <2> QED BY <2>4, <2>5 DEF OwnInv
<1>6. ASSUME NEW r \in Request, NEW id \in AguiId, AguiRun(r, id) PROVE OwnInv'
  <2>1. /\ turns' = [turns EXCEPT ![r] = [by |-> Agui, thread |-> id, messages |-> Messages(id)]]
        /\ UNCHANGED <<checkpoints, meta, returned, minted>>
    BY <1>6 DEF AguiRun, Begin
  <2>2. id \in Id /\ Messages(id) \in Nat
    BY <1>0, NamesAssumption, MessagesType DEF TypeOK, Checkpoints
  <2>3. turns' \in [Request -> Turn]
    BY <1>0, <2>1, <2>2 DEF Turn
  <2>4. TypeOK'
    BY <1>0, <2>1, <2>3 DEF TypeOK, Turn
  <2>5. OwnTold' /\ TurnsTold'
    BY <1>0, <2>1 DEF OwnTold, OwnedBy, CallerPart, TurnsTold, Turn
  <2> QED BY <2>4, <2>5 DEF OwnInv
<1>7. CASE UNCHANGED vars
  BY <1>7 DEF vars, OwnInv, TypeOK, OwnTold, OwnedBy, CallerPart, TurnsTold
<1> QED BY <1>1, <1>2, <1>3, <1>4, <1>5, <1>6, <1>7 DEF Next

LEMMA OwnCorrect == Spec => []OwnInv
BY OwnInit, OwnNext, PTL DEF Spec

\* What the server keeps and what its clients hold is always well typed.
THEOREM TypeCorrect == Spec => []TypeOK
<1>1. OwnInv => TypeOK
  BY DEF OwnInv
<1> QED BY <1>1, OwnCorrect, PTL

\* For any callers, and whatever their clients make up as ids: every id that a
\* response has named still names its thread when it comes back without a topic, and
\* is nobody else's (resolve_thread_id, _thread_id_for, _strip_caller_prefix).
THEOREM HandlesCorrect == Spec => []HandlesComeBack
<1>1. OwnInv => HandlesComeBack
  <2> SUFFICES ASSUME OwnInv, NEW c \in Caller, NEW t \in returned[c]
               PROVE  /\ \A req \in ChatRequest(c) :
                           req.thread = t /\ ~req.fresh /\ req.topic = None => Resolve(c, req) = t
                      /\ Route(c, Strip(c, t)) = t
                      /\ \A d \in Caller \ {c} : t \notin returned[d] /\ OwnedBy(d, Route(d, t))
    BY DEF HandlesComeBack
  <2>1. t \in Id /\ OwnedBy(c, t)
    BY DEF OwnInv, OwnTold
  <2>2. t # None
    BY <2>1 DEF OwnedBy, None
  <2>3. \A req \in ChatRequest(c) : req.thread = t /\ ~req.fresh /\ req.topic = None => Resolve(c, req) = t
    BY <2>1, <2>2 DEF Resolve
  <2>4. \A d \in Caller \ {c} : t \notin returned[d]
    BY <2>1, OneOwner DEF OwnInv, OwnTold
  <2> QED BY <2>1, <2>2, <2>3, <2>4, StripRoute, RouteOwned
<1> QED BY <1>1, OwnCorrect, PTL

-----------------------------------------------------------------------------
(* No caller reaches the threads of another.                               *)

\* What a request of c leaves of what is kept of the threads of d.
LEMMA ManageApart ==
  ASSUME OwnInv, NEW c \in Caller, NEW d \in Caller \ {c}, Manage(c)
  PROVE  Written(d)' = Written(d) /\ Described(d)' = Described(d)
<1>1. Managed(c)
  BY ManageDoes DEF OwnInv
<1>2. Written(d)' = Written(d)
  <2> DEFINE us == {t \in Id : OwnedBy(d, t)}
             K == [thread : Id, messages : Nat]
  <2>1. Written(d) = Of(us, checkpoints) /\ Written(d)' = Of(us, checkpoints')
    BY DEF Written, OwnedBy, CallerPart
  <2>2. CASE checkpoints' = checkpoints
    BY <2>1, <2>2
  <2>3. ASSUME NEW t \in Id, Head(t) = CallerPart(c),
               checkpoints' = Of(Threads \ {t}, checkpoints)
        PROVE  Written(d)' = Written(d)
    <3>1. t \notin us
      BY <2>3, CallerPartOf DEF OwnedBy
    <3>2. checkpoints \in Seq(K) /\ DOMAIN checkpoints = 1..Len(checkpoints)
      BY DEF OwnInv, TypeOK
    <3>3. \A i \in 1..Len(checkpoints) :
            checkpoints[i].thread \in us => checkpoints[i].thread \in Threads \ {t}
      BY <3>1, <3>2 DEF Threads
    <3> HIDE DEF us, K
    <3>4. Of(us, Of(Threads \ {t}, checkpoints)) = Of(us, checkpoints)
      BY <3>2, <3>3, OfOf
    <3> QED BY <2>1, <2>3, <3>4
  <2> QED BY <1>1, <2>2, <2>3 DEF Managed
<1>3. Described(d)' = Described(d)
  <2>1. OwnChange(c, meta')
    BY <1>1 DEF Managed
  <2> DEFINE mine == {t \in DOMAIN meta : OwnedBy(d, t)}
             mine1 == {t \in DOMAIN meta' : OwnedBy(d, t)}
  <2>2. \A t \in DOMAIN meta' : OwnedBy(d, t) => t \in DOMAIN meta /\ meta'[t] = meta[t]
    BY <2>1, OneOwner DEF OwnChange
  <2>3. mine1 = mine /\ \A t \in mine : t \in DOMAIN meta /\ t \in DOMAIN meta' /\ meta'[t] = meta[t]
    BY <2>1, <2>2 DEF OwnChange
  <2>4. Described(d) = {<<t, meta[t]>> : t \in mine}
    BY DEF Described, MetaOf
  <2>5. Described(d)' = {<<t, meta'[t]>> : t \in mine1}
    BY DEF Described, MetaOf, OwnedBy, CallerPart
  <2> HIDE DEF mine, mine1
  <2> QED BY <2>3, <2>4, <2>5
<1> QED BY <1>2, <1>3

\* For any callers, and whatever ids their clients send, own or made to look like
\* another's: no request of /v1 writes, archives, titles or deletes a thread of
\* another caller, no caller is told of one, and the turn of a caller writes only
\* where that caller was told (_thread_id_for, resolve_thread_id, list_threads).  The
\* turns of /agui are among the steps, and nothing is said of where they write.
THEOREM IsolationCorrect == Spec => CallersApart
<1> DEFINE Apart ==
      /\ turns' = turns /\ checkpoints' # checkpoints =>
           \A d \in Caller : Written(d)' # Written(d) => NotByOthers(d)
      /\ turns' = turns /\ meta' # meta =>
           \A d \in Caller : Described(d)' # Described(d) => NotByOthers(d)
      /\ \A c \in Caller : \A t \in returned'[c] : OwnedBy(c, t)
      /\ \A r \in Request :
           turns'[r].by # Agui => turns'[r].thread \in returned'[turns'[r].by]
<1>1. ASSUME OwnInv, [Next]_vars PROVE Apart
  <2>1. OwnInv'
    BY <1>1, OwnNext
  <2>2. \A d \in Caller : Written(d)' # Written(d) => NotByOthers(d)
    BY <1>1, ManageApart DEF NotByOthers
  <2>3. \A d \in Caller : Described(d)' # Described(d) => NotByOthers(d)
    BY <1>1, ManageApart DEF NotByOthers
  <2>4. \A c \in Caller : \A t \in returned'[c] : OwnedBy(c, t)
    BY <2>1 DEF OwnInv, OwnTold, OwnedBy, CallerPart
  <2>5. \A r \in Request :
          turns'[r].by # Agui => turns'[r].thread \in returned'[turns'[r].by]
    BY <2>1 DEF OwnInv, TurnsTold
  <2> QED BY <2>2, <2>3, <2>4, <2>5
<1>2. OwnInv /\ [Next]_vars => [Apart]_vars
  BY <1>1
<1>3. Spec => [][Apart]_vars
  <2> HIDE DEF Apart
  <2> QED BY <1>2, OwnInit, OwnNext, PTL DEF Spec
<1> QED BY <1>3 DEF CallersApart

-----------------------------------------------------------------------------
(* What a listing is.                                                      *)

\* The age of a thread is the place of its newest checkpoint, counted back.
LEMMA AgeIs ==
  ASSUME checkpoints \in Checkpoints, NEW t \in Threads
  PROVE  LET k == Len(checkpoints) IN
         /\ Age(t) \in 1..k /\ LastOf(t) = k - Age(t) + 1
         /\ checkpoints[k - Age(t) + 1].thread = t
         /\ Messages(t) = checkpoints[k - Age(t) + 1].messages
         /\ \A i \in 1..k : checkpoints[k - i + 1].thread = t => Age(t) =< i
<1> DEFINE k == Len(checkpoints)
<1>1. k \in Nat
  BY CheckpointAt
<1>2. /\ LastOf(t) \in 0..k /\ LastOf(t) # 0 /\ checkpoints[LastOf(t)].thread = t
      /\ \A i \in 1..k : checkpoints[i].thread = t => i =< LastOf(t)
  BY LastOfIs
<1>3. Age(t) = k - LastOf(t) + 1
  BY DEF Age
<1>4. Messages(t) = checkpoints[LastOf(t)].messages
  BY <1>2 DEF Messages
<1> HIDE DEF k
<1>5. Age(t) \in 1..k /\ LastOf(t) = k - Age(t) + 1
  BY <1>1, <1>2, <1>3
<1>6. ASSUME NEW i \in 1..k, checkpoints[k - i + 1].thread = t PROVE Age(t) =< i
  <2>1. k - i + 1 \in 1..k
    BY <1>1
  <2>2. k - i + 1 =< LastOf(t)
    BY <1>2, <1>6, <2>1
  <2> QED BY <1>1, <1>2, <1>3, <2>2
<1> QED BY <1>2, <1>4, <1>5, <1>6 DEF k

\* The threads of c that it looks for among the first i checkpoints of the window.
Due(c, i) == {t \in Threads : OwnedBy(c, t) /\ Age(t) =< i}

\* An entry of the listing after i checkpoints.
Faithful(c, archivedToo, i, k) ==
  /\ k.thread \in Due(c, i)
  /\ k.messages = Messages(k.thread)
  /\ archivedToo \/ ~Archived(k.thread)

\* The entries of a listing come in the order of their age.
Ordered(listed) ==
  \A i, j \in DOMAIN listed : i < j => Age(listed[i].thread) < Age(listed[j].thread)

\* Thread t is listed, hidden, or older than all of a full listing.
Accounted(most, archivedToo, listed, t) ==
  \/ \E j \in DOMAIN listed : listed[j].thread = t
  \/ Archived(t) /\ ~archivedToo
  \/ Len(listed) = most /\ \A j \in DOMAIN listed : Age(listed[j].thread) < Age(t)

\* What holds of the loop after i checkpoints: as long as there is room it has seen
\* every thread that was due.
ScanInv(c, most, archivedToo, i, acc) ==
  /\ acc \in Listing /\ Len(acc.listed) =< most
  /\ \A j \in DOMAIN acc.listed : Faithful(c, archivedToo, i, acc.listed[j])
  /\ Ordered(acc.listed)
  /\ acc.seen \subseteq Due(c, i)
  /\ Len(acc.listed) < most => Due(c, i) \subseteq acc.seen
  /\ \A t \in Due(c, i) : Accounted(most, archivedToo, acc.listed, t)

LEMMA ScanInvStart ==
  ASSUME checkpoints \in Checkpoints, NEW c, NEW most \in Nat, NEW archivedToo
  PROVE  ScanInv(c, most, archivedToo, 0, Nothing)
<1>1. Due(c, 0) = {}
  <2>1. \A t \in Threads : Age(t) \in 1..Len(checkpoints) /\ Len(checkpoints) \in Nat
    BY AgeIs, CheckpointAt
  <2>2. \A t \in Threads : ~(Age(t) =< 0)
    BY <2>1
  <2> QED BY <2>2 DEF Due
<1>2. Nothing \in Listing /\ Nothing.listed = <<>> /\ Nothing.seen = {}
  BY DEF Nothing, Listing, Checkpoints
<1>3. Len(<<>>) = 0 /\ DOMAIN <<>> = {}
  OBVIOUS
<1> QED BY <1>1, <1>2, <1>3 DEF ScanInv, Ordered

\* The next checkpoint of the window: its thread is due from now on, if it is the
\* caller's, and no other thread becomes due.
LEMMA DueNext ==
  ASSUME checkpoints \in Checkpoints, NEW c, NEW i \in Nat, i + 1 \in 1..Len(checkpoints)
  PROVE  LET u == checkpoints[Len(checkpoints) - i].thread IN
         /\ u \in Threads /\ Age(u) =< i + 1
         /\ Due(c, i) \subseteq Due(c, i + 1)
         /\ \A t \in Due(c, i + 1) \ Due(c, i) : t = u /\ OwnedBy(c, t) /\ Age(t) = i + 1
<1> DEFINE n == Len(checkpoints)
           u == checkpoints[n - i].thread
<1>1. n \in Nat /\ DOMAIN checkpoints = 1..n
  BY CheckpointAt
<1>2. n - i \in 1..n /\ n - (i + 1) + 1 = n - i
  BY <1>1
<1>3. u \in Threads
  BY <1>1, <1>2 DEF Threads
<1>4. \A t \in Threads : /\ Age(t) \in 1..n /\ checkpoints[n - Age(t) + 1].thread = t
                         /\ \A j \in 1..n : checkpoints[n - j + 1].thread = t => Age(t) =< j
  BY AgeIs
<1> HIDE DEF n
<1>5. Age(u) =< i + 1
  BY <1>2, <1>3, <1>4 DEF n
<1>6. \A t \in Threads : Age(t) =< i => Age(t) =< i + 1
  BY <1>1, <1>4
<1>7. ASSUME NEW t \in Threads, Age(t) =< i + 1, ~(Age(t) =< i)
      PROVE  t = u /\ Age(t) = i + 1
  <2>1. Age(t) = i + 1
    BY <1>1, <1>4, <1>7
  <2> QED BY <1>2, <1>4, <2>1
<1> QED BY <1>3, <1>5, <1>6, <1>7 DEF Due, n

\* Lists the checkpoint of a thread that has just become due.
LEMMA ListNext ==
  ASSUME checkpoints \in Checkpoints, NEW c, NEW most \in Nat, NEW archivedToo \in BOOLEAN,
         NEW i \in Nat, NEW acc \in Listing, ScanInv(c, most, archivedToo, i, acc),
         NEW k \in [thread : Id, messages : Nat], Len(acc.listed) < most,
         Due(c, i + 1) = Due(c, i) \cup {k.thread}, Age(k.thread) = i + 1,
         k.messages = Messages(k.thread), archivedToo \/ ~Archived(k.thread)
  PROVE  ScanInv(c, most, archivedToo, i + 1,
                 [seen |-> acc.seen \cup {k.thread}, listed |-> Append(acc.listed, k)])
<1> DEFINE old == acc.listed
           new == Append(acc.listed, k)
           n == Len(old)
<1>1. /\ old \in Checkpoints /\ new \in Checkpoints /\ n \in Nat /\ Len(new) = n + 1
      /\ DOMAIN old = 1..n /\ DOMAIN new = 1..(n + 1)
      /\ new[n + 1] = k /\ \A j \in 1..n : new[j] = old[j]
  BY ListedMore DEF Listing
<1>2. /\ \A j \in 1..n : Faithful(c, archivedToo, i, old[j])
      /\ Ordered(old) /\ acc.seen = Due(c, i)
      /\ \A t \in Due(c, i) : Accounted(most, archivedToo, old, t)
  BY <1>1 DEF ScanInv
<1> HIDE DEF old, new, n
<1>3. \A j \in 1..(n + 1) : j = n + 1 \/ (j \in 1..n /\ j < n + 1)
  BY <1>1
<1>4. \A j \in 1..n : old[j].thread \in Threads /\ Age(old[j].thread) =< i
  BY <1>2 DEF Faithful, Due
<1>5. \A j \in 1..(n + 1) : Faithful(c, archivedToo, i + 1, new[j])
  BY <1>1, <1>2, <1>3 DEF Faithful
<1>6. Ordered(new)
  <2> SUFFICES ASSUME NEW j \in 1..(n + 1), NEW l \in 1..(n + 1), j < l
               PROVE  Age(new[j].thread) < Age(new[l].thread)
    BY <1>1 DEF Ordered
  <2>1. j \in 1..n
    BY <1>1
  <2>2. CASE l = n + 1
    <3>1. new[l].thread = k.thread /\ new[j] = old[j] /\ Age(old[j].thread) =< i
      BY <1>1, <1>4, <2>1, <2>2
    <3>2. Age(old[j].thread) \in Nat
      BY <1>4, <2>1, AgeIs, CheckpointAt
    <3> QED BY <3>1, <3>2
  <2>3. CASE l \in 1..n
    BY <1>1, <1>2, <2>1, <2>3 DEF Ordered
  <2> QED BY <1>3, <2>2, <2>3
<1>7. ASSUME NEW t \in Due(c, i + 1) PROVE Accounted(most, archivedToo, new, t)
  <2>1. CASE t = k.thread
    <3>1. n + 1 \in 1..(n + 1)
      BY <1>1
    <3> QED BY <1>1, <2>1, <3>1 DEF Accounted
  <2>2. CASE t \in Due(c, i)
    <3>1. Accounted(most, archivedToo, old, t) /\ Len(old) # most
      BY <1>2, <2>2 DEF old
    <3>2. CASE \E j \in DOMAIN old : old[j].thread = t
      <4>1. PICK j \in 1..n : old[j].thread = t
        BY <1>1, <3>2
      <4>2. j \in 1..(n + 1) /\ new[j].thread = t
        BY <1>1, <4>1
      <4> QED BY <1>1, <4>2 DEF Accounted
    <3> QED BY <3>1, <3>2 DEF Accounted
  <2> QED BY <2>1, <2>2
<1>8. k.thread \in Id
  OBVIOUS
<1>9. [seen |-> acc.seen \cup {k.thread}, listed |-> new] \in Listing
  BY <1>1, <1>8 DEF Listing
<1>10. Len(new) =< most
  BY <1>1 DEF n, old
<1>11. ScanInv(c, most, archivedToo, i + 1,
               [seen |-> acc.seen \cup {k.thread}, listed |-> new])
  BY <1>1, <1>2, <1>5, <1>6, <1>7, <1>9, <1>10 DEF ScanInv
<1> QED BY <1>11 DEF new

\* A checkpoint that adds nothing to the listing.
LEMMA SkipNext ==
  ASSUME NEW c, NEW most \in Nat, NEW archivedToo \in BOOLEAN,
         NEW i \in Nat, NEW acc, ScanInv(c, most, archivedToo, i, acc),
         NEW seen \in SUBSET Id, acc.seen \subseteq seen, seen \subseteq Due(c, i + 1),
         Due(c, i) \subseteq Due(c, i + 1),
         Len(acc.listed) < most => Due(c, i + 1) \subseteq seen,
         \A t \in Due(c, i + 1) \ Due(c, i) : Accounted(most, archivedToo, acc.listed, t)
  PROVE  ScanInv(c, most, archivedToo, i + 1, [seen |-> seen, listed |-> acc.listed])
<1>1. [seen |-> seen, listed |-> acc.listed] \in Listing
  BY DEF ScanInv, Listing
<1>2. \A j \in DOMAIN acc.listed : Faithful(c, archivedToo, i + 1, acc.listed[j])
  BY DEF ScanInv, Faithful
<1>3. \A t \in Due(c, i + 1) : Accounted(most, archivedToo, acc.listed, t)
  BY DEF ScanInv
<1> QED BY <1>1, <1>2, <1>3 DEF ScanInv

LEMMA ScanInvNext ==
  ASSUME checkpoints \in Checkpoints, NEW c, NEW most \in Nat, NEW archivedToo \in BOOLEAN,
         NEW i \in Nat, i + 1 \in 1..Len(checkpoints),
         NEW acc, ScanInv(c, most, archivedToo, i, acc)
  PROVE  ScanInv(c, most, archivedToo, i + 1,
                 Visit(c, most, archivedToo, acc, checkpoints[Len(checkpoints) - i]))
<1> DEFINE k == checkpoints[Len(checkpoints) - i]
           u == k.thread
           next == Visit(c, most, archivedToo, acc, k)
<1>0. /\ acc \in Listing /\ Len(acc.listed) =< most /\ acc.seen \subseteq Due(c, i)
      /\ Len(acc.listed) < most => Due(c, i) \subseteq acc.seen
      /\ acc.seen \in SUBSET Id /\ acc.listed \in Checkpoints
  BY DEF ScanInv, Listing
<1>1. /\ u \in Threads /\ Age(u) =< i + 1 /\ Due(c, i) \subseteq Due(c, i + 1)
      /\ \A t \in Due(c, i + 1) \ Due(c, i) : t = u /\ OwnedBy(c, t) /\ Age(t) = i + 1
  BY DueNext
<1>2. k \in [thread : Id, messages : Nat] /\ Len(acc.listed) \in Nat
  <2>1. Len(checkpoints) \in Nat
    BY CheckpointAt
  <2>2. Len(checkpoints) - i \in 1..Len(checkpoints)
    BY <2>1
  <2> QED BY <1>0, <2>2, CheckpointAt
<1>3. acc = [seen |-> acc.seen, listed |-> acc.listed]
  BY <1>0 DEF Listing
<1>4. CASE Len(acc.listed) >= most
  <2>1. next = acc /\ Len(acc.listed) = most
    BY <1>0, <1>2, <1>4 DEF Visit
  <2>2. ASSUME NEW t \in Due(c, i + 1) \ Due(c, i)
        PROVE  Accounted(most, archivedToo, acc.listed, t)
    <3>1. ASSUME NEW j \in DOMAIN acc.listed PROVE Age(acc.listed[j].thread) < Age(t)
      <4>1. acc.listed[j].thread \in Threads /\ Age(acc.listed[j].thread) =< i
        BY DEF ScanInv, Faithful, Due
      <4>2. Age(acc.listed[j].thread) \in Nat
        BY <4>1, AgeIs, CheckpointAt
      <4> QED BY <1>1, <4>1, <4>2
    <3> QED BY <2>1, <3>1 DEF Accounted
  <2>3. ScanInv(c, most, archivedToo, i + 1, [seen |-> acc.seen, listed |-> acc.listed])
    BY <1>0, <1>1, <2>1, <2>2, SkipNext
  <2> QED BY <1>3, <2>1, <2>3
<1>5. CASE Len(acc.listed) < most /\ (~OwnedBy(c, u) \/ u \in acc.seen)
  <2>1. next = acc
    BY <1>5 DEF Visit
  <2>2. Due(c, i + 1) = Due(c, i)
    <3>1. u \in acc.seen => u \in Due(c, i)
      BY <1>0
    <3> QED BY <1>1, <1>5, <3>1
  <2>3. ScanInv(c, most, archivedToo, i + 1, [seen |-> acc.seen, listed |-> acc.listed])
    BY <1>0, <1>5, <2>2, SkipNext
  <2> QED BY <1>3, <2>1, <2>3
<1>6. CASE Len(acc.listed) < most /\ OwnedBy(c, u) /\ u \notin acc.seen
  <2>1. /\ u \notin Due(c, i) /\ u \in Due(c, i + 1) /\ Age(u) = i + 1
        /\ Due(c, i + 1) = Due(c, i) \cup {u}
    <3>1. u \notin Due(c, i)
      BY <1>0, <1>6
    <3>2. u \in Due(c, i + 1)
      BY <1>1, <1>6 DEF Due
    <3> QED BY <1>1, <3>1, <3>2
  <2>2. ~(Len(acc.listed) >= most)
    BY <1>2, <1>6
  <2>3. CASE Archived(u) /\ ~archivedToo
    <3>1. next = [seen |-> acc.seen \cup {u}, listed |-> acc.listed]
      BY <1>6, <2>2, <2>3 DEF Visit
    <3>2. acc.seen \cup {u} \in SUBSET Id
      BY <1>0, <1>2
    <3>3. \A t \in Due(c, i + 1) \ Due(c, i) : Accounted(most, archivedToo, acc.listed, t)
      BY <1>1, <2>3 DEF Accounted
    <3> HIDE DEF next, u
    <3>4. ScanInv(c, most, archivedToo, i + 1, [seen |-> acc.seen \cup {u}, listed |-> acc.listed])
      BY <1>0, <1>6, <2>1, <3>2, <3>3, SkipNext
    <3> QED BY <3>1, <3>4 DEF next
  <2>4. CASE ~(Archived(u) /\ ~archivedToo)
    <3>1. next = [seen |-> acc.seen \cup {u}, listed |-> Append(acc.listed, k)]
      BY <1>6, <2>2, <2>4 DEF Visit
    <3>2. k.messages = Messages(u)
      <4>1. /\ Messages(u) = checkpoints[Len(checkpoints) - Age(u) + 1].messages
            /\ Len(checkpoints) \in Nat
        BY <1>1, AgeIs, CheckpointAt
      <4>2. Len(checkpoints) - Age(u) + 1 = Len(checkpoints) - i
        BY <2>1, <4>1
      <4> QED BY <4>1, <4>2
    <3> HIDE DEF k, next
    <3>3. ScanInv(c, most, archivedToo, i + 1,
                  [seen |-> acc.seen \cup {u}, listed |-> Append(acc.listed, k)])
      BY <1>0, <1>2, <1>6, <2>1, <2>4, <3>2, ListNext
    <3> QED BY <3>1, <3>3 DEF next, k
  <2> QED BY <2>3, <2>4
<1> QED BY <1>2, <1>4, <1>5, <1>6

\* What the loop has when it has read the window.
LEMMA ScanFaithful ==
  ASSUME checkpoints \in Checkpoints, NEW c, NEW limit, Clamp(limit) \in Nat,
         NEW archivedToo \in BOOLEAN
  PROVE  ScanInv(c, Clamp(limit), archivedToo, Len(Newest(ListWindow)), Scan(c, limit, archivedToo))
<1> DEFINE ks == Newest(ListWindow)
           most == Clamp(limit)
           n == Len(ks)
           k == Len(checkpoints)
<1>1. k \in Nat /\ n \in Nat /\ n =< k /\ \A i \in 1..n : ks[i] = checkpoints[k - i + 1]
  <2>1. ListWindow \in Nat \ {0} /\ k \in Nat
    BY BoundsAssumption, CheckpointAt
  <2>2. n = IF k < ListWindow THEN k ELSE ListWindow
    BY <2>1, NewestIs
  <2>3. \A i \in 1..n : ks[i] = checkpoints[k - i + 1]
    BY <2>1, NewestIs
  <2> QED BY <2>1, <2>2, <2>3
<1>2. PICK a : Scans(a, c, most, archivedToo, ks) /\ Scan(c, limit, archivedToo) = a[n]
  BY ScanTrace
<1> HIDE DEF ks, n, most, k
<1>3. /\ a[0] = Nothing
      /\ \A i \in 1..n : a[i] = Visit(c, most, archivedToo, a[i - 1], ks[i])
  BY <1>2 DEF Scans, n
<1> DEFINE S == {m \in Nat : m =< n => ScanInv(c, most, archivedToo, m, a[m])}
<1>4. 0 \in S
  BY <1>3, ScanInvStart DEF most
<1>5. ASSUME NEW m \in Nat, m \in S PROVE m + 1 \in S
  <2> SUFFICES ASSUME m + 1 =< n PROVE ScanInv(c, most, archivedToo, m + 1, a[m + 1])
    OBVIOUS
  <2>1. m + 1 \in 1..n /\ m + 1 \in 1..k /\ m =< n /\ (m + 1) - 1 = m /\ k - (m + 1) + 1 = k - m
    BY <1>1
  <2>2. a[m + 1] = Visit(c, most, archivedToo, a[m], checkpoints[k - m])
    BY <1>1, <1>3, <2>1
  <2>3. ScanInv(c, most, archivedToo, m, a[m])
    BY <1>5, <2>1
  <2> QED BY <2>1, <2>2, <2>3, ScanInvNext DEF k, most
<1>6. ScanInv(c, most, archivedToo, n, a[n])
  <2>1. Nat \subseteq S
    <3> HIDE DEF S
    <3> QED BY <1>4, <1>5, NatSet
  <2> QED BY <1>1, <2>1
<1> QED BY <1>2, <1>6 DEF n, ks, most

\* get_thread reads a shorter window the same way.
LEMMA FetchedIs ==
  ASSUME checkpoints \in Checkpoints, NEW t \in Threads
  PROVE  Fetched(t) = IF Age(t) > GetWindow THEN 0 ELSE Messages(t)
<1> DEFINE ks == Newest(GetWindow)
           n == Len(ks)
           k == Len(checkpoints)
           found == {i \in 1..n : ks[i].thread = t}
<1>1. /\ k \in Nat /\ GetWindow \in Nat \ {0}
      /\ n = IF k < GetWindow THEN k ELSE GetWindow
      /\ \A i \in 1..n : ks[i] = checkpoints[k - i + 1]
  <2>1. GetWindow \in Nat \ {0} /\ k \in Nat
    BY BoundsAssumption, CheckpointAt
  <2>2. n = IF k < GetWindow THEN k ELSE GetWindow
    BY <2>1, NewestIs
  <2>3. \A i \in 1..n : ks[i] = checkpoints[k - i + 1]
    BY <2>1, NewestIs
  <2> QED BY <2>1, <2>2, <2>3
<1>2. /\ Age(t) \in 1..k /\ checkpoints[k - Age(t) + 1].thread = t
      /\ Messages(t) = checkpoints[k - Age(t) + 1].messages
      /\ \A i \in 1..k : checkpoints[k - i + 1].thread = t => Age(t) =< i
  BY AgeIs
<1>3. Fetched(t) = LET first == IF found # {} THEN Min(found) ELSE 0
                   IN IF first = 0 THEN 0 ELSE ks[first].messages
  BY DEF Fetched, SelectInSeq
<1> HIDE DEF ks, n, k
<1>4. \A i \in found : i \in 1..n /\ Age(t) =< i
  <2> SUFFICES ASSUME NEW i \in 1..n, ks[i].thread = t PROVE Age(t) =< i
    OBVIOUS
  <2>1. i \in 1..k /\ checkpoints[k - i + 1].thread = t
    BY <1>1
  <2> QED BY <1>2, <2>1
<1>5. CASE Age(t) > GetWindow
  <2>1. \A i \in 1..n : ~(Age(t) =< i)
    BY <1>1, <1>2, <1>5
  <2>2. found = {}
    BY <1>4, <2>1
  <2> QED BY <1>3, <1>5, <2>2
<1>6. CASE ~(Age(t) > GetWindow)
  <2>1. Age(t) \in 1..n
    BY <1>1, <1>2, <1>6
  <2>2. Age(t) \in found /\ ks[Age(t)].messages = Messages(t)
    BY <1>1, <1>2, <2>1
  <2>3. found \subseteq Nat /\ Age(t) \in Nat
    BY <1>1, <2>1
  <2> HIDE DEF found
  <2>4. Min(found) = Age(t)
    <3>1. \A x \in found : (\A y \in found : x =< y) => x = Age(t)
      BY <1>4, <2>2, <2>3
    <3>2. PICK x \in found : Min(found) = x /\ \A y \in found : x =< y
      BY <1>4, <2>2 DEF Min
    <3> QED BY <3>1, <3>2
  <2>5. Age(t) # 0 /\ found # {}
    BY <1>2, <2>2
  <2> QED BY <1>3, <1>6, <2>2, <2>4, <2>5
<1> QED BY <1>5, <1>6

LEMMA ClampType == \A limit \in Int : Clamp(limit) \in Nat
<1> SUFFICES ASSUME NEW limit \in Int PROVE Clamp(limit) \in Nat
  OBVIOUS
<1>1. MaxLimit \in Nat
  BY BoundsAssumption
<1>2. Max({limit, 1}) = IF limit >= 1 THEN limit ELSE 1
  BY MaxOfTwo
<1>3. Max({limit, 1}) \in Nat
  BY <1>2
<1>4. Clamp(limit) = IF Max({limit, 1}) =< MaxLimit THEN Max({limit, 1}) ELSE MaxLimit
  BY <1>1, <1>3, MinOfTwo DEF Clamp
<1> QED BY <1>1, <1>3, <1>4

\* For any callers, windows, limits and checkpoints, however many threads of
\* however many callers they mix: a listing shows each of the caller's threads
\* once, newest first, with its newest count, leaves one out only for a reason,
\* and get_thread answers as it does (list_threads, get_thread).
THEOREM ListingCorrect == Spec => []ListingFaithful
<1>1. OwnInv => ListingFaithful
  <2> SUFFICES ASSUME OwnInv, NEW c \in Caller, NEW limit \in {0, MaxLimit + 1},
                      NEW archivedToo \in BOOLEAN
               PROVE  LET listed == Scan(c, limit, archivedToo).listed IN
                      /\ ListsEachOnce(c, Clamp(limit), archivedToo, listed)
                      /\ MissesForAReason(c, Clamp(limit), archivedToo, listed)
                      /\ FetchAgrees(listed)
    BY DEF ListingFaithful
  <2> DEFINE listed == Scan(c, limit, archivedToo).listed
             most == Clamp(limit)
             n == Len(Newest(ListWindow))
             k == Len(checkpoints)
  <2>0. checkpoints \in Checkpoints
    BY DEF OwnInv, TypeOK, Checkpoints
  <2>1. most \in Nat
    <3>1. limit \in Int
      BY BoundsAssumption
    <3> QED BY <3>1, ClampType
  <2>2. ScanInv(c, most, archivedToo, n, Scan(c, limit, archivedToo))
    BY <2>0, <2>1, ScanFaithful
  <2>3. k \in Nat /\ ListWindow \in Nat /\ n = IF k < ListWindow THEN k ELSE ListWindow
    <3>1. ListWindow \in Nat \ {0}
      BY BoundsAssumption
    <3> QED BY <2>0, <3>1, CheckpointAt, NewestIs
  <2> HIDE DEF most, n, k
  <2>4. /\ Len(listed) =< most /\ Ordered(listed)
        /\ \A j \in DOMAIN listed : Faithful(c, archivedToo, n, listed[j])
        /\ \A t \in Due(c, n) : Accounted(most, archivedToo, listed, t)
    BY <2>2 DEF ScanInv
  <2> HIDE DEF listed
  <2>5. ListsEachOnce(c, most, archivedToo, listed)
    BY <2>4 DEF ListsEachOnce, Ordered, Faithful, Due
  <2>6. MissesForAReason(c, most, archivedToo, listed)
    <3> SUFFICES ASSUME NEW t \in Threads, OwnedBy(c, t), ~(Age(t) > ListWindow)
                 PROVE  Accounted(most, archivedToo, listed, t)
      BY DEF MissesForAReason, Accounted
    <3>1. Age(t) \in 1..k
      BY <2>0, AgeIs DEF k
    <3>2. Age(t) =< n
      BY <2>3, <3>1
    <3> QED BY <2>4, <3>2 DEF Due
  <2>7. FetchAgrees(listed)
    <3> SUFFICES ASSUME NEW j \in DOMAIN listed
                 PROVE  Fetched(listed[j].thread) =
                          IF Age(listed[j].thread) > GetWindow THEN 0 ELSE listed[j].messages
      BY DEF FetchAgrees
    <3>1. listed[j].thread \in Threads /\ listed[j].messages = Messages(listed[j].thread)
      BY <2>4 DEF Faithful, Due
    <3> QED BY <2>0, <3>1, FetchedIs
  <2> QED BY <2>5, <2>6, <2>7 DEF listed, most
<1> QED BY <1>1, OwnCorrect, PTL
=============================================================================
