----------------------- MODULE StreamProjectorProofs -----------------------
(***************************************************************************)
(* Proofs about StreamProjector, for any channels, any queue size and any  *)
(* number of items: nothing is lost or reordered on the way through the    *)
(* shared queue, sentinels are counted right, and the projector implements *)
(* TurnFeed.                                                               *)
(***************************************************************************)
EXTENDS StreamProjector, FiniteSetTheorems, TLAPS

-----------------------------------------------------------------------------
(* The queue as an array of entries.                                       *)

\* Appending leaves the entries where they are and adds one at the end.
LEMMA Appending ==
  ASSUME NEW q \in Seq(Entry), NEW e \in Entry
  PROVE  /\ Append(q, e) \in Seq(Entry)
         /\ Len(Append(q, e)) = Len(q) + 1 /\ Len(q) \in Nat
         /\ DOMAIN Append(q, e) = 1 .. Len(q) + 1 /\ DOMAIN q = 1 .. Len(q)
         /\ \A i \in 1 .. Len(q) : Append(q, e)[i] = q[i]
         /\ Append(q, e)[Len(q) + 1] = e
OBVIOUS

\* Taking the head moves every other entry one place forward.
LEMMA Popping ==
  ASSUME NEW q \in Seq(Entry), q # <<>>
  PROVE  /\ Tail(q) \in Seq(Entry) /\ Head(q) = q[1] /\ q[1] \in Entry
         /\ Len(q) \in Nat \ {0} /\ Len(Tail(q)) = Len(q) - 1
         /\ DOMAIN q = 1 .. Len(q) /\ DOMAIN Tail(q) = 1 .. Len(q) - 1
         /\ \A i \in 1 .. Len(q) - 1 : Tail(q)[i] = q[i + 1]
OBVIOUS

-----------------------------------------------------------------------------
(* Type correctness.                                                       *)

LEMMA TypeInit == Init => TypeOK
BY DEF Init, TypeOK, Entry

LEMMA TypeNext == TypeOK /\ [Next]_vars => TypeOK'
<1> SUFFICES ASSUME TypeOK, [Next]_vars PROVE TypeOK'
  OBVIOUS
<1> USE DEF TypeOK
<1>1. ASSUME NEW ch \in Channel, Take(ch) PROVE TypeOK'
  BY <1>1 DEF Take
<1>2. ASSUME NEW ch \in Channel, ProjectionEnds(ch) PROVE TypeOK'
  BY <1>2 DEF ProjectionEnds
<1>3. ASSUME NEW ch \in Channel, Put(ch) PROVE TypeOK'
  <2>1. <<ch, IF relay[ch] = "holding" THEN taken[ch] ELSE 0>> \in Entry
    BY DEF Entry
  <2>2. queue' \in Seq(Entry)
    BY <1>3, <2>1, Appending DEF Put
  <2> QED BY <1>3, <2>2 DEF Put
<1>4. CASE GetSentinel
  <2>1. queue' \in Seq(Entry)
    BY <1>4, Popping DEF GetSentinel
  <2> QED BY <1>4, <2>1 DEF GetSentinel
<1>5. CASE GetItem
  <2>1. queue' \in Seq(Entry) /\ Head(queue)[2] \in Nat
    BY <1>5, Popping DEF GetItem, Entry
  <2> QED BY <1>5, <2>1 DEF GetItem
<1>6. CASE ChunkSent \/ Gather \/ Finish \/ Disconnect
  BY <1>6 DEF ChunkSent, Gather, Finish, Disconnect
<1>7. CASE YieldInterrupt
  BY <1>7 DEF YieldInterrupt
<1>8. CASE YieldComplete
  BY <1>8 DEF YieldComplete
<1>9. CASE UNCHANGED vars
  BY <1>9 DEF vars
<1> QED BY <1>1, <1>2, <1>3, <1>4, <1>5, <1>6, <1>7, <1>8, <1>9 DEF Next, RelayStep, ConsumerStep

(* The state is always well typed.                                         *)
THEOREM TypeCorrect == Spec => []TypeOK
BY TypeInit, TypeNext, PTL DEF Spec

-----------------------------------------------------------------------------
(* Nothing is lost or reordered.                                           *)

FlowInv == TypeOK /\ NothingLost

LEMMA FlowInit == Init => FlowInv
BY TypeInit DEF Init, FlowInv, NothingLost, Flow, Handed, Unread, Announced

\* A step that leaves the queue and the channel's two counts alone.
LEMMA FlowKept ==
  ASSUME NEW ch \in Channel, Flow(ch), queue' = queue, got'[ch] = got[ch],
         Handed(ch)' = Handed(ch), relay[ch] = "done" => relay'[ch] = "done"
  PROVE  Flow(ch)'
BY DEF Flow, Unread, Announced

LEMMA FlowPut ==
  ASSUME TypeOK, NEW c \in Channel, Put(c), NEW ch \in Channel, Flow(ch)
  PROVE  Flow(ch)'
<1> DEFINE L == Len(queue)
           e == <<c, IF relay[c] = "holding" THEN taken[c] ELSE 0>>
<1>0. /\ got \in [Channel -> Nat] /\ taken \in [Channel -> Nat]
      /\ relay \in [Channel -> {"reading", "holding", "closing", "done"}]
      /\ queue \in Seq(Entry) /\ e \in Entry
  BY DEF TypeOK, Entry
<1>1. /\ DOMAIN queue = 1 .. L /\ DOMAIN queue' = 1 .. L + 1 /\ L \in Nat
      /\ \A i \in 1 .. L : queue'[i] = queue[i]
      /\ queue'[L + 1] = e
  BY <1>0, Appending DEF Put
<1>2. taken' = taken /\ got' = got /\ \A x \in Channel : x # c => relay'[x] = relay[x]
  BY <1>0 DEF Put
<1>3. CASE ch # c
  <2>1. Unread(ch)' = Unread(ch) /\ Announced(ch)' = Announced(ch)
    BY <1>1, <1>3 DEF Unread, Announced
  <2>2. Handed(ch)' = Handed(ch) /\ relay'[ch] = relay[ch] /\ got'[ch] = got[ch]
    BY <1>2, <1>3 DEF Handed
  <2>3. \A i \in Unread(ch) : queue'[i] = queue[i]
    BY <1>1 DEF Unread
  <2> QED BY <2>1, <2>2, <2>3 DEF Flow
<1>4. CASE ch = c /\ relay[ch] = "holding"
  <2>1. Announced(ch) = {} /\ got[ch] <= taken[ch] - 1
    BY <1>4 DEF Flow, Handed
  <2>2. /\ Handed(ch)' = taken[ch] /\ Handed(ch) = taken[ch] - 1 /\ relay'[ch] = "reading"
        /\ got'[ch] = got[ch] /\ got[ch] \in Nat /\ taken[ch] \in Nat
    BY <1>0, <1>2, <1>4 DEF Put, Handed
  <2>3. Unread(ch)' = Unread(ch) \cup {L + 1} /\ Announced(ch)' = {}
    <3>1. e = <<ch, taken[ch]>> /\ taken[ch] # 0
      BY <1>4, <2>1, <2>2
    <3>2. Unread(ch)' = Unread(ch) \cup {L + 1}
      BY <1>1, <3>1 DEF Unread
    <3>3. \A i \in 1 .. L : queue[i] # <<ch, 0>>
      BY <1>1, <2>1 DEF Announced
    <3>4. Announced(ch)' = {}
      BY <1>1, <3>1, <3>3 DEF Announced
    <3> QED BY <3>2, <3>4
  <2>4. /\ \A i \in Unread(ch) : i \in 1 .. L /\ queue'[i] = queue[i]
        /\ queue'[L + 1][2] = taken[ch]
    BY <1>1, <1>4 DEF Unread
  <2>5. \A i \in Unread(ch) : queue[i][2] \in got[ch] + 1 .. taken[ch] - 1
    BY <2>2 DEF Flow
  <2>6. \A n \in got[ch] + 1 .. taken[ch] : \E i \in Unread(ch)' : queue'[i][2] = n
    <3> SUFFICES ASSUME NEW n \in got[ch] + 1 .. taken[ch]
                 PROVE  \E i \in Unread(ch)' : queue'[i][2] = n
      OBVIOUS
    <3>1. CASE n = taken[ch]
      BY <2>3, <2>4, <3>1
    <3>2. CASE n # taken[ch]
      <4>1. n \in got[ch] + 1 .. Handed(ch)
        BY <2>2, <3>2
      <4>2. PICK i \in Unread(ch) : queue[i][2] = n
        BY <4>1 DEF Flow
      <4> QED BY <2>3, <2>4, <4>2
    <3> QED BY <3>1, <3>2
  <2>7. \A i \in Unread(ch)' : queue'[i][2] \in got[ch] + 1 .. taken[ch]
    BY <2>1, <2>2, <2>3, <2>4, <2>5
  <2>8. \A i, j \in Unread(ch)' : i < j => queue'[i][2] < queue'[j][2]
    <3> SUFFICES ASSUME NEW i \in Unread(ch)', NEW j \in Unread(ch)', i < j
                 PROVE  queue'[i][2] < queue'[j][2]
      OBVIOUS
    <3>1. i \in Unread(ch)
      BY <1>1, <2>3, <2>4
    <3>2. CASE j \in Unread(ch)
      BY <2>4, <3>1, <3>2 DEF Flow
    <3>3. CASE j = L + 1
      BY <2>2, <2>4, <2>5, <3>1, <3>3
    <3> QED BY <2>3, <3>2, <3>3
  <2> QED BY <2>1, <2>2, <2>3, <2>6, <2>7, <2>8 DEF Flow
<1>5. CASE ch = c /\ relay[ch] = "closing"
  <2>1. Handed(ch)' = Handed(ch) /\ relay'[ch] = "done" /\ got'[ch] = got[ch]
    BY <1>0, <1>2, <1>5 DEF Put, Handed
  <2>2. Unread(ch)' = Unread(ch)
    BY <1>1, <1>5 DEF Unread
  <2>3. \A i \in Unread(ch) : i \in 1 .. L /\ queue'[i] = queue[i]
    BY <1>1 DEF Unread
  <2>4. Announced(ch) = {} /\ Announced(ch)' = {L + 1}
    BY <1>1, <1>5 DEF Announced, Flow
  <2> QED BY <1>1, <2>1, <2>2, <2>3, <2>4 DEF Flow
<1> QED BY <1>3, <1>4, <1>5 DEF Put

\* The item at the head of the queue is the next one of its channel.
LEMMA HeadIsNext ==
  ASSUME TypeOK, queue # <<>>, NEW ch \in Channel, Flow(ch),
         Head(queue)[1] = ch, Head(queue)[2] # 0
  PROVE  Head(queue)[2] = got[ch] + 1 /\ got[ch] + 1 <= Handed(ch)
<1>0. /\ queue \in Seq(Entry) /\ got[ch] \in Nat /\ taken[ch] \in Nat
      /\ Handed(ch) \in Int
  BY DEF TypeOK, Handed
<1>1. Head(queue) = queue[1] /\ DOMAIN queue = 1 .. Len(queue) /\ Len(queue) \in Nat \ {0}
  BY <1>0, Popping
<1>2. 1 \in Unread(ch)
  BY <1>1 DEF Unread
<1>3. queue[1][2] \in got[ch] + 1 .. Handed(ch)
  BY <1>2 DEF Flow
<1>4. got[ch] + 1 \in got[ch] + 1 .. Handed(ch)
  BY <1>0, <1>3
<1>5. PICK i \in Unread(ch) : queue[i][2] = got[ch] + 1
  BY <1>4 DEF Flow
<1>6. i = 1
  <2> SUFFICES ASSUME i # 1 PROVE FALSE
    OBVIOUS
  <2>1. 1 < i
    BY <1>1 DEF Unread
  <2>2. queue[1][2] < queue[i][2]
    BY <1>2, <2>1 DEF Flow
  <2> QED BY <1>0, <1>3, <1>5, <2>2
<1> QED BY <1>0, <1>1, <1>3, <1>5, <1>6

LEMMA FlowPop ==
  ASSUME TypeOK, queue # <<>>, NEW ch \in Channel, Flow(ch), queue' = Tail(queue),
         relay' = relay, taken' = taken,
         IF Head(queue)[1] = ch /\ Head(queue)[2] # 0
           THEN got'[ch] = got[ch] + 1 ELSE got'[ch] = got[ch]
  PROVE  Flow(ch)'
<1> DEFINE L == Len(queue)
<1>0. /\ queue \in Seq(Entry) /\ got[ch] \in Nat /\ taken[ch] \in Nat
      /\ Handed(ch) \in Int /\ Handed(ch)' = Handed(ch)
  BY DEF TypeOK, Handed
<1>1. /\ Head(queue) = queue[1] /\ DOMAIN queue = 1 .. L /\ L \in Nat \ {0}
      /\ DOMAIN queue' = 1 .. L - 1 /\ \A i \in 1 .. L - 1 : queue'[i] = queue[i + 1]
      /\ queue[1] \in Entry
  BY <1>0, Popping
<1>2. \A i \in 1 .. L - 1 : /\ i \in Unread(ch)' <=> i + 1 \in Unread(ch)
                            /\ i \in Announced(ch)' <=> i + 1 \in Announced(ch)
  BY <1>1 DEF Unread, Announced
<1>3. /\ Unread(ch)' \subseteq 1 .. L - 1 /\ Announced(ch)' \subseteq 1 .. L - 1
      /\ Unread(ch) \subseteq 1 .. L
  BY <1>1 DEF Unread, Announced
<1>4. \A i, j \in Unread(ch)' : i < j => queue'[i][2] < queue'[j][2]
  <2> SUFFICES ASSUME NEW i \in Unread(ch)', NEW j \in Unread(ch)', i < j
               PROVE  queue'[i][2] < queue'[j][2]
    OBVIOUS
  <2>1. i \in 1 .. L - 1 /\ j \in 1 .. L - 1
    BY <1>3
  <2>2. i + 1 \in Unread(ch) /\ j + 1 \in Unread(ch) /\ i + 1 < j + 1
    BY <1>1, <1>2, <2>1
  <2>3. queue[i + 1][2] < queue[j + 1][2]
    BY <2>2 DEF Flow
  <2> QED BY <1>1, <2>1, <2>3
<1>5. \A i \in Announced(ch)' : relay[ch] = "done" /\ \A j \in Unread(ch)' : j < i
  <2> SUFFICES ASSUME NEW i \in Announced(ch)'
               PROVE  relay[ch] = "done" /\ \A j \in Unread(ch)' : j < i
    OBVIOUS
  <2>1. i + 1 \in Announced(ch)
    BY <1>2, <1>3
  <2>2. relay[ch] = "done" /\ \A j \in Unread(ch) : j < i + 1
    BY <2>1 DEF Flow
  <2>3. ASSUME NEW j \in Unread(ch)' PROVE j < i
    BY <1>1, <1>2, <1>3, <2>2
  <2> QED BY <2>2, <2>3
<1>6. CASE Head(queue)[1] = ch /\ Head(queue)[2] # 0
  <2>1. /\ queue[1][2] = got[ch] + 1 /\ got[ch] + 1 <= Handed(ch) /\ got'[ch] = got[ch] + 1
        /\ 1 \in Unread(ch)
    BY <1>1, <1>6, HeadIsNext DEF Unread
  <2>2. \A n \in got'[ch] + 1 .. Handed(ch) : \E i \in Unread(ch)' : queue'[i][2] = n
    <3> SUFFICES ASSUME NEW n \in got'[ch] + 1 .. Handed(ch)
                 PROVE  \E i \in Unread(ch)' : queue'[i][2] = n
      OBVIOUS
    <3>1. n \in got[ch] + 1 .. Handed(ch) /\ n # got[ch] + 1
      BY <1>0, <2>1
    <3>2. PICK j \in Unread(ch) : queue[j][2] = n
      BY <3>1 DEF Flow
    <3>3. j # 1 /\ j \in 1 .. L
      BY <1>3, <2>1, <3>1, <3>2
    <3>4. j - 1 \in 1 .. L - 1 /\ (j - 1) + 1 = j
      BY <1>1, <3>3
    <3> QED BY <1>1, <1>2, <3>2, <3>4
  <2>3. \A i \in Unread(ch)' : queue'[i][2] \in got'[ch] + 1 .. Handed(ch)
    <3> SUFFICES ASSUME NEW i \in Unread(ch)'
                 PROVE  queue'[i][2] \in got'[ch] + 1 .. Handed(ch)
      OBVIOUS
    <3>1. i + 1 \in Unread(ch) /\ queue'[i] = queue[i + 1] /\ 1 < i + 1
      BY <1>1, <1>2, <1>3
    <3>2. queue[1][2] < queue[i + 1][2] /\ queue[i + 1][2] \in got[ch] + 1 .. Handed(ch)
      BY <2>1, <3>1 DEF Flow
    <3>3. queue[i + 1][2] > got[ch] + 1 /\ queue[i + 1][2] \in Int
      BY <1>0, <2>1, <3>2
    <3>4. queue[i + 1][2] \in got[ch] + 1 + 1 .. Handed(ch)
      BY <1>0, <3>2, <3>3
    <3> QED BY <2>1, <3>1, <3>4
  <2> QED BY <1>0, <1>4, <1>5, <2>1, <2>2, <2>3 DEF Flow
<1>7. CASE ~(Head(queue)[1] = ch /\ Head(queue)[2] # 0)
  <2>1. 1 \notin Unread(ch) /\ got'[ch] = got[ch]
    BY <1>1, <1>7 DEF Unread
  <2>2. \A n \in got[ch] + 1 .. Handed(ch) : \E i \in Unread(ch)' : queue'[i][2] = n
    <3> SUFFICES ASSUME NEW n \in got[ch] + 1 .. Handed(ch)
                 PROVE  \E i \in Unread(ch)' : queue'[i][2] = n
      OBVIOUS
    <3>1. PICK j \in Unread(ch) : queue[j][2] = n
      BY DEF Flow
    <3>2. j - 1 \in 1 .. L - 1 /\ (j - 1) + 1 = j
      BY <1>1, <1>3, <2>1, <3>1
    <3> QED BY <1>1, <1>2, <3>1, <3>2
  <2>3. \A i \in Unread(ch)' : queue'[i][2] \in got[ch] + 1 .. Handed(ch)
    BY <1>1, <1>2, <1>3 DEF Flow
  <2> QED BY <1>0, <1>4, <1>5, <2>1, <2>2, <2>3 DEF Flow
<1> QED BY <1>6, <1>7

LEMMA FlowNext == FlowInv /\ [Next]_vars => FlowInv'
<1> SUFFICES ASSUME FlowInv, [Next]_vars, NEW ch \in Channel PROVE Flow(ch)'
  BY TypeNext DEF FlowInv, NothingLost
<1>0. /\ TypeOK /\ Flow(ch) /\ got \in [Channel -> Nat] /\ taken \in [Channel -> Nat]
      /\ relay \in [Channel -> {"reading", "holding", "closing", "done"}]
      /\ queue \in Seq(Entry)
  BY DEF FlowInv, NothingLost, TypeOK
<1>1. ASSUME NEW c \in Channel, Take(c) PROVE Flow(ch)'
  BY <1>0, <1>1, FlowKept DEF Take, Handed
<1>2. ASSUME NEW c \in Channel, ProjectionEnds(c) PROVE Flow(ch)'
  BY <1>0, <1>2, FlowKept DEF ProjectionEnds, Handed
<1>3. ASSUME NEW c \in Channel, Put(c) PROVE Flow(ch)'
  BY <1>0, <1>3, FlowPut
<1>4. CASE GetSentinel
  BY <1>0, <1>4, FlowPop DEF GetSentinel
<1>5. CASE GetItem
  <2> DEFINE c == Head(queue)[1]
  <2>1. c \in Channel
    BY <1>0, <1>5, Popping DEF GetItem, Entry
  <2>2. Head(queue)[2] = got[c] + 1
    BY <1>0, <1>5, <2>1, HeadIsNext DEF GetItem, FlowInv, NothingLost
  <2>3. IF c = ch /\ Head(queue)[2] # 0 THEN got'[ch] = got[ch] + 1 ELSE got'[ch] = got[ch]
    BY <1>0, <1>5, <2>1, <2>2 DEF GetItem
  <2> QED BY <1>0, <1>5, <2>3, FlowPop DEF GetItem
<1>6. CASE ChunkSent \/ Gather \/ YieldInterrupt \/ YieldComplete \/ Finish \/ Disconnect
  BY <1>0, <1>6, FlowKept DEF ChunkSent, Gather, YieldInterrupt, YieldComplete, Finish,
                              Disconnect, Handed
<1>7. CASE UNCHANGED vars
  BY <1>0, <1>7, FlowKept DEF vars, Handed
<1> QED BY <1>1, <1>2, <1>3, <1>4, <1>5, <1>6, <1>7 DEF Next, RelayStep, ConsumerStep

(* Whatever the interleaving of the relays and however full the queue, the *)
(* queue holds exactly the items put and not yet yielded, in order.        *)
THEOREM FlowCorrect == Spec => []NothingLost
<1>1. FlowInv => NothingLost
  BY DEF FlowInv
<1> QED BY <1>1, FlowInit, FlowNext, PTL DEF Spec

-----------------------------------------------------------------------------
(* The sentinels are counted right.                                        *)

LEMMA PutMarks ==
  ASSUME FlowInv, NEW c \in Channel, Put(c)
  PROVE  /\ relay[c] = "closing" => relay'[c] = "done" /\ Announced(c)' = {Len(queue) + 1}
         /\ relay[c] = "holding" => relay'[c] = "reading"
         /\ \A i, j \in Announced(c)' : i = j
         /\ \A ch \in Channel \ {c} : /\ relay'[ch] = relay[ch]
                                      /\ Announced(ch)' = Announced(ch)
                                      /\ Unread(ch)' = Unread(ch)
<1> DEFINE L == Len(queue)
           e == <<c, IF relay[c] = "holding" THEN taken[c] ELSE 0>>
<1>0. /\ relay \in [Channel -> {"reading", "holding", "closing", "done"}]
      /\ queue \in Seq(Entry) /\ e \in Entry /\ Flow(c)
  BY DEF FlowInv, NothingLost, TypeOK, Entry
<1>1. /\ DOMAIN queue = 1 .. L /\ DOMAIN queue' = 1 .. L + 1 /\ L \in Nat
      /\ \A i \in 1 .. L : queue'[i] = queue[i]
      /\ queue'[L + 1] = e
  BY <1>0, Appending DEF Put
<1>2. relay[c] # "done"
  BY DEF Put
<1>3. Announced(c) = {}
  BY <1>0, <1>2 DEF Flow
<1>4. Announced(c)' \subseteq {L + 1}
  BY <1>1, <1>3 DEF Announced
<1>5. ASSUME relay[c] = "closing" PROVE relay'[c] = "done" /\ Announced(c)' = {L + 1}
  <2>1. e = <<c, 0>> /\ L + 1 \in DOMAIN queue'
    BY <1>1, <1>5
  <2>2. L + 1 \in Announced(c)'
    BY <1>1, <2>1 DEF Announced
  <2> QED BY <1>0, <1>4, <1>5, <2>2 DEF Put
<1>6. relay[c] = "holding" => relay'[c] = "reading"
  BY <1>0 DEF Put
<1>7. ASSUME NEW ch \in Channel \ {c}
      PROVE  relay'[ch] = relay[ch] /\ Announced(ch)' = Announced(ch) /\ Unread(ch)' = Unread(ch)
  BY <1>0, <1>1 DEF Put, Announced, Unread
<1> QED BY <1>4, <1>5, <1>6, <1>7

\* Where an unread item or a sentinel stands before and after the head is taken.
LEMMA PopMarks ==
  ASSUME TypeOK, queue # <<>>, queue' = Tail(queue), NEW ch \in Channel
  PROVE  /\ \A i \in Unread(ch)' : i \in Nat /\ i >= 1 /\ i + 1 \in Unread(ch)
         /\ \A i \in Announced(ch)' : i \in Nat /\ i >= 1 /\ i + 1 \in Announced(ch)
         /\ \A i \in Announced(ch) : i = 1 \/ i - 1 \in Announced(ch)'
         /\ 1 \in Announced(ch) <=> Head(queue) = <<ch, 0>>
<1> DEFINE L == Len(queue)
<1>1. /\ Head(queue) = queue[1] /\ DOMAIN queue = 1 .. L /\ L \in Nat /\ L >= 1
      /\ DOMAIN queue' = 1 .. L - 1
      /\ \A i \in 1 .. L - 1 : queue'[i] = queue[i + 1]
  BY Popping DEF TypeOK
<1>2. ASSUME NEW i \in 1 .. L - 1
      PROVE  i \in Nat /\ i >= 1 /\ i + 1 \in 1 .. L /\ queue'[i] = queue[i + 1]
  BY <1>1
<1>3. \A i \in Unread(ch)' : i \in Nat /\ i >= 1 /\ i + 1 \in Unread(ch)
  BY <1>1, <1>2 DEF Unread
<1>4. \A i \in Announced(ch)' : i \in Nat /\ i >= 1 /\ i + 1 \in Announced(ch)
  BY <1>1, <1>2 DEF Announced
<1>5. ASSUME NEW i \in Announced(ch), i # 1 PROVE i - 1 \in Announced(ch)'
  <2>1. i \in 1 .. L /\ queue[i] = <<ch, 0>>
    BY <1>1 DEF Announced
  <2>2. i - 1 \in 1 .. L - 1 /\ (i - 1) + 1 = i
    BY <1>1, <1>5, <2>1
  <2>3. queue'[i - 1] = <<ch, 0>>
    BY <1>1, <2>1, <2>2
  <2> QED BY <1>1, <2>2, <2>3 DEF Announced
<1>6. 1 \in Announced(ch) <=> Head(queue) = <<ch, 0>>
  BY <1>1 DEF Announced
<1> QED BY <1>3, <1>4, <1>5, <1>6

SentinelInv == FlowInv /\ SentinelsAccounted

LEMMA CountedFinite == IsFiniteSet(Counted) /\ Cardinality(Counted) \in Nat
<1>1. Counted \in SUBSET Channel
  BY DEF Counted
<1> QED BY <1>1, ProjectorAssumption, FS_Subset, FS_CardinalityType

LEMMA SentinelInit == Init => SentinelInv
<1> SUFFICES ASSUME Init PROVE SentinelsAccounted
  BY FlowInit DEF SentinelInv
<1>1. Counted = {}
  BY DEF Init, Counted
<1>2. \A ch \in Channel : Announced(ch) = {}
  BY DEF Init, Announced
<1> QED BY <1>1, <1>2, FS_EmptySet DEF Init, SentinelsAccounted

\* A step that moves neither the queue nor a relay to or from "done".
LEMMA SentinelKept ==
  ASSUME SentinelInv, UNCHANGED <<queue, completed>>,
         \A ch \in Channel : relay'[ch] = "done" <=> relay[ch] = "done"
  PROVE  SentinelsAccounted'
<1>1. \A ch \in Channel : Announced(ch)' = Announced(ch) /\ Unread(ch)' = Unread(ch)
  BY DEF Announced, Unread
<1>2. Counted' = Counted /\ Counted \subseteq Channel
  BY <1>1 DEF Counted
<1> QED BY <1>1, <1>2 DEF SentinelInv, SentinelsAccounted

LEMMA SentinelPut ==
  ASSUME SentinelInv, NEW c \in Channel, Put(c)
  PROVE  SentinelsAccounted'
<1>1. /\ relay[c] = "closing" => relay'[c] = "done" /\ Announced(c)' = {Len(queue) + 1}
      /\ relay[c] = "holding" => relay'[c] = "reading"
      /\ \A i, j \in Announced(c)' : i = j
      /\ \A ch \in Channel \ {c} : /\ relay'[ch] = relay[ch]
                                   /\ Announced(ch)' = Announced(ch)
                                   /\ Unread(ch)' = Unread(ch)
  BY PutMarks DEF SentinelInv
<1>2. c \notin Counted /\ c \notin Counted'
  BY <1>1 DEF Counted, Put
<1>3. Counted' = Counted /\ Counted \subseteq Channel \ {c}
  BY <1>1, <1>2 DEF Counted
<1>4. completed' = completed
  BY DEF Put
<1> QED BY <1>1, <1>2, <1>3, <1>4 DEF SentinelInv, SentinelsAccounted

LEMMA SentinelPop ==
  ASSUME SentinelInv, queue # <<>>, queue' = Tail(queue), relay' = relay, NEW ch \in Channel
  PROVE  /\ \A i, j \in Announced(ch)' : i = j
         /\ Head(queue) # <<ch, 0>> => (Announced(ch)' = {} <=> Announced(ch) = {})
         /\ Head(queue) = <<ch, 0>> =>
              Announced(ch) # {} /\ Announced(ch)' = {} /\ Unread(ch)' = {} /\ relay[ch] = "done"
         /\ Unread(ch) = {} => Unread(ch)' = {}
<1>0. /\ \A i \in Unread(ch)' : i \in Nat /\ i >= 1 /\ i + 1 \in Unread(ch)
      /\ \A i \in Announced(ch)' : i \in Nat /\ i >= 1 /\ i + 1 \in Announced(ch)
      /\ \A i \in Announced(ch) : i = 1 \/ i - 1 \in Announced(ch)'
      /\ 1 \in Announced(ch) <=> Head(queue) = <<ch, 0>>
  BY PopMarks DEF SentinelInv, FlowInv
<1>1. \A i, j \in Announced(ch) : i = j
  BY DEF SentinelInv, SentinelsAccounted
<1>2. \A i, j \in Announced(ch)' : i = j
  <2> SUFFICES ASSUME NEW i \in Announced(ch)', NEW j \in Announced(ch)' PROVE i = j
    OBVIOUS
  <2>1. i + 1 = j + 1
    BY <1>0, <1>1
  <2> QED BY <1>0, <2>1
<1>3. ASSUME Head(queue) # <<ch, 0>> PROVE Announced(ch)' = {} <=> Announced(ch) = {}
  <2>1. \A i \in Announced(ch) : i - 1 \in Announced(ch)'
    BY <1>0, <1>3
  <2>2. \A i \in Announced(ch)' : i + 1 \in Announced(ch)
    BY <1>0
  <2> QED BY <2>1, <2>2
<1>4. ASSUME Head(queue) = <<ch, 0>>
      PROVE  Announced(ch) # {} /\ Announced(ch)' = {} /\ Unread(ch)' = {} /\ relay[ch] = "done"
  <2>1. 1 \in Announced(ch)
    BY <1>0, <1>4
  <2>2. relay[ch] = "done" /\ \A j \in Unread(ch) : j < 1
    BY <2>1 DEF SentinelInv, FlowInv, NothingLost, Flow
  <2>3. Unread(ch)' = {}
    <3> SUFFICES ASSUME NEW i \in Unread(ch)' PROVE FALSE
      OBVIOUS
    <3>1. i + 1 < 1
      BY <1>0, <2>2
    <3> QED BY <1>0, <3>1
  <2>4. Announced(ch)' = {}
    <3> SUFFICES ASSUME NEW i \in Announced(ch)' PROVE FALSE
      OBVIOUS
    <3>1. i + 1 = 1
      BY <1>0, <1>1, <2>1
    <3> QED BY <1>0, <3>1
  <2> QED BY <2>1, <2>2, <2>3, <2>4
<1>5. Unread(ch) = {} => Unread(ch)' = {}
  <2>1. \A i \in Unread(ch)' : i + 1 \in Unread(ch)
    BY <1>0
  <2> QED BY <2>1
<1> QED BY <1>2, <1>3, <1>4, <1>5

LEMMA SentinelNext == SentinelInv /\ [Next]_vars => SentinelInv'
<1> SUFFICES ASSUME SentinelInv, [Next]_vars PROVE SentinelsAccounted'
  BY FlowNext DEF SentinelInv
<1>0. /\ relay \in [Channel -> {"reading", "holding", "closing", "done"}]
      /\ queue \in Seq(Entry) /\ completed = Cardinality(Counted) /\ completed \in Nat
      /\ \A ch \in Counted : Unread(ch) = {}
  BY DEF SentinelInv, FlowInv, TypeOK, SentinelsAccounted
<1>1. ASSUME NEW c \in Channel, Take(c) \/ ProjectionEnds(c) PROVE SentinelsAccounted'
  BY <1>0, <1>1, SentinelKept DEF Take, ProjectionEnds
<1>2. ASSUME NEW c \in Channel, Put(c) PROVE SentinelsAccounted'
  BY <1>2, SentinelPut
<1>3. CASE GetSentinel
  <2> DEFINE c == Head(queue)[1]
  <2>1. c \in Channel /\ Head(queue) = <<c, 0>>
    BY <1>0, <1>3, Popping DEF GetSentinel, Entry
  <2>2. queue # <<>> /\ queue' = Tail(queue) /\ relay' = relay /\ completed' = completed + 1
    BY <1>3 DEF GetSentinel
  <2> HIDE DEF c
  <2>3. c \notin Counted /\ c \in Counted'
    BY <2>1, <2>2, SentinelPop DEF Counted
  <2>4. \A ch \in Channel \ {c} : ch \in Counted' <=> ch \in Counted
    BY <2>1, <2>2, SentinelPop DEF Counted
  <2>5. Counted' = Counted \cup {c}
    BY <2>1, <2>3, <2>4 DEF Counted
  <2>6. Cardinality(Counted') = Cardinality(Counted) + 1
    BY <2>3, <2>5, CountedFinite, FS_AddElement
  <2>7. \A ch \in Counted' : Unread(ch)' = {}
    BY <1>0, <2>1, <2>2, <2>5, SentinelPop DEF Counted
  <2>8. \A ch \in Channel : \A i, j \in Announced(ch)' : i = j
    BY <2>2, SentinelPop
  <2> QED BY <1>0, <2>2, <2>6, <2>7, <2>8 DEF SentinelsAccounted
<1>4. CASE GetItem
  <2>1. queue # <<>> /\ queue' = Tail(queue) /\ relay' = relay /\ completed' = completed
        /\ \A ch \in Channel : Head(queue) # <<ch, 0>>
    BY <1>4 DEF GetItem
  <2>2. \A ch \in Channel : Announced(ch)' = {} <=> Announced(ch) = {}
    BY <2>1, SentinelPop
  <2>3. Counted' = Counted
    BY <2>1, <2>2 DEF Counted
  <2>4. \A ch \in Counted' : Unread(ch)' = {}
    BY <1>0, <2>1, <2>3, SentinelPop DEF Counted
  <2>5. \A ch \in Channel : \A i, j \in Announced(ch)' : i = j
    BY <2>1, SentinelPop
  <2> QED BY <1>0, <2>1, <2>3, <2>4, <2>5 DEF SentinelsAccounted
<1>5. CASE ChunkSent \/ Gather \/ YieldInterrupt \/ YieldComplete \/ Finish \/ Disconnect
  BY <1>5, SentinelKept DEF ChunkSent, Gather, YieldInterrupt, YieldComplete, Finish, Disconnect
<1>6. CASE UNCHANGED vars
  BY <1>6, SentinelKept DEF vars
<1> QED BY <1>1, <1>2, <1>3, <1>4, <1>5, <1>6 DEF Next, RelayStep, ConsumerStep

(* The generator's count is the number of channels that are over and fully *)
(* read, for any number of relays.                                         *)
THEOREM SentinelsCorrect == Spec => []SentinelsAccounted
<1>1. SentinelInv => SentinelsAccounted
  BY DEF SentinelInv
<1> QED BY <1>1, SentinelInit, SentinelNext, PTL DEF Spec

-----------------------------------------------------------------------------
(* The projector implements TurnFeed.                                      *)

\* The control events are announced after the last channel is drained.
ControlInOrder ==
  /\ consumer \in {"draining", "yielding", "asking"} => control = <<>>
  /\ consumer = "announcing" => control = <<"interrupt">>
  /\ consumer \in {"asking", "announcing"} =>
       /\ \A ch \in Channel : relay[ch] = "done"
       /\ got = taken

FeedInv == SentinelInv /\ ControlInOrder

\* When as many sentinels are counted as there are relays, all is delivered.
LEMMA AllDelivered ==
  ASSUME SentinelInv, completed >= NumProducers
  PROVE  got = taken
<1>1. Counted \in SUBSET Channel
  BY DEF Counted
<1>2. Cardinality(Counted) <= Cardinality(Channel) /\ Cardinality(Channel) \in Nat
      /\ Cardinality(Counted) \in Nat
  BY <1>1, ProjectorAssumption, FS_Subset, FS_CardinalityType
<1>3. Cardinality(Channel) = Cardinality(Counted)
  BY <1>2 DEF SentinelInv, SentinelsAccounted, NumProducers
<1>4. Counted = Channel
  BY <1>1, <1>3, ProjectorAssumption, FS_Subset
<1>5. ASSUME NEW ch \in Channel PROVE got[ch] = taken[ch]
  <2>1. Unread(ch) = {} /\ relay[ch] = "done" /\ Flow(ch)
    BY <1>4 DEF SentinelInv, SentinelsAccounted, Counted, FlowInv, NothingLost
  <2>2. Handed(ch) = taken[ch] /\ got[ch] \in Nat /\ taken[ch] \in Nat
    BY <2>1 DEF Handed, SentinelInv, FlowInv, TypeOK
  <2>3. got[ch] <= taken[ch] /\ taken[ch] \notin got[ch] + 1 .. taken[ch]
    BY <2>1, <2>2 DEF Flow
  <2> QED BY <2>2, <2>3
<1> QED BY <1>5 DEF SentinelInv, FlowInv, TypeOK

LEMMA FeedInvNext == FeedInv /\ [Next]_vars => FeedInv'
<1> SUFFICES ASSUME FeedInv, [Next]_vars PROVE ControlInOrder'
  BY SentinelNext DEF FeedInv
<1> USE DEF FeedInv, ControlInOrder
<1>1. ASSUME NEW c \in Channel, RelayStep(c) PROVE ControlInOrder'
  BY <1>1 DEF RelayStep, Take, ProjectionEnds, Put
<1>2. CASE GetSentinel \/ GetItem \/ ChunkSent
  BY <1>2 DEF GetSentinel, GetItem, ChunkSent
<1>3. CASE Gather
  BY <1>3, AllDelivered DEF Gather
<1>4. CASE YieldInterrupt
  BY <1>4 DEF YieldInterrupt
<1>5. CASE YieldComplete \/ Finish \/ Disconnect
  BY <1>5 DEF YieldComplete, Finish, Disconnect
<1>6. CASE UNCHANGED vars
  BY <1>6 DEF vars
<1> QED BY <1>1, <1>2, <1>3, <1>4, <1>5, <1>6 DEF Next, ConsumerStep

LEMMA FeedInvInit == Init => FeedInv
BY SentinelInit DEF Init, FeedInv, ControlInOrder

LEMMA StartRefines == Init => Feed!Init
BY DEF Init, Feed!Init

LEMMA StepRefines == FeedInv /\ [Next]_vars => [Feed!Next]_Feed!vars
<1> SUFFICES ASSUME FeedInv, [Next]_vars PROVE [Feed!Next]_Feed!vars
  OBVIOUS
<1> DEFINE Ended == {ch \in Channel : relay[ch] \in {"closing", "done"}}
<1>0. /\ TypeOK /\ NothingLost /\ ControlInOrder
      /\ relay \in [Channel -> {"reading", "holding", "closing", "done"}]
      /\ queue \in Seq(Entry) /\ got \in [Channel -> Nat] /\ taken \in [Channel -> Nat]
  BY DEF FeedInv, SentinelInv, FlowInv, TypeOK
<1>1. ASSUME NEW ch \in Channel, Take(ch) PROVE Feed!Make(ch)
  <2>1. Ended' = Ended /\ ch \notin Ended
    BY <1>0, <1>1 DEF Take
  <2> QED BY <1>1, <2>1 DEF Take, Feed!Make
<1>2. ASSUME NEW ch \in Channel, ProjectionEnds(ch) PROVE Feed!End(ch)
  <2>1. Ended' = Ended \cup {ch}
    BY <1>0, <1>2 DEF ProjectionEnds
  <2> QED BY <1>2, <2>1 DEF ProjectionEnds, Feed!End
<1>3. ASSUME NEW ch \in Channel, Put(ch) PROVE UNCHANGED Feed!vars
  <2>1. Ended' = Ended
    BY <1>0, <1>3 DEF Put
  <2> QED BY <1>3, <2>1 DEF Put, Feed!vars
<1>4. CASE GetItem
  <2> DEFINE c == Head(queue)[1]
  <2>1. c \in Channel
    BY <1>0, <1>4, Popping DEF GetItem, Entry
  <2>2. Head(queue)[2] = got[c] + 1 /\ got[c] + 1 <= Handed(c)
    BY <1>0, <1>4, <2>1, HeadIsNext DEF GetItem, NothingLost
  <2>3. got[c] < taken[c]
    BY <1>0, <2>1, <2>2 DEF Handed
  <2>4. got' = [got EXCEPT ![c] = @ + 1] /\ consumer # "closed" /\ consumer' # "closed"
    BY <1>0, <1>4, <2>1, <2>2 DEF GetItem
  <2>5. Feed!Deliver(c)
    BY <1>4, <2>3, <2>4 DEF GetItem, Feed!Deliver
  <2> QED BY <2>1, <2>5 DEF Feed!Next
<1>5. CASE GetSentinel \/ ChunkSent \/ Gather \/ Finish
  BY <1>5 DEF GetSentinel, ChunkSent, Gather, Finish, Feed!vars
<1>6. CASE YieldInterrupt \/ YieldComplete
  <2>1. Ended = Channel /\ got = taken
    BY <1>0, <1>6 DEF ControlInOrder, YieldInterrupt, YieldComplete
  <2>2. "complete" \notin {control[i] : i \in DOMAIN control}
    BY <1>0, <1>6 DEF ControlInOrder, YieldInterrupt, YieldComplete
  <2>3. CASE YieldInterrupt
    BY <2>1, <2>2, <2>3 DEF YieldInterrupt, Feed!Announce, Feed!Next
  <2>4. CASE YieldComplete
    BY <2>1, <2>2, <2>4 DEF YieldComplete, Feed!Announce, Feed!Next
  <2> QED BY <1>6, <2>3, <2>4
<1>7. CASE Disconnect
  BY <1>7 DEF Disconnect, Feed!HangUp, Feed!Next
<1>8. CASE UNCHANGED vars
  BY <1>8 DEF vars, Feed!vars
<1> QED BY <1>1, <1>2, <1>3, <1>4, <1>5, <1>6, <1>7, <1>8
        DEF Next, RelayStep, ConsumerStep, Feed!Next

(* The relays, the bounded queue and the counted sentinels implement the   *)
(* feed the client is promised: per-channel order without gaps, and the    *)
(* control events once everything has been delivered.                      *)
THEOREM ProjectorImplementsFeed == Spec => FeedSpec
<1>1. Init => Feed!Init
  BY StartRefines
<1>2. FeedInv /\ [Next]_vars => [Feed!Next]_Feed!vars
  BY StepRefines
<1> QED BY <1>1, <1>2, FeedInvInit, FeedInvNext, PTL DEF Spec, FeedSpec, Feed!Spec

-----------------------------------------------------------------------------
(* The read-ahead is bounded.                                              *)

QueueInv == FlowInv /\ Len(queue) <= QueueSize

LEMMA QueueInvNext == QueueInv /\ [Next]_vars => QueueInv'
<1> SUFFICES ASSUME QueueInv, [Next]_vars PROVE Len(queue') <= QueueSize
  BY FlowNext DEF QueueInv
<1>0. queue \in Seq(Entry) /\ Len(queue) \in Nat /\ QueueSize \in Nat
      /\ Len(queue) <= QueueSize /\ TypeOK
  BY ProjectorAssumption DEF QueueInv, FlowInv, TypeOK
<1>1. ASSUME NEW c \in Channel, Put(c) PROVE Len(queue') <= QueueSize
  <2>1. <<c, IF relay[c] = "holding" THEN taken[c] ELSE 0>> \in Entry
    BY <1>0 DEF TypeOK, Entry
  <2>2. Len(queue') = Len(queue) + 1 /\ Len(queue) < QueueSize
    BY <1>0, <1>1, <2>1, Appending DEF Put
  <2> QED BY <1>0, <2>2
<1>2. CASE GetItem \/ GetSentinel
  <2>1. Len(queue') = Len(queue) - 1
    BY <1>0, <1>2, Popping DEF GetItem, GetSentinel
  <2> QED BY <1>0, <2>1
<1>3. ASSUME NEW c \in Channel, Take(c) \/ ProjectionEnds(c) PROVE Len(queue') <= QueueSize
  BY <1>0, <1>3 DEF Take, ProjectionEnds
<1>4. CASE ChunkSent \/ Gather \/ YieldInterrupt \/ YieldComplete \/ Finish \/ Disconnect
  BY <1>0, <1>4 DEF ChunkSent, Gather, YieldInterrupt, YieldComplete, Finish, Disconnect
<1>5. CASE UNCHANGED vars
  BY <1>0, <1>5 DEF vars
<1> QED BY <1>1, <1>2, <1>3, <1>4, <1>5 DEF Next, RelayStep, ConsumerStep

\* Each item put and not yet yielded has a place of its own in the queue.
LEMMA ReadAhead ==
  ASSUME QueueInv, NEW ch \in Channel
  PROVE  taken[ch] - got[ch] <= QueueSize + 1
<1> DEFINE S == got[ch] + 1 .. Handed(ch)
           T == 1 .. Len(queue)
           f == [n \in S |-> CHOOSE i \in Unread(ch) : queue[i][2] = n]
<1>0. /\ queue \in Seq(Entry) /\ Len(queue) \in Nat /\ QueueSize \in Nat
      /\ Len(queue) <= QueueSize /\ got[ch] \in Nat /\ taken[ch] \in Nat
      /\ Handed(ch) \in Int /\ Handed(ch) >= taken[ch] - 1 /\ Flow(ch)
  BY ProjectorAssumption DEF QueueInv, FlowInv, TypeOK, NothingLost, Handed
<1>1. \A n \in S : f[n] \in Unread(ch) /\ queue[f[n]][2] = n
  BY <1>0 DEF Flow
<1>2. Unread(ch) \subseteq T
  BY <1>0 DEF Unread
<1> HIDE DEF f
<1>3. f \in [S -> T]
  <2>1. f = [n \in S |-> f[n]]
    BY DEF f
  <2> QED BY <1>1, <1>2, <2>1
<1>4. f \in Injection(S, T)
  BY <1>1, <1>3 DEF Injection, IsInjective
<1>5. IsFiniteSet(T) /\ Cardinality(T) = Len(queue)
  <2>1. 1 \in Int /\ Len(queue) \in Int
    BY <1>0
  <2>2. IsFiniteSet(T) /\ Cardinality(T) = IF 1 > Len(queue) THEN 0 ELSE Len(queue) - 1 + 1
    BY <2>1, FS_Interval, Zenon
  <2> QED BY <1>0, <2>2
<1>6. Cardinality(S) <= Len(queue)
  BY <1>4, <1>5, FS_Injection
<1>7. Cardinality(S) = IF got[ch] + 1 > Handed(ch) THEN 0 ELSE Handed(ch) - (got[ch] + 1) + 1
  <2>1. got[ch] + 1 \in Int /\ Handed(ch) \in Int
    BY <1>0
  <2> QED BY <2>1, FS_Interval, Zenon
<1> QED BY <1>0, <1>6, <1>7

(* However slow the client, and after it has gone, a relay is at most the  *)
(* queue and one item ahead of what was yielded.                           *)
THEOREM ReadAheadBounded == Spec => []BoundedReadAhead
<1>1. Init => QueueInv
  BY FlowInit, ProjectorAssumption DEF Init, QueueInv
<1>2. QueueInv => BoundedReadAhead
  BY ReadAhead DEF BoundedReadAhead
<1> QED BY <1>1, <1>2, QueueInvNext, PTL DEF Spec
=============================================================================
