------------------------ MODULE ThreadEventsProofs ------------------------
(***************************************************************************)
(* Proofs about ThreadEvents, for any number of concurrent turns and       *)
(* delete requests and any size of the buffer: its types, a replay is the  *)
(* recent history, no turn in it is torn, and a delete that no turn        *)
(* overlapped is final.                                                    *)
(***************************************************************************)
EXTENDS ThreadEvents, SequenceTheorems, TLAPS

NoneLive == \A s \in Slot : ~Live(s)

\* While a delete request is quiet, and once one has been answered quietly, nothing
\* runs that could write a checkpoint or store an event.
QuietInv ==
  /\ started \in Nat
  /\ turn \in [Slot -> Turn]
  /\ delete \in [Deleter -> {"idle", "removing", "removed"}]
  /\ quiet \in [Deleter -> BOOLEAN]
  /\ \A d \in Deleter : quiet[d] => ~listed /\ NoneLive
  /\ gone = "quietly" => ~listed /\ buffer = <<>> /\ NoneLive

LEMMA QuietInit == Init => QuietInv
BY DEF Init, QuietInv, NoneLive, Live, NoTurn, Turn

\* A step of a live turn: neither a quiet request nor a quiet answer stands.
LEMMA LiveStep ==
  ASSUME QuietInv, NEW s \in Slot, Live(s), quiet' = quiet, gone' = gone, delete' = delete,
         started' = started, turn' \in [Slot -> Turn]
  PROVE  QuietInv'
<1>1. ~NoneLive
  BY DEF NoneLive
<1>2. gone # "quietly" /\ \A d \in Deleter : ~quiet[d]
  BY <1>1 DEF QuietInv
<1> QED BY <1>2 DEF QuietInv

LEMMA QuietTurn ==
  ASSUME QuietInv, NEW s \in Slot, TurnStep(s)
  PROVE  QuietInv'
<1>0. NoTurn \in Turn /\ turn \in [Slot -> Turn]
  BY DEF QuietInv, NoTurn, Turn
<1>1. CASE chat_stream(s) \/ chat(s)
  <2>1. PICK phase \in {"streaming", "detached"} : StartTurn(s, phase)
    BY <1>1 DEF chat_stream, chat
  <2>2. [phase |-> phase, id |-> started + 1, collected |-> 0] \in Turn
    BY DEF Turn, QuietInv
  <2>3. turn' \in [Slot -> Turn]
    BY <1>0, <2>1, <2>2 DEF StartTurn
  <2> QED BY <2>1, <2>3 DEF StartTurn, QuietInv
<1>2. CASE WriteCheckpoint(s)
  BY <1>0, <1>2, LiveStep DEF WriteCheckpoint, Running, Live
<1>3. CASE Chunk(s)
  <2>1. turn' \in [Slot -> Turn]
    BY <1>0, <1>3 DEF Chunk, Turn
  <2> QED BY <1>3, <2>1, LiveStep DEF Chunk, Live
<1>4. CASE LastChunk(s)
  <2>1. turn' \in [Slot -> Turn]
    BY <1>0, <1>4 DEF LastChunk, Turn
  <2> QED BY <1>4, <2>1, LiveStep DEF LastChunk, Live
<1>5. CASE StoreTurn(s)
  BY <1>0, <1>5, LiveStep DEF StoreTurn, Live
<1>6. CASE HangUp(s)
  <2>1. turn' \in [Slot -> Turn]
    BY <1>0, <1>6 DEF HangUp, Turn
  <2> QED BY <1>6, <2>1, LiveStep DEF HangUp, Live
<1>7. CASE DetachedTurnEnds(s)
  BY <1>0, <1>7, LiveStep DEF DetachedTurnEnds, Live
<1> QED BY <1>1, <1>2, <1>3, <1>4, <1>5, <1>6, <1>7 DEF TurnStep

LEMMA QuietDelete ==
  ASSUME QuietInv, NEW d \in Deleter, DeleteStep(d)
  PROVE  QuietInv'
<1> USE DEF QuietInv, NoneLive, Live
<1>1. CASE delete_thread(d)
  BY <1>1 DEF delete_thread
<1>2. CASE adelete_thread(d)
  BY <1>2 DEF adelete_thread
<1>3. CASE DeleteFails(d)
  BY <1>3 DEF DeleteFails
<1>4. CASE AnswerDeleted(d)
  BY <1>4 DEF AnswerDeleted, clear
<1> QED BY <1>1, <1>2, <1>3, <1>4 DEF DeleteStep

LEMMA QuietNext == QuietInv /\ [Next]_vars => QuietInv'
<1> SUFFICES ASSUME QuietInv, [Next]_vars PROVE QuietInv'
  OBVIOUS
<1>1. CASE thread_events_delete
  BY <1>1 DEF thread_events_delete, clear, QuietInv, NoneLive, Live
<1>2. CASE Restart
  <2>1. ~listed => ~listed'
    BY <1>2, Zenon DEF Restart
  <2>2. /\ turn' \in [Slot -> Turn] /\ delete' \in [Deleter -> {"idle", "removing", "removed"}]
        /\ NoneLive'
    BY <1>2 DEF Restart, NoneLive, Live, NoTurn, Turn
  <2>3. quiet' \in [Deleter -> BOOLEAN] /\ \A d \in Deleter : ~quiet'[d]
    BY <1>2 DEF Restart
  <2>4. buffer' = <<>> /\ started' = started /\ gone' = gone
    BY <1>2 DEF Restart, clear
  <2> QED BY <2>1, <2>2, <2>3, <2>4 DEF QuietInv
<1>3. CASE UNCHANGED vars
  BY <1>3 DEF vars, QuietInv, NoneLive, Live
<1> QED BY <1>1, <1>2, <1>3, QuietTurn, QuietDelete DEF Next

(* Once a delete is answered that no turn overlapped, the thread is        *)
(* neither listed nor replayed until a turn starts.                        *)
THEOREM QuietDeleteCorrect == Spec => []QuietDeleteIsFinal
<1>1. QuietInv => QuietDeleteIsFinal
  BY DEF QuietInv, QuietDeleteIsFinal
<1> QED BY <1>1, QuietInit, QuietNext, PTL DEF Spec

-----------------------------------------------------------------------------
(* The buffer.                                                             *)

\* The last MaxEvents of a sequence, element by element.
LEMMA TrimmedElements ==
  ASSUME NEW S, NEW s \in Seq(S)
  PROVE  /\ Trimmed(s) \in Seq(S)
         /\ Len(Trimmed(s)) = IF Len(s) > MaxEvents THEN MaxEvents ELSE Len(s)
         /\ \A i \in 1 .. Len(Trimmed(s)) :
              Trimmed(s)[i] = s[i + Len(s) - Len(Trimmed(s))]
<1> USE EventsAssumption
<1>0. Len(s) \in Nat /\ MaxEvents \in Nat \ {0}
  OBVIOUS
<1>1. CASE Len(s) > MaxEvents
  <2> DEFINE first == Len(s) - MaxEvents + 1
  <2>1. first \in Int /\ Len(s) \in Int /\ \A i \in first .. Len(s) : s[i] \in S
    BY <1>0, <1>1
  <2>2. /\ SubSeq(s, first, Len(s)) \in Seq(S)
        /\ Len(SubSeq(s, first, Len(s))) = MaxEvents
        /\ \A i \in 1 .. MaxEvents : SubSeq(s, first, Len(s))[i] = s[first + i - 1]
    <3>1. Len(s) - first + 1 = MaxEvents /\ first =< Len(s)
      BY <1>0
    <3> HIDE DEF first
    <3> QED BY <2>1, <3>1, SubSeqProperties
  <2>3. Trimmed(s) = SubSeq(s, first, Len(s))
    BY <1>1 DEF Trimmed
  <2>4. \A i \in 1 .. MaxEvents : first + i - 1 = i + Len(s) - MaxEvents
    BY <1>0
  <2> HIDE DEF first
  <2> QED BY <1>0, <1>1, <2>2, <2>3, <2>4
<1>2. CASE ~(Len(s) > MaxEvents)
  BY <1>0, <1>2 DEF Trimmed
<1> QED BY <1>1, <1>2

\* Trimming on the way changes nothing in the end.
LEMMA TrimmedTwice ==
  ASSUME NEW S, NEW s \in Seq(S), NEW t \in Seq(S)
  PROVE  Trimmed(Trimmed(s) \o t) = Trimmed(s \o t)
<1> USE EventsAssumption
<1> DEFINE u == Trimmed(s)
           a == Trimmed(u \o t)
           b == Trimmed(s \o t)
<1>1. /\ u \in Seq(S) /\ Len(u) = IF Len(s) > MaxEvents THEN MaxEvents ELSE Len(s)
      /\ \A i \in 1 .. Len(u) : u[i] = s[i + Len(s) - Len(u)]
  BY TrimmedElements
<1>2. /\ s \o t \in Seq(S) /\ Len(s \o t) = Len(s) + Len(t)
      /\ \A i \in 1 .. Len(s) + Len(t) :
           (s \o t)[i] = IF i <= Len(s) THEN s[i] ELSE t[i - Len(s)]
  BY ConcatProperties
<1>3. /\ u \o t \in Seq(S) /\ Len(u \o t) = Len(u) + Len(t)
      /\ \A i \in 1 .. Len(u) + Len(t) :
           (u \o t)[i] = IF i <= Len(u) THEN u[i] ELSE t[i - Len(u)]
  <2> HIDE DEF u
  <2> QED BY <1>1, ConcatProperties
<1>4. /\ a \in Seq(S) /\ Len(a) = IF Len(u \o t) > MaxEvents THEN MaxEvents ELSE Len(u \o t)
      /\ \A i \in 1 .. Len(a) : a[i] = (u \o t)[i + Len(u \o t) - Len(a)]
  <2> HIDE DEF u
  <2> QED BY <1>3, TrimmedElements
<1>5. /\ b \in Seq(S) /\ Len(b) = IF Len(s \o t) > MaxEvents THEN MaxEvents ELSE Len(s \o t)
      /\ \A i \in 1 .. Len(b) : b[i] = (s \o t)[i + Len(s \o t) - Len(b)]
  BY <1>2, TrimmedElements
<1> HIDE DEF u, a, b
<1>6. Len(s) \in Nat /\ Len(t) \in Nat /\ Len(u) \in Nat /\ MaxEvents \in Nat \ {0}
  BY <1>1
<1>7. /\ Len(u) = IF Len(s) > MaxEvents THEN MaxEvents ELSE Len(s)
      /\ Len(s \o t) = Len(s) + Len(t) /\ Len(u \o t) = Len(u) + Len(t)
      /\ Len(a) = IF Len(u) + Len(t) > MaxEvents THEN MaxEvents ELSE Len(u) + Len(t)
      /\ Len(b) = IF Len(s) + Len(t) > MaxEvents THEN MaxEvents ELSE Len(s) + Len(t)
  BY <1>1, <1>2, <1>3, <1>4, <1>5
<1>8. Len(a) = Len(b) /\ Len(a) \in Nat
  BY <1>6, <1>7
<1>9. ASSUME NEW i \in 1 .. Len(a) PROVE a[i] = b[i]
  <2> DEFINE j == i + (Len(u) + Len(t)) - Len(a)
             k == i + (Len(s) + Len(t)) - Len(b)
  <2>1. /\ j \in 1 .. Len(u) + Len(t) /\ k \in 1 .. Len(s) + Len(t)
        /\ k - j = Len(s) - Len(u)
    <3>1. i \in Nat /\ 1 <= i /\ i <= Len(a) /\ i <= Len(b)
      BY <1>8
    <3>2. Len(a) <= Len(u) + Len(t) /\ Len(b) <= Len(s) + Len(t)
      BY <1>6, <1>7
    <3> QED BY <1>6, <1>8, <3>1, <3>2
  <2>2. a[i] = (u \o t)[j]
    BY <1>4, <1>7
  <2>3. b[i] = (s \o t)[k]
    <3>1. i \in 1 .. Len(b)
      BY <1>8
    <3> QED BY <1>5, <1>7, <3>1
  <2> HIDE DEF j, k
  <2>4. CASE j <= Len(u)
    <3>1. j \in 1 .. Len(u) /\ k = j + Len(s) - Len(u) /\ k <= Len(s)
      BY <1>6, <2>1, <2>4
    <3>2. a[i] = u[j]
      BY <1>3, <2>1, <2>2, <2>4
    <3>3. b[i] = s[k]
      BY <1>2, <2>1, <2>3, <3>1
    <3> QED BY <1>1, <3>1, <3>2, <3>3
  <2>5. CASE ~(j <= Len(u))
    <3>1. ~(k <= Len(s)) /\ k - Len(s) = j - Len(u)
      BY <1>6, <2>1, <2>5
    <3>2. a[i] = t[j - Len(u)]
      BY <1>3, <2>1, <2>2, <2>5
    <3>3. b[i] = t[k - Len(s)]
      BY <1>2, <2>1, <2>3, <3>1
    <3> QED BY <3>1, <3>2, <3>3
  <2> QED BY <2>4, <2>5
<1>10. a = b
  BY <1>4, <1>5, <1>8, <1>9, SeqEqual
<1> QED BY <1>10 DEF a, b, u

\* No turn is torn in a sequence of events (WholeTurns, of any sequence).
Whole(events) ==
  \A i \in DOMAIN events :
    \/ events[i][2] = 0
    \/ /\ i < Len(events)
       /\ events[i + 1] \in {<<events[i][1], events[i][2] + 1>>, <<events[i][1], 0>>}

LEMMA WholeTrimmed ==
  ASSUME NEW s \in Seq(Event), Whole(s)
  PROVE  Whole(Trimmed(s))
<1> DEFINE u == Trimmed(s)
           d == Len(s) - Len(u)
<1>1. /\ u \in Seq(Event) /\ Len(u) = IF Len(s) > MaxEvents THEN MaxEvents ELSE Len(s)
      /\ \A i \in 1 .. Len(u) : u[i] = s[i + Len(s) - Len(u)]
  BY TrimmedElements
<1> HIDE DEF u
<1>2. Len(u) \in Nat /\ Len(s) \in Nat /\ d \in Nat
  BY <1>1, EventsAssumption
<1>3. \A i \in 1 .. Len(u) : i + d \in 1 .. Len(s) /\ u[i] = s[i + d]
  <2> TAKE i \in 1 .. Len(u)
  <2>1. i + Len(s) - Len(u) = i + d /\ i + d \in 1 .. Len(s)
    BY <1>2
  <2> QED BY <1>1, <2>1
<1> HIDE DEF d
<1>4. ASSUME NEW i \in 1 .. Len(u), u[i][2] # 0
      PROVE  /\ i < Len(u)
             /\ u[i + 1] \in {<<u[i][1], u[i][2] + 1>>, <<u[i][1], 0>>}
  <2>1. i + d < Len(s) /\ s[i + d + 1] \in {<<u[i][1], u[i][2] + 1>>, <<u[i][1], 0>>}
    BY <1>3, <1>4 DEF Whole
  <2>2. i < Len(u) /\ i + 1 \in 1 .. Len(u) /\ (i + 1) + d = i + d + 1
    BY <1>2, <2>1 DEF d
  <2> QED BY <1>3, <2>1, <2>2
<1>5. DOMAIN u = 1 .. Len(u)
  BY <1>1
<1> QED BY <1>4, <1>5 DEF Whole, u

LEMMA WholeConcat ==
  ASSUME NEW s \in Seq(Event), NEW t \in Seq(Event), Whole(s), Whole(t)
  PROVE  Whole(s \o t)
<1> DEFINE u == s \o t
<1>1. /\ u \in Seq(Event) /\ Len(u) = Len(s) + Len(t)
      /\ \A i \in 1 .. Len(s) + Len(t) : u[i] = IF i <= Len(s) THEN s[i] ELSE t[i - Len(s)]
  BY ConcatProperties
<1> HIDE DEF u
<1>2. Len(s) \in Nat /\ Len(t) \in Nat /\ DOMAIN u = 1 .. Len(s) + Len(t)
  BY <1>1
<1>3. ASSUME NEW i \in 1 .. Len(s) + Len(t), u[i][2] # 0
      PROVE  /\ i < Len(u)
             /\ u[i + 1] \in {<<u[i][1], u[i][2] + 1>>, <<u[i][1], 0>>}
  <2>1. CASE i <= Len(s)
    <3>1. i \in 1 .. Len(s) /\ u[i] = s[i]
      BY <1>1, <1>2, <2>1
    <3>2. i < Len(s) /\ s[i + 1] \in {<<u[i][1], u[i][2] + 1>>, <<u[i][1], 0>>}
      BY <1>3, <3>1 DEF Whole
    <3>3. i + 1 \in 1 .. Len(s) + Len(t) /\ i + 1 <= Len(s)
      BY <1>2, <3>2
    <3> QED BY <1>1, <1>2, <3>2, <3>3
  <2>2. CASE ~(i <= Len(s))
    <3> DEFINE j == i - Len(s)
    <3>1. j \in 1 .. Len(t) /\ u[i] = t[j]
      BY <1>1, <1>2, <2>2
    <3>2. j < Len(t) /\ t[j + 1] \in {<<u[i][1], u[i][2] + 1>>, <<u[i][1], 0>>}
      BY <1>3, <3>1 DEF Whole
    <3>3. /\ i + 1 \in 1 .. Len(s) + Len(t) /\ ~(i + 1 <= Len(s)) /\ (i + 1) - Len(s) = j + 1
          /\ i < Len(s) + Len(t)
      BY <1>2, <2>2, <3>2
    <3> QED BY <1>1, <3>2, <3>3
  <2> QED BY <2>1, <2>2
<1> QED BY <1>2, <1>3 DEF Whole, u

\* What a turn stores is typed and whole.
LEMMA BatchWhole ==
  ASSUME NEW id \in 1 .. MaxTurns, NEW k \in 0 .. MaxLength
  PROVE  Batch(id, k) \in Seq(Event) /\ Whole(Batch(id, k))
<1> USE EventsAssumption
<1> DEFINE c == Collected(id, k)
           last == <<id, 0>>
<1>1. c \in Seq(Event) /\ Len(c) = k /\ \A i \in 1 .. k : c[i] = <<id, i>>
  BY DEF Collected, Event
<1>2. last \in Event
  BY DEF Event
<1> HIDE DEF c, last
<1>3. /\ Append(c, last) \in Seq(Event) /\ Len(Append(c, last)) = k + 1
      /\ \A i \in 1 .. k : Append(c, last)[i] = <<id, i>>
      /\ Append(c, last)[k + 1] = last
  BY <1>1, <1>2, AppendProperties
<1>4. Batch(id, k) = Append(c, last)
  BY DEF Batch, c, last
<1> DEFINE b == Append(c, last)
<1> HIDE DEF b
<1>5. /\ b \in Seq(Event) /\ DOMAIN b = 1 .. k + 1 /\ Len(b) = k + 1
      /\ \A i \in 1 .. k : b[i] = <<id, i>>
      /\ b[k + 1] = <<id, 0>>
  BY <1>3 DEF b, last
<1>6. ASSUME NEW i \in 1 .. k + 1, b[i][2] # 0
      PROVE  /\ i < k + 1
             /\ b[i + 1] \in {<<b[i][1], b[i][2] + 1>>, <<b[i][1], 0>>}
  <2>1. i # k + 1
    BY <1>5, <1>6
  <2>2. i \in 1 .. k
    BY <2>1
  <2>3. b[i][1] = id /\ b[i][2] = i
    BY <1>5, <2>2
  <2>4. b[i + 1] = <<id, i + 1>> \/ b[i + 1] = <<id, 0>>
    <3>1. i = k \/ i + 1 \in 1 .. k
      BY <2>2
    <3> QED BY <1>5, <3>1
  <2> QED BY <2>2, <2>3, <2>4
<1> QED BY <1>4, <1>5, <1>6 DEF Whole, b

-----------------------------------------------------------------------------
(* The steps.                                                              *)

\* A live turn has a number that was given out, and a bounded collection.
TurnsNumbered ==
  /\ started \in 0 .. MaxTurns
  /\ \A s \in Slot : /\ turn[s].collected \in 0 .. MaxLength
                     /\ Live(s) => turn[s].id \in 1 .. MaxTurns

Stored ==
  /\ log \in Seq(Event) /\ Whole(log)
  /\ buffer = Trimmed(log)

EventsInv == TypeOK /\ TurnsNumbered /\ Stored

LEMMA EmptyStored ==
  <<>> \in Seq(Event) /\ Whole(<<>>) /\ Trimmed(<<>>) = <<>>
BY EventsAssumption DEF Whole, Trimmed

LEMMA StoredStored ==
  ASSUME Stored, NEW batch \in Seq(Event), Whole(batch), store(batch)
  PROVE  Stored' /\ buffer' \in Seq(Event)
<1>1. log' \in Seq(Event) /\ Whole(log')
  BY WholeConcat DEF Stored, store
<1>2. buffer' = Trimmed(log')
  BY TrimmedTwice DEF Stored, store
<1> QED BY <1>1, <1>2, TrimmedElements DEF Stored

LEMMA EventsInit == Init => EventsInv
<1> SUFFICES ASSUME Init PROVE EventsInv
  OBVIOUS
<1>1. TypeOK
  <2>1. turn \in [Slot -> Turn]
    BY DEF Init, NoTurn, Turn
  <2>2. buffer \in Seq(Event) /\ log \in Seq(Event)
    BY EmptyStored DEF Init
  <2> QED BY <2>1, <2>2 DEF Init, TypeOK
<1>2. TurnsNumbered
  BY EventsAssumption DEF Init, TurnsNumbered, NoTurn, Live
<1>3. Stored
  BY EmptyStored DEF Init, Stored
<1> QED BY <1>1, <1>2, <1>3 DEF EventsInv

\* The step of a turn: only StoreTurn touches the buffer.
LEMMA EventsTurn ==
  ASSUME EventsInv, NEW s \in Slot, TurnStep(s)
  PROVE  EventsInv'
<1> USE EventsAssumption
<1>0. /\ TypeOK /\ TurnsNumbered /\ Stored
      /\ NoTurn \in Turn /\ NoTurn.phase = "idle" /\ NoTurn.collected \in 0 .. MaxLength
  BY DEF EventsInv, NoTurn, Turn
\* A step that gives slot s the turn t.
<1>1. ASSUME NEW t \in Turn, turn' = [turn EXCEPT ![s] = t], t.collected \in 0 .. MaxLength,
             t.phase # "idle" => t.id \in 1 .. MaxTurns, started' \in 0 .. MaxTurns
      PROVE  turn' \in [Slot -> Turn] /\ TurnsNumbered'
  BY <1>0, <1>1 DEF TypeOK, TurnsNumbered, Live
<1>2. ASSUME UNCHANGED <<buffer, log>> PROVE Stored' /\ buffer' \in Seq(Event)
  BY <1>0, <1>2 DEF Stored, TypeOK, Whole
<1>3. CASE chat_stream(s) \/ chat(s)
  <2>1. PICK phase \in {"streaming", "detached"} : StartTurn(s, phase)
    BY <1>3 DEF chat_stream, chat
  <2> DEFINE t == [phase |-> phase, id |-> started + 1, collected |-> 0]
  <2>2. started + 1 \in 1 .. MaxTurns
    BY <1>0, <2>1 DEF StartTurn, TurnsNumbered
  <2>3. t \in Turn /\ t.collected \in 0 .. MaxLength /\ t.id \in 1 .. MaxTurns
    BY <2>2 DEF Turn
  <2>4. turn' = [turn EXCEPT ![s] = t] /\ started' \in 0 .. MaxTurns
    BY <2>1, <2>2 DEF StartTurn
  <2> HIDE DEF t
  <2>5. turn' \in [Slot -> Turn] /\ TurnsNumbered'
    BY <1>1, <2>3, <2>4
  <2>6. Stored' /\ buffer' \in Seq(Event)
    BY <1>2, <2>1 DEF StartTurn
  <2>7. started' \in Nat /\ quiet' \in [Deleter -> BOOLEAN] /\ gone' = "no"
        /\ UNCHANGED <<listed, delete, log>>
    BY <2>1, <2>4 DEF StartTurn
  <2> QED BY <1>0, <2>5, <2>6, <2>7 DEF EventsInv, TypeOK
<1>4. CASE WriteCheckpoint(s)
  BY <1>0, <1>2, <1>4 DEF WriteCheckpoint, EventsInv, TypeOK, TurnsNumbered, Live
<1>5. CASE Chunk(s) \/ LastChunk(s) \/ HangUp(s) \/ DetachedTurnEnds(s)
  <2>1. PICK t \in Turn :
          /\ turn' = [turn EXCEPT ![s] = t]
          /\ t.collected \in 0 .. MaxLength
          /\ t.phase # "idle" => t.id \in 1 .. MaxTurns
    <3>1. /\ turn[s] \in Turn /\ turn[s].collected \in 0 .. MaxLength
          /\ turn[s].phase # "idle" => turn[s].id \in 1 .. MaxTurns
      BY <1>0 DEF TypeOK, TurnsNumbered, Live
    <3>2. CASE Chunk(s)
      <4> DEFINE t == [turn[s] EXCEPT !.collected = @ + 1]
      <4>1. t \in Turn /\ t.collected \in 0 .. MaxLength /\ t.id = turn[s].id
        BY <3>1, <3>2 DEF Chunk, Turn
      <4>2. turn' = [turn EXCEPT ![s] = t]
        BY <3>2 DEF Chunk
      <4>3. t.id \in 1 .. MaxTurns
        BY <3>1, <3>2, <4>1 DEF Chunk
      <4> QED BY <4>1, <4>2, <4>3
    <3>3. CASE LastChunk(s)
      <4> DEFINE t == [turn[s] EXCEPT !.phase = "complete"]
      <4>1. t \in Turn /\ t.collected = turn[s].collected /\ t.id = turn[s].id
        BY <3>1 DEF Turn
      <4>2. turn' = [turn EXCEPT ![s] = t]
        BY <3>3 DEF LastChunk
      <4> QED BY <3>1, <3>3, <4>1, <4>2 DEF LastChunk
    <3>4. CASE HangUp(s) /\ turn[s].phase = "streaming"
      <4> DEFINE t == [turn[s] EXCEPT !.phase = "detached", !.collected = 0]
      <4>1. t \in Turn /\ t.collected = 0 /\ t.id = turn[s].id
        BY <3>1 DEF Turn
      <4>2. turn' = [turn EXCEPT ![s] = t]
        BY <3>4 DEF HangUp
      <4> HIDE DEF t
      <4>3. t.id \in 1 .. MaxTurns /\ t.collected \in 0 .. MaxLength
        BY <3>1, <3>4, <4>1
      <4> QED BY <4>1, <4>2, <4>3
    <3>5. CASE (HangUp(s) /\ turn[s].phase # "streaming") \/ DetachedTurnEnds(s)
      <4>1. turn' = [turn EXCEPT ![s] = NoTurn]
        BY <3>5 DEF HangUp, DetachedTurnEnds
      <4> QED BY <1>0, <4>1
    <3> QED BY <1>5, <3>2, <3>3, <3>4, <3>5
  <2>2. UNCHANGED <<started, buffer, listed, delete, log, quiet, gone>>
    BY <1>5 DEF Chunk, LastChunk, HangUp, DetachedTurnEnds
  <2>3. started' \in 0 .. MaxTurns
    BY <1>0, <2>2 DEF TurnsNumbered
  <2>4. turn' \in [Slot -> Turn] /\ TurnsNumbered'
    BY <1>1, <2>1, <2>3
  <2> QED BY <1>0, <1>2, <2>2, <2>4 DEF EventsInv, TypeOK
<1>6. CASE StoreTurn(s)
  <2>1. turn[s].id \in 1 .. MaxTurns /\ turn[s].collected \in 0 .. MaxLength
    BY <1>0, <1>6 DEF StoreTurn, TurnsNumbered, Live
  <2>2. Stored' /\ buffer' \in Seq(Event)
    BY <1>0, <1>6, <2>1, BatchWhole, StoredStored DEF StoreTurn
  <2>3. turn' \in [Slot -> Turn] /\ TurnsNumbered'
    BY <1>0, <1>1, <1>6 DEF StoreTurn, TurnsNumbered
  <2> QED BY <1>0, <1>6, <2>2, <2>3 DEF StoreTurn, EventsInv, TypeOK, Stored
<1> QED BY <1>3, <1>4, <1>5, <1>6 DEF TurnStep

LEMMA EventsNext == EventsInv /\ [Next]_vars => EventsInv'
<1> SUFFICES ASSUME EventsInv, [Next]_vars PROVE EventsInv'
  OBVIOUS
<1>0. TypeOK /\ TurnsNumbered /\ Stored
  BY DEF EventsInv
<1>1. ASSUME clear PROVE Stored' /\ buffer' \in Seq(Event)
  BY <1>1, EmptyStored DEF clear, Stored
<1>2. ASSUME NEW d \in Deleter, DeleteStep(d) PROVE EventsInv'
  <2>1. UNCHANGED <<turn, started>>
    BY <1>2 DEF DeleteStep, delete_thread, adelete_thread, DeleteFails, AnswerDeleted
  <2>2. TurnsNumbered'
    BY <1>0, <2>1 DEF TurnsNumbered, Live
  <2>3. Stored' /\ buffer' \in Seq(Event)
    <3>1. CASE AnswerDeleted(d)
      BY <1>1, <3>1 DEF AnswerDeleted
    <3>2. CASE ~AnswerDeleted(d)
      BY <1>0, <1>2, <3>2 DEF DeleteStep, delete_thread, adelete_thread, DeleteFails, Stored, TypeOK
    <3> QED BY <3>1, <3>2
  <2>4. /\ delete' \in [Deleter -> {"idle", "removing", "removed"}] /\ listed' \in BOOLEAN
        /\ quiet' \in [Deleter -> BOOLEAN] /\ gone' \in {"no", "overlapped", "quietly"}
    BY <1>0, <1>2 DEF DeleteStep, delete_thread, adelete_thread, DeleteFails, AnswerDeleted, TypeOK
  <2> QED BY <1>0, <2>1, <2>2, <2>3, <2>4 DEF EventsInv, TypeOK, Stored
<1>3. CASE thread_events_delete
  BY <1>0, <1>1, <1>3 DEF thread_events_delete, EventsInv, TypeOK, TurnsNumbered, Live, Stored
<1>4. CASE Restart
  <2>1. turn' \in [Slot -> Turn] /\ TurnsNumbered'
    BY <1>0, <1>4, EventsAssumption DEF Restart, TurnsNumbered, Live, NoTurn, Turn
  <2>2. listed' \in BOOLEAN
    BY <1>0, <1>4, Zenon DEF Restart, TypeOK
  <2> QED BY <1>0, <1>1, <1>4, <2>1, <2>2 DEF Restart, EventsInv, TypeOK, Stored
<1>5. CASE UNCHANGED vars
  BY <1>0, <1>5 DEF vars, EventsInv, TypeOK, TurnsNumbered, Live, Stored
<1> QED BY <1>2, <1>3, <1>4, <1>5, EventsTurn DEF Next

LEMMA EventsAlways == Spec => []EventsInv
BY EventsInit, EventsNext, PTL DEF Spec

(* The state is always well typed: in particular a replay names only turns *)
(* that were started, with the numbers their items had.                    *)
THEOREM TypeCorrect == Spec => []TypeOK
<1>1. EventsInv => TypeOK
  BY DEF EventsInv
<1> QED BY <1>1, EventsAlways, PTL

(* Cutting at every store is the same as keeping everything and cutting    *)
(* once (ThreadEventBuffer.store, clear).                                  *)
THEOREM ReplayCorrect == Spec => []ReplayIsRecentHistory
<1>1. EventsInv => ReplayIsRecentHistory
  BY DEF EventsInv, Stored, ReplayIsRecentHistory
<1> QED BY <1>1, EventsAlways, PTL

(* Whatever turns overlap, hang up or are cut off at the front of the      *)
(* buffer, each turn of a replay runs on unmixed to its "complete".        *)
THEOREM WholeTurnsCorrect == Spec => []WholeTurns
<1>1. EventsInv => WholeTurns
  <2> SUFFICES ASSUME EventsInv PROVE WholeTurns
    OBVIOUS
  <2>1. Whole(buffer)
    BY WholeTrimmed DEF EventsInv, Stored
  <2> QED BY <2>1 DEF Whole, WholeTurns
<1> QED BY <1>1, EventsAlways, PTL
=============================================================================
