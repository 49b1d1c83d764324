-------------------------- MODULE StreamProjector --------------------------
(***************************************************************************)
(* project_v3_stream (core/v3_projector.py) as chat_stream (core/api.py)   *)
(* consumes it: one relay task per projection of the turn's stream puts    *)
(* items into one bounded asyncio.Queue, and a sentinel when it ends; the  *)
(* generator gets them, yields each to the SSE response, counts sentinels, *)
(* and then adds the control events.  The items of a channel are told      *)
(* apart by their number; an item that a relay drops as empty changes      *)
(* nothing and is no step here.                                            *)
(***************************************************************************)
EXTENDS Naturals, Sequences, FiniteSets

CONSTANTS
  Channel,   \* the projections: messages, tool_calls, subagents, values
  QueueSize, \* maxsize of the queue (256)
  MaxItems   \* bound of the model: items per channel in one turn

ASSUME ProjectorAssumption ==
  /\ IsFiniteSet(Channel)
  /\ QueueSize \in Nat \ {0}
  /\ MaxItems \in Nat

VARIABLES
  relay,     \* relay[ch]: what the relay task of ch is doing
  taken,     \* taken[ch]: number of items the relay has taken from its projection
  queue,     \* the shared queue
  completed, \* the sentinels the generator has counted
  consumer,  \* where the generator is
  got,       \* got[ch]: number of the last item of ch yielded to the client
  control    \* the control events yielded to the client

vars == <<relay, taken, queue, completed, consumer, got, control>>

\* Fault: a relay was added to the tasks but not to the count.
NumProducersFault == Cardinality(Channel) - 1

NumProducers == Cardinality(Channel)

\* An entry of the queue is the n-th item of a channel; n = 0 stands for the None a
\* relay ends with (the code's None is anonymous, nothing reads the channel of a 0).
Entry == Channel \X Nat

Init ==
  /\ relay = [ch \in Channel |-> "reading"]
  /\ taken = [ch \in Channel |-> 0]
  /\ queue = <<>>
  /\ completed = 0
  /\ consumer = "draining"
  /\ got = [ch \in Channel |-> 0]
  /\ control = <<>>

-----------------------------------------------------------------------------
(* The relays.                                                             *)

Take(ch) ==
  /\ relay[ch] = "reading"
  /\ taken[ch] < MaxItems
  /\ taken' = [taken EXCEPT ![ch] = @ + 1]
  /\ relay' = [relay EXCEPT ![ch] = "holding"]
  /\ UNCHANGED <<queue, completed, consumer, got, control>>

\* Fault: a relay that ends in an exception is left in no state the others know.
ProjectionFails(ch) ==
  /\ relay[ch] = "reading"
  /\ relay' = [relay EXCEPT ![ch] = "failed"]
  /\ UNCHANGED <<taken, queue, completed, consumer, got, control>>

\* Fault: no finally clause, the relay ends without its sentinel.
NoFinally(ch) ==
  /\ relay[ch] = "reading"
  /\ relay' = [relay EXCEPT ![ch] = "done"]
  /\ UNCHANGED <<taken, queue, completed, consumer, got, control>>

\* The projection is exhausted, or it or the conversion of an item raises, which the
\* relay swallows: both lead to the finally clause.
ProjectionEnds(ch) ==
  /\ relay[ch] = "reading"
  /\ relay' = [relay EXCEPT ![ch] = "closing"]
  /\ UNCHANGED <<taken, queue, completed, consumer, got, control>>

\* Fault: put_nowait, and what does not fit is dropped.
PutNowait(ch) ==
  /\ relay[ch] \in {"holding", "closing"}
  /\ queue' = IF Len(queue) < QueueSize
              THEN Append(queue, <<ch, IF relay[ch] = "holding" THEN taken[ch] ELSE 0>>)
              ELSE queue
  /\ relay' = [relay EXCEPT ![ch] = IF @ = "holding" THEN "reading" ELSE "done"]
  /\ UNCHANGED <<taken, completed, consumer, got, control>>

\* Fault: a queue without maxsize.
PutUnbounded(ch) ==
  /\ relay[ch] \in {"holding", "closing"}
  /\ queue' = Append(queue, <<ch, IF relay[ch] = "holding" THEN taken[ch] ELSE 0>>)
  /\ relay' = [relay EXCEPT ![ch] = IF @ = "holding" THEN "reading" ELSE "done"]
  /\ UNCHANGED <<taken, completed, consumer, got, control>>

\* await queue.put(...), which waits while the queue is full.
Put(ch) ==
  /\ relay[ch] \in {"holding", "closing"}
  /\ Len(queue) < QueueSize
  /\ queue' = Append(queue, <<ch, IF relay[ch] = "holding" THEN taken[ch] ELSE 0>>)
  /\ relay' = [relay EXCEPT ![ch] = IF @ = "holding" THEN "reading" ELSE "done"]
  /\ UNCHANGED <<taken, completed, consumer, got, control>>

-----------------------------------------------------------------------------
(* The generator.                                                          *)

GetSentinel ==
  /\ consumer = "draining" /\ completed < NumProducers
  /\ queue # <<>> /\ Head(queue)[2] = 0
  /\ queue' = Tail(queue)
  /\ completed' = completed + 1
  /\ UNCHANGED <<relay, taken, consumer, got, control>>

GetItem ==
  /\ consumer = "draining" /\ completed < NumProducers
  /\ queue # <<>> /\ Head(queue)[2] # 0
  /\ queue' = Tail(queue)
  /\ got' = [got EXCEPT ![Head(queue)[1]] = Head(queue)[2]]
  /\ consumer' = "yielding"
  /\ UNCHANGED <<relay, taken, completed, control>>

\* The response has written the chunk and asks the generator for the next one.
ChunkSent ==
  /\ consumer = "yielding"
  /\ consumer' = "draining"
  /\ UNCHANGED <<relay, taken, queue, completed, got, control>>

\* Fault: the first sentinel is taken for the end of the turn.
GatherEarly ==
  /\ consumer = "draining" /\ completed >= 1
  /\ consumer' = "asking"
  /\ UNCHANGED <<relay, taken, queue, completed, got, control>>

Gather ==
  /\ consumer = "draining" /\ completed >= NumProducers
  /\ \A ch \in Channel : relay[ch] = "done"
  /\ consumer' = "asking"
  /\ UNCHANGED <<relay, taken, queue, completed, got, control>>

\* stream.interrupted() is true and stream.interrupts() lists at least one.
YieldInterrupt ==
  /\ consumer = "asking"
  /\ control' = Append(control, "interrupt")
  /\ consumer' = "announcing"
  /\ UNCHANGED <<relay, taken, queue, completed, got>>

YieldComplete ==
  /\ consumer \in {"asking", "announcing"}
  /\ control' = Append(control, "complete")
  /\ consumer' = "finishing"
  /\ UNCHANGED <<relay, taken, queue, completed, got>>

\* The generator is exhausted and chat_stream goes on to store what it collected.
Finish ==
  /\ consumer = "finishing"
  /\ consumer' = "finished"
  /\ UNCHANGED <<relay, taken, queue, completed, got, control>>

\* The client goes away: the generator is closed where it stands, the relay tasks
\* are not cancelled.
Disconnect ==
  /\ consumer \notin {"finished", "closed"}
  /\ consumer' = "closed"
  /\ UNCHANGED <<relay, taken, queue, completed, got, control>>

-----------------------------------------------------------------------------
RelayStep(ch) == Take(ch) \/ ProjectionEnds(ch) \/ Put(ch)

ConsumerStep ==
  \/ GetSentinel \/ GetItem \/ ChunkSent \/ Gather
  \/ YieldInterrupt \/ YieldComplete \/ Finish

Next == (\E ch \in Channel : RelayStep(ch)) \/ ConsumerStep \/ Disconnect

Spec == Init /\ [][Next]_vars

\* The event loop runs every task that is ready, the turn is finite (the recursion
\* limit and the timeouts of model and tools see to that), and the client reads what
\* it is sent or hangs up.
Fairness ==
  /\ \A ch \in Channel : WF_vars(Put(ch)) /\ WF_vars(ProjectionEnds(ch))
  /\ WF_vars(ConsumerStep)

FairSpec == Spec /\ Fairness

-----------------------------------------------------------------------------
TypeOK ==
  /\ relay \in [Channel -> {"reading", "holding", "closing", "done"}]
  /\ taken \in [Channel -> Nat]
  /\ queue \in Seq(Entry)
  /\ completed \in Nat
  /\ consumer \in {"draining", "yielding", "asking", "announcing", "finishing", "finished",
                   "closed"}
  /\ got \in [Channel -> Nat]
  /\ control \in Seq({"interrupt", "complete"})

\* The number of the last item of ch that has been put.
Handed(ch) == IF relay[ch] = "holding" THEN taken[ch] - 1 ELSE taken[ch]

Unread(ch) == {i \in DOMAIN queue : queue[i][1] = ch /\ queue[i][2] # 0}
Announced(ch) == {i \in DOMAIN queue : queue[i] = <<ch, 0>>}

Flow(ch) ==
  /\ got[ch] <= Handed(ch)
  /\ \A n \in got[ch] + 1 .. Handed(ch) : \E i \in Unread(ch) : queue[i][2] = n
  /\ \A i \in Unread(ch) : queue[i][2] \in got[ch] + 1 .. Handed(ch)
  /\ \A i, j \in Unread(ch) : i < j => queue[i][2] < queue[j][2]
  /\ \A i \in Announced(ch) : relay[ch] = "done" /\ \A j \in Unread(ch) : j < i

(* The queue holds exactly what each relay has put and the client has not  *)
(* been sent, every channel in order with its sentinel behind all its      *)
(* items, however the relays interleave and whenever the queue is full.    *)
(* (the relays and the get loop of project_v3_stream)                      *)
NothingLost == \A ch \in Channel : Flow(ch)

Counted == {ch \in Channel : relay[ch] = "done" /\ Announced(ch) = {}}

(* Every relay that has ended left one sentinel, in the queue or counted,  *)
(* and a counted channel has nothing left to read: the loop can neither    *)
(* stop before a channel is drained nor wait for a sentinel that never     *)
(* comes.  (num_producers, completed)                                      *)
SentinelsAccounted ==
  /\ completed = Cardinality(Counted)
  /\ \A ch \in Channel : \A i, j \in Announced(ch) : i = j
  /\ \A ch \in Counted : Unread(ch) = {}

(* A slow or vanished client holds the turn back: a relay is never more    *)
(* than the queue and the one item in its hand ahead of what was yielded.  *)
(* (maxsize of the queue, await put)                                       *)
BoundedReadAhead == \A ch \in Channel : taken[ch] - got[ch] <= QueueSize + 1

Feed == INSTANCE TurnFeed WITH
  made  <- taken,
  ended <- {ch \in Channel : relay[ch] \in {"closing", "done"}},
  open  <- consumer # "closed"

(* The queue, the sentinels and the gather implement the promise made to   *)
(* the client: TurnFeed.  (project_v3_stream; "complete" is last)          *)
FeedSpec == Feed!Spec

(* A turn whose client keeps reading gets its "complete" and is handed to  *)
(* the event buffer: nobody waits forever for a sentinel or for room.      *)
(* (chat_stream: a final "complete" event is always sent)                  *)
TurnFinishes == <>(consumer \in {"finished", "closed"})

RelaysSettled ==
  \/ \A ch \in Channel : relay[ch] = "done"
  \/ consumer = "closed" /\ Len(queue) = QueueSize

(* A relay task outlives its turn only when the client went away with the  *)
(* queue full; any other turn, abandoned or not, ends all its relays.      *)
(* (no cancellation of tasks in project_v3_stream)                         *)
RelaysSettle == <>[]RelaysSettled
=============================================================================
