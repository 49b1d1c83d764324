---------------------------- MODULE ThreadEvents ----------------------------
(***************************************************************************)
(* One thread's event buffer (core/events/buffer.py) and checkpoints, as   *)
(* the turns, the delete endpoints of core/api.py and a restart of the     *)
(* server move them.  A streamed turn collects its events and stores them  *)
(* all when its generator is exhausted; its graph writes checkpoints       *)
(* meanwhile, and goes on to do so when the client hangs up.  How a turn   *)
(* is streamed is StreamProjector's matter; here it is a number of events. *)
(***************************************************************************)
EXTENDS Naturals, Sequences

CONSTANTS
  Slot,      \* slots for concurrent turns of the thread
  Deleter,   \* slots for concurrent DELETE /v1/threads/{id} requests
  MaxEvents, \* MAX_EVENTS_PER_THREAD (10 000)
  MaxTurns,  \* bound of the model: turns started
  MaxLength  \* bound of the model: items of one turn

ASSUME EventsAssumption ==
  /\ MaxEvents \in Nat \ {0} /\ MaxTurns \in Nat /\ MaxLength \in Nat

VARIABLES
  turn,    \* turn[s]: the turn in slot s: its phase, its number, len(collected)
  started, \* number of turns started
  buffer,  \* _events[thread]: the stored events, oldest first
  listed,  \* the checkpointer holds a checkpoint of the thread
  delete,  \* delete[d]: where delete request d is
  log,     \* all events stored since the buffer was last emptied (observer)
  quiet,   \* quiet[d]: no turn was live since d removed the checkpoints (observer)
  gone     \* what deletes have answered since a turn last started (observer)

vars == <<turn, started, buffer, listed, delete, log, quiet, gone>>

NoTurn == [phase |-> "idle", id |-> 0, collected |-> 0]

\* "streaming": the client is served.  "complete": it was handed the last chunk, the
\* generator has not been resumed.  "detached": the graph runs for no stream, because
\* the client hung up or the turn is a plain chat or a resume.
Live(s) == turn[s].phase # "idle"
Running(s) == turn[s].phase \in {"streaming", "detached"}

Init ==
  /\ turn = [s \in Slot |-> NoTurn]
  /\ started = 0
  /\ buffer = <<>>
  /\ listed = FALSE
  /\ delete = [d \in Deleter |-> "idle"]
  /\ log = <<>>
  /\ quiet = [d \in Deleter |-> FALSE]
  /\ gone = "no"

-----------------------------------------------------------------------------
(* ThreadEventBuffer.                                                      *)

\* The k items a turn collected and its "complete", which is event 0 of the turn.
Collected(id, k) == [n \in 1 .. k |-> <<id, n>>]
\* Fault: the "complete" is numbered as one more item.
BatchFault(id, k) == Collected(id, k + 1)

Batch(id, k) == Append(Collected(id, k), <<id, 0>>)

Trimmed(events) ==
  IF Len(events) > MaxEvents
  THEN SubSeq(events, Len(events) - MaxEvents + 1, Len(events))
  ELSE events

\* Fault: the buffer is trimmed before it is extended.
TrimThenExtend(batch) ==
  /\ buffer' = Trimmed(buffer) \o batch
  /\ log' = log \o batch

store(batch) ==
  /\ buffer' = Trimmed(buffer \o batch)
  /\ log' = log \o batch

clear ==
  /\ buffer' = <<>>
  /\ log' = <<>>

-----------------------------------------------------------------------------
(* Turns.                                                                  *)

StartTurn(s, phase) ==
  /\ ~Live(s) /\ started < MaxTurns
  /\ started' = started + 1
  /\ turn' = [turn EXCEPT ![s] = [phase |-> phase, id |-> started + 1, collected |-> 0]]
  /\ quiet' = [d \in Deleter |-> FALSE]
  /\ gone' = "no"
  /\ UNCHANGED <<buffer, listed, delete, log>>

chat_stream(s) == StartTurn(s, "streaming")
chat(s) == StartTurn(s, "detached")

WriteCheckpoint(s) ==
  /\ Running(s)
  /\ listed' = TRUE
  /\ UNCHANGED <<turn, started, buffer, delete, log, quiet, gone>>

Chunk(s) ==
  /\ turn[s].phase = "streaming" /\ turn[s].collected < MaxLength
  /\ turn' = [turn EXCEPT ![s].collected = @ + 1]
  /\ UNCHANGED <<started, buffer, listed, delete, log, quiet, gone>>

LastChunk(s) ==
  /\ turn[s].phase = "streaming"
  /\ turn' = [turn EXCEPT ![s].phase = "complete"]
  /\ UNCHANGED <<started, buffer, listed, delete, log, quiet, gone>>

\* The generator is resumed after the last chunk and stores what it collected.
StoreTurn(s) ==
  /\ turn[s].phase = "complete"
  /\ store(Batch(turn[s].id, turn[s].collected))
  /\ turn' = [turn EXCEPT ![s] = NoTurn]
  /\ UNCHANGED <<started, listed, delete, quiet, gone>>

\* Fault: a finally clause stores what was collected before the client hung up.
StorePartial(s) ==
  /\ turn[s].phase \in {"streaming", "complete"}
  /\ store(Collected(turn[s].id, turn[s].collected))
  /\ turn' = [turn EXCEPT ![s] = NoTurn]
  /\ UNCHANGED <<started, listed, delete, quiet, gone>>

\* The generator is closed at a yield and collected is dropped; a graph that has not
\* finished is not cancelled.
HangUp(s) ==
  /\ turn[s].phase \in {"streaming", "complete"}
  /\ turn' = [turn EXCEPT ![s] =
                IF @.phase = "streaming" THEN [@ EXCEPT !.phase = "detached", !.collected = 0]
                ELSE NoTurn]
  /\ UNCHANGED <<started, buffer, listed, delete, log, quiet, gone>>

DetachedTurnEnds(s) ==
  /\ turn[s].phase = "detached"
  /\ turn' = [turn EXCEPT ![s] = NoTurn]
  /\ UNCHANGED <<started, buffer, listed, delete, log, quiet, gone>>

-----------------------------------------------------------------------------
(* The endpoints that delete, and the restart.                             *)

thread_events_delete ==
  /\ clear
  /\ UNCHANGED <<turn, started, listed, delete, quiet, gone>>

delete_thread(d) ==
  /\ delete[d] = "idle"
  /\ delete' = [delete EXCEPT ![d] = "removing"]
  /\ UNCHANGED <<turn, started, buffer, listed, log, quiet, gone>>

adelete_thread(d) ==
  /\ delete[d] = "removing"
  /\ delete' = [delete EXCEPT ![d] = "removed"]
  /\ listed' = FALSE
  /\ quiet' = [quiet EXCEPT ![d] = \A s \in Slot : ~Live(s)]
  /\ UNCHANGED <<turn, started, buffer, log, gone>>

\* The checkpointer raises: the request answers deleted = false and touches no event.
DeleteFails(d) ==
  /\ delete[d] = "removing"
  /\ delete' = [delete EXCEPT ![d] = "idle"]
  /\ UNCHANGED <<turn, started, buffer, listed, log, quiet, gone>>

\* Fault: the events of the deleted thread are kept.
AnswerWithoutClear(d) ==
  /\ delete[d] = "removed"
  /\ delete' = [delete EXCEPT ![d] = "idle"]
  /\ gone' = IF quiet[d] \/ gone = "quietly" THEN "quietly" ELSE "overlapped"
  /\ quiet' = [quiet EXCEPT ![d] = FALSE]
  /\ UNCHANGED <<turn, started, buffer, listed, log>>

AnswerDeleted(d) ==
  /\ delete[d] = "removed"
  /\ delete' = [delete EXCEPT ![d] = "idle"]
  /\ clear
  /\ gone' = IF quiet[d] \/ gone = "quietly" THEN "quietly" ELSE "overlapped"
  /\ quiet' = [quiet EXCEPT ![d] = FALSE]
  /\ UNCHANGED <<turn, started, listed>>

\* The buffer and the requests die with the process; so do the checkpoints of the
\* in-memory saver, but not those in Redis or Postgres.
Restart ==
  /\ clear
  /\ listed' \in {listed, FALSE}
  /\ turn' = [s \in Slot |-> NoTurn]
  /\ delete' = [d \in Deleter |-> "idle"]
  /\ quiet' = [d \in Deleter |-> FALSE]
  /\ UNCHANGED <<started, gone>>

-----------------------------------------------------------------------------
TurnStep(s) ==
  \/ chat_stream(s) \/ chat(s) \/ WriteCheckpoint(s) \/ Chunk(s) \/ LastChunk(s)
  \/ StoreTurn(s) \/ HangUp(s) \/ DetachedTurnEnds(s)

DeleteStep(d) == delete_thread(d) \/ adelete_thread(d) \/ DeleteFails(d) \/ AnswerDeleted(d)

Next ==
  \/ \E s \in Slot : TurnStep(s)
  \/ \E d \in Deleter : DeleteStep(d)
  \/ thread_events_delete
  \/ Restart

Spec == Init /\ [][Next]_vars

-----------------------------------------------------------------------------
Turn == [phase : {"idle", "streaming", "complete", "detached"}, id : Nat, collected : Nat]
Event == (1 .. MaxTurns) \X (0 .. MaxLength)

TypeOK ==
  /\ turn \in [Slot -> Turn]
  /\ started \in Nat
  /\ buffer \in Seq(Event)
  /\ listed \in BOOLEAN
  /\ delete \in [Deleter -> {"idle", "removing", "removed"}]
  /\ log \in Seq(Event)
  /\ quiet \in [Deleter -> BOOLEAN]
  /\ gone \in {"no", "overlapped", "quietly"}

(* A replay is the newest MaxEvents events of all the turns stored since   *)
(* the buffer was last emptied, as if the whole history had been kept and  *)
(* cut once.  (store, clear)                                               *)
ReplayIsRecentHistory == buffer = Trimmed(log)

(* No turn is torn: in a replay each turn runs on, in order and unmixed    *)
(* with a concurrent turn, to its "complete"; only the oldest may miss its *)
(* start.  (collected is stored as one batch, the oldest are trimmed)      *)
WholeTurns ==
  \A i \in DOMAIN buffer :
    LET id == buffer[i][1]  n == buffer[i][2]
    IN  \/ n = 0
        \/ i < Len(buffer) /\ buffer[i + 1] \in {<<id, n + 1>>, <<id, 0>>}

(* A delete that no turn of the thread overlapped is final: until the next *)
(* turn starts the thread is not listed again and nothing is replayed,     *)
(* whatever other deletes and restarts do.  (delete_thread)                *)
QuietDeleteIsFinal == gone = "quietly" => ~listed /\ buffer = <<>>

-----------------------------------------------------------------------------
(* What the documentation promises and the code does not keep.             *)

(* delete_thread: subsequent GET /v1/threads will not include this thread. *)
(* No turn has started since the delete was answered, yet one that was in  *)
(* flight writes its next checkpoint.                                      *)
DeletedStaysDeleted == gone # "no" => ~listed
=============================================================================
