------------------------------ MODULE Webhooks ------------------------------
(***************************************************************************)
(* Webhook registrations and deliveries (core/webhooks.py).  The event     *)
(* buffer starts one deliver_event task per stored event; the task takes a *)
(* snapshot of the matching webhooks, opens an HTTP client, posts to all   *)
(* of them concurrently with retries, and closes the client when the       *)
(* gather returns or raises.  The store's lock is never contended: nothing *)
(* is awaited while it is held.                                            *)
(***************************************************************************)
EXTENDS Naturals, FiniteSets

CONSTANTS
  Webhook,    \* registrations, each with its own random id
  Event,      \* stored events
  Kind,       \* what a subscriber may name: "*" for all, or an event type
  MaxAttempts \* MAX_DELIVERY_ATTEMPTS

ASSUME WebhooksAssumption == MaxAttempts \in Nat \ {0} /\ "*" \in Kind

VARIABLES
  registry, \* registry[w]: whether w is in the store
  kinds,    \* kinds[w]: what w subscribes to
  task,     \* task[e]: where deliver_event(e) is; its client is open while "gathering"
  post,     \* post[e][w]: where _deliver_one(w) of event e is, and its attempt
  received, \* received[e][w]: how often the receiver of w has been posted e (observer)
  outdated  \* outdated[e]: the webhooks already deleted when e was stored (observer)

vars == <<registry, kinds, task, post, received, outdated>>

NoPost == [phase |-> "none", attempt |-> 1]

Init ==
  /\ registry = [w \in Webhook |-> "free"]
  /\ kinds = [w \in Webhook |-> "*"]
  /\ task = [e \in Event |-> "none"]
  /\ post = [e \in Event |-> [w \in Webhook |-> NoPost]]
  /\ received = [e \in Event |-> [w \in Webhook |-> 0]]
  /\ outdated = [e \in Event |-> {}]

-----------------------------------------------------------------------------
(* The store of webhooks, and the event buffer.                            *)

add(w, k) ==
  /\ registry[w] = "free"
  /\ registry' = [registry EXCEPT ![w] = "on"]
  /\ kinds' = [kinds EXCEPT ![w] = k]
  /\ UNCHANGED <<task, post, received, outdated>>

delete(w) ==
  /\ registry[w] = "on"
  /\ registry' = [registry EXCEPT ![w] = "off"]
  /\ UNCHANGED <<kinds, task, post, received, outdated>>

\* _dispatch_webhooks: a task is created for the event, and not awaited.
Store(e) ==
  /\ task[e] = "none"
  /\ task' = [task EXCEPT ![e] = "scheduled"]
  /\ outdated' = [outdated EXCEPT ![e] = {w \in Webhook : registry[w] = "off"}]
  /\ UNCHANGED <<registry, kinds, post, received>>

Restart ==
  /\ registry' = [w \in Webhook |-> IF registry[w] = "on" THEN "off" ELSE registry[w]]
  /\ task' = [e \in Event |-> IF task[e] = "none" THEN "none" ELSE "over"]
  /\ post' = [e \in Event |-> [w \in Webhook |-> NoPost]]
  /\ UNCHANGED <<kinds, received, outdated>>

-----------------------------------------------------------------------------
(* deliver_event.  An event of the projector has a channel but no "type".  *)

\* Fault: the deleted webhooks are not left out.
MatchesDeleted(w) == registry[w] # "free" /\ kinds[w] \in {"*", "unknown"}

Matches(w) == registry[w] = "on" /\ kinds[w] \in {"*", "unknown"}

NothingToDeliver(e) ==
  /\ task[e] = "scheduled"
  /\ \A w \in Webhook : ~Matches(w)
  /\ task' = [task EXCEPT ![e] = "over"]
  /\ UNCHANGED <<registry, kinds, post, received, outdated>>

Deliver(e) ==
  /\ task[e] = "scheduled"
  /\ \E w \in Webhook : Matches(w)
  /\ task' = [task EXCEPT ![e] = "gathering"]
  /\ post' = [post EXCEPT ![e] =
                [w \in Webhook |-> IF Matches(w) THEN [NoPost EXCEPT !.phase = "posting"]
                                   ELSE NoPost]]
  /\ UNCHANGED <<registry, kinds, received, outdated>>

\* Fault: a dropped delivery is waited for.
GatherNeedsAcks(e) ==
  /\ task[e] = "gathering"
  /\ \A w \in Webhook : post[e][w].phase \in {"none", "delivered"}
  /\ task' = [task EXCEPT ![e] = "over"]
  /\ UNCHANGED <<registry, kinds, post, received, outdated>>

\* Every delivery has returned: the client is closed, the ids are returned.
GatherReturns(e) ==
  /\ task[e] = "gathering"
  /\ \A w \in Webhook : post[e][w].phase \in {"none", "delivered", "dropped"}
  /\ task' = [task EXCEPT ![e] = "over"]
  /\ UNCHANGED <<registry, kinds, post, received, outdated>>

-----------------------------------------------------------------------------
(* _deliver_one.                                                           *)

\* 2xx: the receiver has the event.
Acknowledged(e, w) ==
  /\ post[e][w].phase = "posting"
  /\ received' = [received EXCEPT ![e][w] = @ + 1]
  /\ post' = [post EXCEPT ![e][w].phase = "delivered"]
  /\ UNCHANGED <<registry, kinds, task, outdated>>

\* Fault: the last failure is followed by one more attempt.
AfterFailureFault(p) ==
  [p EXCEPT !.phase = IF p.attempt <= MaxAttempts THEN "backoff" ELSE "dropped"]

AfterFailure(p) ==
  [p EXCEPT !.phase = IF p.attempt < MaxAttempts THEN "backoff" ELSE "dropped"]

\* Another status, or an HTTPError: the request was lost, or its answer was.
AttemptFails(e, w) ==
  /\ post[e][w].phase = "posting"
  /\ received' \in {received, [received EXCEPT ![e][w] = @ + 1]}
  /\ post' = [post EXCEPT ![e][w] = AfterFailure(@)]
  /\ UNCHANGED <<registry, kinds, task, outdated>>

\* An exception that is no HTTPError, an invalid URL say, ends the delivery and the
\* gather; the finally clause closes the client, and the other deliveries go on.
AttemptRaises(e, w) ==
  /\ post[e][w].phase = "posting"
  /\ post' = [post EXCEPT ![e][w].phase = "raised"]
  /\ task' = [task EXCEPT ![e] = "over"]
  /\ UNCHANGED <<registry, kinds, received, outdated>>

\* Fault: a counter that is not incremented.
RetryUncounted(e, w) ==
  /\ post[e][w].phase = "backoff"
  /\ task[e] = "gathering"
  /\ post' = [post EXCEPT ![e][w].phase = "posting"]
  /\ UNCHANGED <<registry, kinds, task, received, outdated>>

Retry(e, w) ==
  /\ post[e][w].phase = "backoff"
  /\ task[e] = "gathering"
  /\ post' = [post EXCEPT ![e][w] = [phase |-> "posting", attempt |-> @.attempt + 1]]
  /\ UNCHANGED <<registry, kinds, task, received, outdated>>

\* Fault: one client for all events.
RetryFindsSharedClient(e, w) ==
  /\ post[e][w].phase = "backoff"
  /\ \E q \in Event : task[q] = "over"
  /\ post' = [post EXCEPT ![e][w].phase = "abandoned"]
  /\ UNCHANGED <<registry, kinds, task, received, outdated>>

\* The client was closed during the backoff: its post raises a RuntimeError.
RetryFindsClientClosed(e, w) ==
  /\ post[e][w].phase = "backoff"
  /\ task[e] = "over"
  /\ post' = [post EXCEPT ![e][w].phase = "abandoned"]
  /\ UNCHANGED <<registry, kinds, task, received, outdated>>

-----------------------------------------------------------------------------
StoreStep(w) == (\E k \in Kind : add(w, k)) \/ delete(w)

TaskStep(e) == NothingToDeliver(e) \/ Deliver(e) \/ GatherReturns(e)

PostStep(e, w) ==
  \/ Acknowledged(e, w) \/ AttemptFails(e, w) \/ AttemptRaises(e, w)
  \/ Retry(e, w) \/ RetryFindsClientClosed(e, w)

Next ==
  \/ \E w \in Webhook : StoreStep(w)
  \/ \E e \in Event : Store(e) \/ TaskStep(e)
  \/ \E e \in Event, w \in Webhook : PostStep(e, w)
  \/ Restart

Spec == Init /\ [][Next]_vars

\* A task that is ready runs, and a request ends within its timeout in one of the ways.
Fairness ==
  \A e \in Event : WF_vars(TaskStep(e)) /\ \A w \in Webhook : WF_vars(PostStep(e, w))

FairSpec == Spec /\ Fairness

-----------------------------------------------------------------------------
Delivery == [phase : {"none", "posting", "backoff", "delivered", "dropped", "raised",
                      "abandoned"},
             attempt : 1 .. MaxAttempts]

TypeOK ==
  /\ registry \in [Webhook -> {"free", "on", "off"}]
  /\ kinds \in [Webhook -> Kind]
  /\ task \in [Event -> {"none", "scheduled", "gathering", "over"}]
  /\ post \in [Event -> [Webhook -> Delivery]]
  /\ received \in [Event -> [Webhook -> Nat]]
  /\ outdated \in [Event -> SUBSET Webhook]

(* A receiver is posted an event at most MAX_DELIVERY_ATTEMPTS times,      *)
(* however answers are lost, and what counts as delivered was received.    *)
(* (the loop of _deliver_one)                                              *)
AttemptsBounded ==
  \A e \in Event, w \in Webhook :
    /\ received[e][w] <= MaxAttempts
    /\ post[e][w].phase = "delivered" => received[e][w] > 0

(* A webhook that was deleted before an event was stored is never posted   *)
(* that event, though deliveries of earlier events may still be under way. *)
(* (WebhookStore.delete, the snapshot in deliver_event)                    *)
DeletedGetsNothingNew ==
  \A e \in Event : \A w \in outdated[e] : received[e][w] = 0

(* A delivery gives up early only beside one of the same event that raised: *)
(* each event has a client of its own.  (deliver_event, finally)           *)
FailureStaysInEvent ==
  \A e \in Event :
    (\E w \in Webhook : post[e][w].phase = "abandoned")
      => \E w \in Webhook : post[e][w].phase = "raised"

(* Every delivery ends, and with it its task: no retry goes on for ever.   *)
(* (the loop of _deliver_one, the gather)                                  *)
DeliveriesEnd ==
  \A e \in Event : task[e] = "scheduled" ~>
    task[e] = "over" /\ \A w \in Webhook : post[e][w].phase \notin {"posting", "backoff"}
=============================================================================
