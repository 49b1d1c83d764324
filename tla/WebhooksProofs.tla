--------------------------- MODULE WebhooksProofs ---------------------------
(* Theorems about Webhooks: its safety properties, for any number of         *)
(* registrations, events and attempts.                                       *)
EXTENDS Webhooks, TLAPS

\* Before its task has begun, nothing of an event has been posted; from then on each
\* attempt has reached the receiver at most once, the one under way not yet.
AttemptInv ==
  \A e \in Event, w \in Webhook :
    /\ received[e][w] <= MaxAttempts
    /\ task[e] \in {"none", "scheduled"} =>
         received[e][w] = 0 /\ post[e][w].phase = "none"
    /\ post[e][w].phase # "none" => received[e][w] <= post[e][w].attempt
    /\ post[e][w].phase = "posting" => received[e][w] < post[e][w].attempt
    /\ post[e][w].phase = "backoff" => post[e][w].attempt < MaxAttempts
    /\ post[e][w].phase = "delivered" => received[e][w] > 0

\* A deleted webhook is not registered again, and is in no later snapshot.
OutdatedInv ==
  \A e \in Event : \A w \in outdated[e] :
    registry[w] = "off" /\ received[e][w] = 0 /\ post[e][w].phase = "none"

\* A client is closed under a delivery only by one that raised.
ClosedInv ==
  \A e \in Event :
    (\E w \in Webhook : \/ post[e][w].phase = "abandoned"
                        \/ task[e] = "over" /\ post[e][w].phase \in {"posting", "backoff"})
      => \E w \in Webhook : post[e][w].phase = "raised"

Inv == TypeOK /\ AttemptInv /\ OutdatedInv /\ ClosedInv

LEMMA InitInv == Init => Inv
  BY WebhooksAssumption
     DEF Init, Inv, TypeOK, AttemptInv, OutdatedInv, ClosedInv, NoPost, Delivery

LEMMA StoreStepInv ==
  ASSUME Inv, NEW w \in Webhook, StoreStep(w)
  PROVE  Inv'
<1>1. UNCHANGED <<task, post, received, outdated>>
  BY DEF StoreStep, add, delete
<1>2. TypeOK'
  BY DEF Inv, TypeOK, StoreStep, add, delete
<1>3. \A q \in Webhook : registry[q] = "off" => registry'[q] = "off"
  BY DEF Inv, TypeOK, StoreStep, add, delete
<1>4. AttemptInv' /\ ClosedInv'
  BY <1>1 DEF Inv, AttemptInv, ClosedInv
<1>5. OutdatedInv'
  BY <1>1, <1>3 DEF Inv, TypeOK, OutdatedInv
<1> QED BY <1>2, <1>4, <1>5 DEF Inv

LEMMA TaskStepInv ==
  ASSUME Inv, NEW e \in Event, Store(e) \/ TaskStep(e)
  PROVE  Inv'
<1> USE WebhooksAssumption
<1>1. UNCHANGED <<registry, kinds, received>>
  BY DEF Store, TaskStep, NothingToDeliver, Deliver, GatherReturns
<1>2. CASE Store(e)
  <2>1. TypeOK' /\ AttemptInv'
    BY <1>2 DEF Store, Inv, TypeOK, AttemptInv
  <2>2. OutdatedInv'
    BY <1>2 DEF Store, Inv, TypeOK, AttemptInv, OutdatedInv
  <2>3. ClosedInv'
    BY <1>2 DEF Store, Inv, TypeOK, ClosedInv
  <2> QED BY <2>1, <2>2, <2>3 DEF Inv
<1>3. CASE NothingToDeliver(e)
  <2>1. TypeOK' /\ AttemptInv' /\ OutdatedInv'
    BY <1>3 DEF NothingToDeliver, Inv, TypeOK, AttemptInv, OutdatedInv
  <2>2. \A w \in Webhook : post[e][w].phase = "none"
    BY <1>3 DEF NothingToDeliver, Inv, AttemptInv
  <2>3. ClosedInv'
    BY <1>3, <2>2 DEF NothingToDeliver, Inv, TypeOK, ClosedInv
  <2> QED BY <2>1, <2>3 DEF Inv
<1>4. CASE Deliver(e)
  <2> DEFINE row == [w \in Webhook |-> IF Matches(w)
                                        THEN [NoPost EXCEPT !.phase = "posting"]
                                        ELSE NoPost]
  <2>a. row \in [Webhook -> Delivery]
    BY DEF NoPost, Delivery
  <2>b. post' = [post EXCEPT ![e] = row]
    BY <1>4 DEF Deliver
  <2>1. TypeOK'
    <3> HIDE DEF row
    <3> QED BY <1>4, <2>a, <2>b DEF Deliver, Inv, TypeOK
  <2>2. \A w \in Webhook : received[e][w] = 0
    BY <1>4 DEF Deliver, Inv, AttemptInv
  <2>3. AttemptInv'
    BY <1>4, <2>2 DEF Deliver, Inv, TypeOK, AttemptInv, NoPost, Delivery
  <2>4. OutdatedInv'
    BY <1>4 DEF Deliver, Inv, TypeOK, OutdatedInv, NoPost, Matches
  <2>5. ClosedInv'
    BY <1>4 DEF Deliver, Inv, TypeOK, ClosedInv, NoPost
  <2> QED BY <2>1, <2>3, <2>4, <2>5 DEF Inv
<1>5. CASE GatherReturns(e)
  <2>1. TypeOK' /\ AttemptInv' /\ OutdatedInv'
    BY <1>5 DEF GatherReturns, Inv, TypeOK, AttemptInv, OutdatedInv
  <2>2. ClosedInv'
    BY <1>5 DEF GatherReturns, Inv, TypeOK, ClosedInv
  <2> QED BY <2>1, <2>2 DEF Inv
<1> QED BY <1>2, <1>3, <1>4, <1>5 DEF TaskStep

LEMMA DeliveryTyped ==
  ASSUME NEW p \in Delivery, NEW s \in {"delivered", "raised", "abandoned"}
  PROVE  [p EXCEPT !.phase = s] \in Delivery
  BY DEF Delivery

LEMMA AfterFailureTyped ==
  ASSUME NEW p \in Delivery
  PROVE  AfterFailure(p) \in Delivery
  BY DEF Delivery, AfterFailure

\* A step that changes one delivery keeps the type of all.
LEMMA PostTyped ==
  ASSUME post \in [Event -> [Webhook -> Delivery]], NEW e \in Event, NEW w \in Webhook,
         NEW p \in Delivery, post' = [post EXCEPT ![e][w] = p]
  PROVE  post' \in [Event -> [Webhook -> Delivery]]
<1>1. [post[e] EXCEPT ![w] = p] \in [Webhook -> Delivery]
  OBVIOUS
<1>2. post' = [post EXCEPT ![e] = [post[e] EXCEPT ![w] = p]]
  OBVIOUS
<1> QED BY <1>1, <1>2

LEMMA PostStepInv ==
  ASSUME Inv, NEW e \in Event, NEW w \in Webhook, PostStep(e, w)
  PROVE  Inv'
<1> USE WebhooksAssumption
<1>0. post[e][w] \in Delivery /\ post \in [Event -> [Webhook -> Delivery]]
  BY DEF Inv, TypeOK
<1>1. CASE Acknowledged(e, w)
  <2> DEFINE p == [post[e][w] EXCEPT !.phase = "delivered"]
  <2>a. p \in Delivery
    BY <1>0, DeliveryTyped
  <2>b. post' = [post EXCEPT ![e][w] = p]
    BY <1>1 DEF Acknowledged
  <2>c. post' \in [Event -> [Webhook -> Delivery]]
    BY <1>0, <2>a, <2>b, PostTyped
  <2>1. TypeOK'
    BY <1>1, <2>c DEF Acknowledged, Inv, TypeOK
  <2>2. AttemptInv'
    BY <1>1 DEF Acknowledged, Inv, TypeOK, AttemptInv, Delivery
  <2>3. OutdatedInv'
    BY <1>1 DEF Acknowledged, Inv, TypeOK, OutdatedInv, Delivery
  <2>4. ClosedInv'
    BY <1>1 DEF Acknowledged, Inv, TypeOK, ClosedInv, Delivery
  <2> QED BY <2>1, <2>2, <2>3, <2>4 DEF Inv
<1>2. CASE AttemptFails(e, w)
  <2> DEFINE p == AfterFailure(post[e][w])
  <2>a. p \in Delivery
    BY <1>0, AfterFailureTyped
  <2>b. post' = [post EXCEPT ![e][w] = p]
    BY <1>2 DEF AttemptFails
  <2>c. post' \in [Event -> [Webhook -> Delivery]]
    BY <1>0, <2>a, <2>b, PostTyped
  <2>d. received' \in [Event -> [Webhook -> Nat]]
    <3>1. CASE received' = received
      BY <3>1 DEF Inv, TypeOK
    <3>2. CASE received' = [received EXCEPT ![e][w] = @ + 1]
      BY <3>2 DEF Inv, TypeOK
    <3> QED BY <1>2, <3>1, <3>2 DEF AttemptFails
  <2>1. TypeOK'
    BY <1>2, <2>c, <2>d DEF AttemptFails, Inv, TypeOK
  <2>2. AttemptInv'
    BY <1>2 DEF AttemptFails, AfterFailure, Inv, TypeOK, AttemptInv, Delivery
  <2>3. OutdatedInv'
    BY <1>2 DEF AttemptFails, AfterFailure, Inv, TypeOK, OutdatedInv, Delivery
  <2>4. ClosedInv'
    <3>1. UNCHANGED task /\ post[e][w].phase = "posting"
      BY <1>2 DEF AttemptFails
    <3>2. p.phase \in {"backoff", "dropped"}
      BY <1>0 DEF AfterFailure, Delivery
    <3>3. \A d \in Event, q \in Webhook :
            post'[d][q] = IF d = e /\ q = w THEN p ELSE post[d][q]
      <4> HIDE DEF p
      <4> QED BY <1>0, <2>b
    <3> HIDE DEF p
    <3> QED BY <3>1, <3>2, <3>3 DEF Inv, ClosedInv
  <2> QED BY <2>1, <2>2, <2>3, <2>4 DEF Inv
<1>3. CASE AttemptRaises(e, w)
  <2> DEFINE p == [post[e][w] EXCEPT !.phase = "raised"]
  <2>a. p \in Delivery
    BY <1>0, DeliveryTyped
  <2>b. post' = [post EXCEPT ![e][w] = p]
    BY <1>3 DEF AttemptRaises
  <2>c. post' \in [Event -> [Webhook -> Delivery]]
    BY <1>0, <2>a, <2>b, PostTyped
  <2>1. TypeOK'
    BY <1>3, <2>c DEF AttemptRaises, Inv, TypeOK
  <2>2. AttemptInv'
    BY <1>3 DEF AttemptRaises, Inv, TypeOK, AttemptInv, Delivery
  <2>3. OutdatedInv'
    BY <1>3 DEF AttemptRaises, Inv, TypeOK, OutdatedInv, Delivery
  <2>4. ClosedInv'
    BY <1>3 DEF AttemptRaises, Inv, TypeOK, ClosedInv, Delivery
  <2> QED BY <2>1, <2>2, <2>3, <2>4 DEF Inv
<1>4. CASE Retry(e, w)
  <2>1. TypeOK'
    BY <1>4 DEF Retry, Inv, TypeOK, AttemptInv, Delivery
  <2>2. AttemptInv'
    BY <1>4 DEF Retry, Inv, TypeOK, AttemptInv, Delivery
  <2>3. OutdatedInv'
    BY <1>4 DEF Retry, Inv, TypeOK, OutdatedInv, Delivery
  <2>4. ClosedInv'
    BY <1>4 DEF Retry, Inv, TypeOK, ClosedInv, Delivery
  <2> QED BY <2>1, <2>2, <2>3, <2>4 DEF Inv
<1>5. CASE RetryFindsClientClosed(e, w)
  <2> DEFINE p == [post[e][w] EXCEPT !.phase = "abandoned"]
  <2>a. p \in Delivery
    BY <1>0, DeliveryTyped
  <2>b. post' = [post EXCEPT ![e][w] = p]
    BY <1>5 DEF RetryFindsClientClosed
  <2>c. post' \in [Event -> [Webhook -> Delivery]]
    BY <1>0, <2>a, <2>b, PostTyped
  <2>1. TypeOK'
    BY <1>5, <2>c DEF RetryFindsClientClosed, Inv, TypeOK
  <2>2. AttemptInv'
    BY <1>5 DEF RetryFindsClientClosed, Inv, TypeOK, AttemptInv, Delivery
  <2>3. OutdatedInv'
    BY <1>5 DEF RetryFindsClientClosed, Inv, TypeOK, OutdatedInv, Delivery
  <2>4. ClosedInv'
    BY <1>5 DEF RetryFindsClientClosed, Inv, TypeOK, ClosedInv, Delivery
  <2> QED BY <2>1, <2>2, <2>3, <2>4 DEF Inv
<1> QED BY <1>1, <1>2, <1>3, <1>4, <1>5 DEF PostStep

LEMMA RestartInv ==
  ASSUME Inv, Restart
  PROVE  Inv'
<1>1. TypeOK'
  BY WebhooksAssumption DEF Restart, Inv, TypeOK, NoPost, Delivery
<1>2. AttemptInv'
  BY WebhooksAssumption DEF Restart, Inv, TypeOK, AttemptInv, NoPost
<1>3. OutdatedInv' /\ ClosedInv'
  BY DEF Restart, Inv, TypeOK, OutdatedInv, ClosedInv, NoPost
<1> QED BY <1>1, <1>2, <1>3 DEF Inv

LEMMA NextInv ==
  ASSUME Inv, [Next]_vars
  PROVE  Inv'
<1>1. CASE Next
  BY <1>1, StoreStepInv, TaskStepInv, PostStepInv, RestartInv DEF Next
<1>2. CASE UNCHANGED vars
  BY <1>2 DEF vars, Inv, TypeOK, AttemptInv, OutdatedInv, ClosedInv
<1> QED BY <1>1, <1>2

LEMMA Invariance == Spec => []Inv
  BY InitInv, NextInv, PTL DEF Spec

(* The state of registrations and deliveries is always well typed; no      *)
(* delivery is beyond its last attempt.                                    *)
THEOREM TypeCorrect == Spec => []TypeOK
<1>1. Inv => TypeOK
  BY DEF Inv
<1> QED BY <1>1, Invariance, PTL

(* A receiver is posted an event at most as often as there are attempts.   *)
(* (_deliver_one)                                                          *)
THEOREM AttemptsCorrect == Spec => []AttemptsBounded
<1>1. Inv => AttemptsBounded
  BY DEF Inv, AttemptInv, AttemptsBounded
<1> QED BY <1>1, Invariance, PTL

(* A webhook deleted before an event was stored is never posted it.        *)
(* (WebhookStore.delete, deliver_event)                                    *)
THEOREM DeletedCorrect == Spec => []DeletedGetsNothingNew
<1>1. Inv => DeletedGetsNothingNew
  BY DEF Inv, OutdatedInv, DeletedGetsNothingNew
<1> QED BY <1>1, Invariance, PTL

(* A delivery is abandoned only beside one of the same event that raised.  *)
(* (deliver_event, its finally clause)                                     *)
THEOREM FailureLocal == Spec => []FailureStaysInEvent
<1>1. Inv => FailureStaysInEvent
  BY DEF Inv, ClosedInv, FailureStaysInEvent
<1> QED BY <1>1, Invariance, PTL
=============================================================================
