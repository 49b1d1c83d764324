----------------------------- MODULE MCWebhooks -----------------------------
(* Small instances of Webhooks for TLC.                                    *)
EXTENDS Webhooks, TLC

\* Webhooks and events are interchangeable (used where no liveness property is checked).
Swaps == Permutations(Webhook) \cup Permutations(Event)
=============================================================================
