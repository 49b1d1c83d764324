------------------------------ MODULE TurnFeed ------------------------------
(***************************************************************************)
(* What a streamed turn promises its client, whatever carries it: each     *)
(* channel's items arrive in the order the turn made them, without gap or  *)
(* repetition; a control event comes only when every channel has ended and *)
(* everything it made has arrived; "complete" comes once and last.  The    *)
(* client may hang up at any moment.                                       *)
(***************************************************************************)
EXTENDS Naturals, Sequences

CONSTANT Channel

VARIABLES
  made,    \* made[ch]: number of items the turn has made for channel ch
  ended,   \* the channels that will make no more
  got,     \* got[ch]: number of items of ch the client has been sent
  control, \* the control events the client has been sent
  open     \* the client is still there

vars == <<made, ended, got, control, open>>

Init ==
  /\ made = [ch \in Channel |-> 0]
  /\ ended = {}
  /\ got = [ch \in Channel |-> 0]
  /\ control = <<>>
  /\ open = TRUE

Make(ch) ==
  /\ ch \notin ended
  /\ made' = [made EXCEPT ![ch] = @ + 1]
  /\ UNCHANGED <<ended, got, control, open>>

End(ch) ==
  /\ ended' = ended \cup {ch}
  /\ UNCHANGED <<made, got, control, open>>

Deliver(ch) ==
  /\ open
  /\ got[ch] < made[ch]
  /\ got' = [got EXCEPT ![ch] = @ + 1]
  /\ UNCHANGED <<made, ended, control, open>>

Announce(event) ==
  /\ open
  /\ ended = Channel
  /\ got = made
  /\ "complete" \notin {control[i] : i \in DOMAIN control}
  /\ control' = Append(control, event)
  /\ UNCHANGED <<made, ended, got, open>>

HangUp ==
  /\ open
  /\ open' = FALSE
  /\ UNCHANGED <<made, ended, got, control>>

Next ==
  \/ \E ch \in Channel : Make(ch) \/ End(ch) \/ Deliver(ch)
  \/ Announce("interrupt") \/ Announce("complete")
  \/ HangUp

Spec == Init /\ [][Next]_vars
=============================================================================
