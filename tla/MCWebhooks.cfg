CONSTANTS
  Webhook = {w1, w2}
  Event = {e1, e2}
  Kind = {"*", "messages"}
  MaxAttempts = 2
SPECIFICATION FairSpec
INVARIANTS
  TypeOK
  AttemptsBounded
  DeletedGetsNothingNew
  FailureStaysInEvent
PROPERTY DeliveriesEnd
