SPECIFICATION Spec
CONSTANTS
  Addresses = {"a", "b"}
  Own = {"t1", "t2"}
  Signed = {"s1"}
  Sender <- TwoSenders
  Amount <- Fours
  BalanceIn <- Six
  Outcomes <- PaysFee
  Callers = {"c1", "c2"}
  MaxMain = 2
INVARIANTS
  TypeOK
  PendingFollows
  MapExists
  CountedSomewhere
  NoCircularWait
