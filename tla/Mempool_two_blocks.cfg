SPECIFICATION Spec
CONSTANTS
  t1 = t1  t2 = t2
  c1 = c1  c2 = c2
  Tx = {t1, t2}
  Handler = {p1}
  Subscriber = {s1}
  Check = {c1, c2}
  block <- MCblock
  MaxMessages = 2
INVARIANTS TypeOK MinedLeaves SubscribersTold
PROPERTY AddTxReturns
CHECK_DEADLOCK FALSE
