\* One task, two groups on one topic with different err_retry_max, the second without a
\* retry producer; crash, stop, raising sends, late callbacks, full pool.
SPECIFICATION FairSpec
CONSTANTS
  g1 = g1
  g2 = g2
  t1 = t1
  Tasks = {t1}
  Groups = {g1, g2}
  ErrRetryMax <- TwoGroups
  HasProducer = {g1}
  SendOutcomes = {"delivered", "raised"}
  PoolSize = 2
  MaxFaults = 1
INVARIANTS
  NothingLost
  RetryChain
  GivenUpAfterMax
  CommitBehindLoop
PROPERTIES
  CommitMonotone
  ImplementsDelivery
CHECK_DEADLOCK FALSE
