CONSTANTS
  r1 = r1
  r2 = r2
  w1 = w1
  w2 = w2
  k1 = k1
  payment = payment
  topup = topup
  Workers = {w1, w2}
  Requests = {r1, r2}
  WorkerOf <- MCWorkerOf
  Keys = {k1}
  Intents = {payment, topup}
  KeyOf <- MCKeyOf
  UniqueIntents = {payment, topup}
  CommitFirst = {TRUE, FALSE}
  MaxRuns = 2
  NoResponse = NoResponse
SPECIFICATION FairSpec
INVARIANTS EffectOnce SuccessMeansEffect
PROPERTIES RetryAnswered RetryMade
