SPECIFICATION Spec
CONSTANTS
  p1 = p1
  p2 = p2
  w1 = w1
  w2 = w2
  a1 = a1
  Intents = {p1}
  Workers = {w1, w2}
  Agents = {a1}
  NoAgent = NoAgent
  NoIntent = NoIntent
  NoWorker = NoWorker
  ActionOf <- OnchainOne
  CreatorOf <- ByAgent
  LiveRails = {"bank_ach", "onchain_base", "x402_base", "escrow_base"}
  MaxDispatchAttempts = 2
  MaxTotalAttempts = 3
  ClaimLimit = 2
  SlowWorkers = {w1, w2}
  Faults = {"decline", "timeout", "revert", "settle", "audit"}
  MaxRequests = 2
  MaxAborts = 2
SYMMETRY WorkerSymmetry
INVARIANTS SpendingBounded NoPaymentWithoutMoney
PROPERTIES ImplementsSettlement
