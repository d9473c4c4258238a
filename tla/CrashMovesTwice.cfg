SPECIFICATION Spec
CONSTANTS
  p1 = p1
  p2 = p2
  w1 = w1
  w2 = w2
  a1 = a1
  Intents = {p1}
  Workers = {w1}
  Agents = {a1}
  NoAgent = NoAgent
  NoIntent = NoIntent
  NoWorker = NoWorker
  ActionOf <- OnchainOne
  CreatorOf <- ByMember
  LiveRails = {"bank_ach", "onchain_base", "x402_base", "escrow_base"}
  MaxDispatchAttempts = 2
  MaxTotalAttempts = 3
  ClaimLimit = 2
  SlowWorkers = {}
  Faults = {}
  MaxRequests = 2
  MaxAborts = 1
INVARIANTS MovesAtMostOnce
