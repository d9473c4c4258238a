SPECIFICATION Spec
CONSTANTS
  p1 = p1
  p2 = p2
  w1 = w1
  w2 = w2
  a1 = a1
  Intents = {p1, p2}
  Workers = {w1, w2}
  Agents = {a1}
  NoAgent = NoAgent
  NoIntent = NoIntent
  NoWorker = NoWorker
  ActionOf <- OnchainAndEscrow
  CreatorOf <- OneByAgent
  LiveRails = {"bank_ach", "onchain_base", "x402_base", "escrow_base"}
  MaxDispatchAttempts = 2
  MaxTotalAttempts = 3
  ClaimLimit = 2
  SlowWorkers = {}
  Faults = {"decline", "timeout", "revert", "settle", "audit"}
  MaxRequests = 1
  MaxAborts = 1
SYMMETRY WorkerSymmetry
INVARIANTS TypeOK LedgerConsistent NoPaymentWithoutMoney
           ExclusiveClaim RowRecoverable ReceiptStopsRail MovesPaidFor ExhaustedOnce
PROPERTIES HaltIsEffective ImplementsSettlement
