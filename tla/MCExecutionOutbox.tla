------------------------- MODULE MCExecutionOutbox -------------------------
(* Instances of ExecutionOutbox for TLC. *)
EXTENDS ExecutionOutbox, TLC

CONSTANTS p1, p2, w1, w2, a1

\* An on-chain transfer of an agent and an escrow release without one, both
\* spending under the one session key.
OnchainAndEscrow == (p1 :> "onchain_transfer") @@ (p2 :> "escrow_release")
OneByAgent == (p1 :> a1) @@ (p2 :> NoAgent)

\* One payment of an agent.
OnchainOne == p1 :> "onchain_transfer"
ByAgent == p1 :> a1

\* One payment no agent created, and one x402 payment.
ByMember == p1 :> NoAgent
X402One == p1 :> "x402_settle"

WorkerSymmetry == Permutations({w1, w2})
=============================================================================
