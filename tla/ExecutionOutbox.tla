-------------------------- MODULE ExecutionOutbox --------------------------
(***************************************************************************)
(* The execution outbox of brain-core: the durable hand-off of an approved *)
(* PaymentIntent to a background worker, and the worker's drive of the     *)
(* payment rail.                                                           *)
(*                                                                         *)
(* Three parties share the state.  API requests move an intent before the  *)
(* hand-off (execute, pause, resume, reject, halt and restore an agent).   *)
(* Outbox workers, one per process, claim rows, call the rail and settle   *)
(* the intent.  The chain (or the bank) applies the transfers it is sent,  *)
(* possibly after the caller has stopped waiting.  A worker may die, or    *)
(* abandon its cycle because an audit write threw, between any two steps.  *)
(*                                                                         *)
(* Time is abstracted: a backoff window may or may not have elapsed, and   *)
(* the lock of a row is stale once its worker no longer processes the row, *)
(* or at any time when that worker is one of SlowWorkers.                  *)
(***************************************************************************)
EXTENDS Naturals, FiniteSets

CONSTANTS
    Intents,             \* the PaymentIntents; each has at most one outbox row
    Workers,             \* the outbox worker processes
    Agents,              \* the agents that create intents
    ActionOf,            \* the action_type of each intent
    CreatorOf,           \* created_by_agent_id of each intent, or NoAgent
    NoAgent,
    NoIntent,
    NoWorker,
    LiveRails,           \* the rails registered at boot
    MaxDispatchAttempts, \* MAX_DISPATCH_ATTEMPTS, 3 in the code
    MaxTotalAttempts,    \* MAX_TOTAL_DISPATCH_ATTEMPTS, 12 in the code
    ClaimLimit,          \* rows one cycle claims, 10 in the code
    SlowWorkers,         \* workers that may hold a row past staleSeconds
    Faults,              \* the kinds of failure the run allows
    MaxRequests,         \* bound: execute calls past the gate, per intent
    MaxAborts            \* bound: abandoned cycles in a behaviour

Rails == {"bank_ach", "onchain_base", "x402_base", "escrow_base", "erp_writeback"}

ActionTypes == {"ach_outbound", "ach_inbound", "wire", "card_payment",
                "onchain_transfer", "x402_settle", "escrow_release",
                "erp_writeback"}

FaultKinds == {"decline", "timeout", "revert", "settle", "audit"}

ASSUME ActorsAssumption ==
    /\ ActionOf \in [Intents -> ActionTypes]
    /\ CreatorOf \in [Intents -> Agents \cup {NoAgent}]
    /\ NoAgent \notin Agents
    /\ NoIntent \notin Intents
    /\ NoWorker \notin Workers
    /\ SlowWorkers \subseteq Workers
    /\ LiveRails \subseteq Rails
    /\ Faults \subseteq FaultKinds

ASSUME BoundsAssumption ==
    /\ MaxDispatchAttempts \in Nat \ {0}
    /\ MaxTotalAttempts \in Nat \ {0}
    /\ MaxDispatchAttempts <= MaxTotalAttempts
    /\ ClaimLimit \in Nat \ {0}
    /\ MaxRequests \in Nat \ {0}
    /\ MaxAborts \in Nat

VARIABLES
    status,      \* ledger_payment_intents.status
    reservation, \* ledger_reservations.status of the intent's hold
    posted,      \* execution records (and agent spend) written for the intent
    agentState,  \* agents.state
    gated,       \* execute calls that passed the gate and not yet handed off
    resuming,    \* intents with a resume call past its gate
    rowStatus,   \* execution_outbox.status, "absent" before the hand-off
    attempts,    \* execution_outbox.attempt_count
    receipt,     \* execution_outbox.rail_receipt is set
    lockedBy,    \* execution_outbox.locked_by (locked_at is set with it)
    nonce,       \* the session key's replay nonce in BrainSmartAccount
    moved,       \* how often the money of the intent has moved
    stray,       \* intents with a broadcast transaction nobody waits for
    pc,          \* the step a worker is at
    current,     \* the row it is processing
    batch,       \* the claimed rows it has yet to process
    resumed,     \* claimed rows whose snapshot carried a receipt
    seenNonce,   \* the nonce its rail call read
    exhausted,   \* execution.outbox.exhausted events emitted
    aborts       \* cycles abandoned so far

ledgerVars  == <<status, reservation, posted>>
requestVars == <<agentState, gated, resuming>>
rowVars     == <<rowStatus, attempts, receipt, lockedBy>>
chainVars   == <<nonce, moved, stray>>
workerVars  == <<pc, current, batch, resumed, seenNonce>>
opsVars     == <<exhausted, aborts>>
vars == <<ledgerVars, requestVars, rowVars, chainVars, workerVars, opsVars>>

----------------------------------------------------------------------------
(* What an action type means to the rails. *)

railFor == [a \in ActionTypes |->
    CASE a = "onchain_transfer" -> "onchain_base"
      [] a = "x402_settle"      -> "x402_base"
      [] a = "escrow_release"   -> "escrow_base"
      [] a = "erp_writeback"    -> "erp_writeback"
      [] OTHER                  -> "bank_ach"]

RailOf(i) == railFor[ActionOf[i]]

\* These rails spend from the smart account under the replay nonce of the one
\* session key; none of them is keyed by the idempotency key.
SessionKeyRails == {"onchain_base", "x402_base", "escrow_base"}

NeedsReservation(i) == ActionOf[i] \notin {"x402_settle", "escrow_release"}

\* The fields execute puts into the row's payload, and the credentials the
\* worker merges at dispatch time.
PayloadFields(i) ==
    {"kind", "source_account_id", "destination_counterparty_id", "amount", "currency"}
    \cup (CASE ActionOf[i] = "ach_outbound" -> {"access_token", "account_id"}
            [] ActionOf[i] = "onchain_transfer" ->
                 {"smart_account", "holder", "target", "data", "value", "policy_version"}
            [] ActionOf[i] = "x402_settle" -> {"asset", "network", "pay_to"}
            [] ActionOf[i] = "escrow_release" -> {"escrow_id", "job_terms_hash", "amount_units"}
            [] OTHER -> {})

\* What each rail's parser insists on before it calls out.
RequiredFields(r) ==
    CASE r = "bank_ach" -> {"access_token", "account_id", "amount", "legal_name",
                            "destination_counterparty_id"}
      [] r = "onchain_base" -> {"smart_account", "holder", "target", "data", "policy_version"}
      [] r = "x402_base" -> {"asset", "network", "amount", "pay_to"}
      [] r = "escrow_base" -> {"escrow_id", "amount_units"}
      [] OTHER -> {}

\* The rail is registered and its parser accepts the payload.
CanSend(i) == RailOf(i) \in LiveRails /\ RequiredFields(RailOf(i)) \subseteq PayloadFields(i)

\* The receipt fields a rail returns, and those validateRailReceipt demands.
ReceiptFields(r) ==
    CASE r = "bank_ach" -> {"authorization_id", "transfer_id", "status",
                            "destination_counterparty_id"}
      [] r = "onchain_base" -> {"tx_hash", "block_number", "gas_used", "nonce", "policy_version"}
      [] r = "x402_base" -> {"asset", "network", "tx_hash", "settled_amount", "pay_to"}
      [] r = "escrow_base" -> {"tx_hash", "escrow_id", "released_units"}
      [] OTHER -> {}

DemandedFields(a) ==
    CASE a \in {"ach_outbound", "ach_inbound"} -> {"ach_trace"}
      [] a = "wire" -> {"omad", "imad"}
      [] a = "erp_writeback" -> {"erp_record_id"}
      [] a = "onchain_transfer" -> {"tx_hash", "block_number"}
      [] OTHER -> {}

ReceiptOk(i) == DemandedFields(ActionOf[i]) \subseteq ReceiptFields(RailOf(i))

\* The CHECK constraint on executions.rail.
Storable(i) == RailOf(i) \in {"bank_ach", "erp_writeback", "onchain_base"}

----------------------------------------------------------------------------
(* State predicates the handlers read. *)

AgentActive(i) == CreatorOf[i] # NoAgent => agentState[CreatorOf[i]] = "active"

\* Mutant: reclaimStale recovers only rows that reached their receipt.
InFlight_DispatchedOnly(i) == rowStatus[i] = "dispatched"

InFlight(i) == rowStatus[i] \in {"dispatching", "dispatched"}

\* Mutant: the attempt ceiling is off by one.
Claimable_PastCeiling(i) ==
    /\ rowStatus[i] \in {"pending", "reconciling"}
    /\ attempts[i] <= MaxTotalAttempts

Claimable(i) ==
    /\ rowStatus[i] \in {"pending", "reconciling"}
    /\ attempts[i] < MaxTotalAttempts

Holds(w, i) == current[w] = i \/ i \in batch[w]

\* Mutant: the age of a lock is not looked at.
LockStale_AnyLock(i) == \E w \in Workers : lockedBy[i] = w

\* The lock is older than staleSeconds.
LockStale(i) ==
    \E w \in Workers : lockedBy[i] = w /\ (w \in SlowWorkers \/ ~Holds(w, i))

Init ==
    /\ status = [i \in Intents |-> "approved"]
    /\ reservation = [i \in Intents |-> "none"]
    /\ posted = [i \in Intents |-> 0]
    /\ agentState = [a \in Agents |-> "active"]
    /\ gated = [i \in Intents |-> 0]
    /\ resuming = {}
    /\ rowStatus = [i \in Intents |-> "absent"]
    /\ attempts = [i \in Intents |-> 0]
    /\ receipt = [i \in Intents |-> FALSE]
    /\ lockedBy = [i \in Intents |-> NoWorker]
    /\ nonce = 0
    /\ moved = [i \in Intents |-> 0]
    /\ stray = {}
    /\ pc = [w \in Workers |-> "idle"]
    /\ current = [w \in Workers |-> NoIntent]
    /\ batch = [w \in Workers |-> {}]
    /\ resumed = [w \in Workers |-> {}]
    /\ seenNonce = [w \in Workers |-> 0]
    /\ exhausted = [i \in Intents |-> 0]
    /\ aborts = 0

----------------------------------------------------------------------------
(* API requests.  Each is a check followed, after awaits, by a conditional *)
(* transition in one transaction.                                          *)

\* execute, first half: the intent is read as approved and the gate passes,
\* which needs the creating agent active.
Gate(i) ==
    /\ status[i] = "approved"
    /\ AgentActive(i)
    /\ gated[i] < MaxRequests
    /\ gated' = [gated EXCEPT ![i] = @ + 1]
    /\ UNCHANGED <<ledgerVars, agentState, resuming, rowVars, chainVars, workerVars, opsVars>>

\* execute, second half: approved -> dispatching, the reservation and the
\* outbox row, all in one transaction.
Handoff(i) ==
    /\ gated[i] > 0
    /\ status[i] = "approved"
    /\ gated' = [gated EXCEPT ![i] = @ - 1]
    /\ status' = [status EXCEPT ![i] = "dispatching"]
    /\ reservation' = [reservation EXCEPT ![i] =
                          IF NeedsReservation(i) THEN "active" ELSE "none"]
    /\ rowStatus' = [rowStatus EXCEPT ![i] = "pending"]
    /\ UNCHANGED <<posted, agentState, resuming, attempts, receipt, lockedBy,
                   chainVars, workerVars, opsVars>>

\* The conditional transition matches no row, or the funds cannot be reserved:
\* the transaction rolls back.
HandoffAborts(i) ==
    /\ gated[i] > 0
    /\ status[i] # "approved" \/ NeedsReservation(i)
    /\ gated' = [gated EXCEPT ![i] = @ - 1]
    /\ UNCHANGED <<ledgerVars, agentState, resuming, rowVars, chainVars, workerVars, opsVars>>

Move(i, from, to) ==
    /\ status[i] = from
    /\ status' = [status EXCEPT ![i] = to]

Pause(i) ==
    /\ Move(i, "approved", "paused")
    /\ UNCHANGED <<reservation, posted, requestVars, rowVars, chainVars, workerVars, opsVars>>

Reject(i) ==
    /\ Move(i, "approved", "rejected")
    /\ UNCHANGED <<reservation, posted, requestVars, rowVars, chainVars, workerVars, opsVars>>

\* resume re-runs the gate, then moves paused -> approved.
ResumeGate(i) ==
    /\ status[i] = "paused"
    /\ AgentActive(i)
    /\ i \notin resuming
    /\ resuming' = resuming \cup {i}
    /\ UNCHANGED <<ledgerVars, agentState, gated, rowVars, chainVars, workerVars, opsVars>>

Resume(i) ==
    /\ i \in resuming
    /\ resuming' = resuming \ {i}
    /\ IF status[i] = "paused"
         THEN status' = [status EXCEPT ![i] = "approved"]
         ELSE UNCHANGED status
    /\ UNCHANGED <<reservation, posted, agentState, gated, rowVars, chainVars, workerVars, opsVars>>

\* The kill-switch: quarantine the agent, then pause its approved intents, in
\* one transaction.
HaltAgent(a) ==
    /\ agentState' = [agentState EXCEPT ![a] = "quarantined"]
    /\ status' = [i \in Intents |->
                     IF CreatorOf[i] = a /\ status[i] = "approved" THEN "paused" ELSE status[i]]
    /\ UNCHANGED <<reservation, posted, gated, resuming, rowVars, chainVars, workerVars, opsVars>>

RestoreAgent(a) ==
    /\ agentState[a] = "quarantined"
    /\ agentState' = [agentState EXCEPT ![a] = "active"]
    /\ UNCHANGED <<ledgerVars, gated, resuming, rowVars, chainVars, workerVars, opsVars>>

----------------------------------------------------------------------------
(* One cycle of a worker: reclaim stale rows, claim a batch, process the    *)
(* rows of the batch one after the other.                                   *)

Goto(w, l) == pc' = [pc EXCEPT ![w] = l]

\* The worker is done with its row and turns to the rest of its batch.
Finish(w) ==
    /\ Goto(w, "idle")
    /\ current' = [current EXCEPT ![w] = NoIntent]
    /\ resumed' = [resumed EXCEPT ![w] = @ \ {current[w]}]

\* reclaimStale: an in-flight row with a stale lock goes back to pending.
\* The statement takes all stale rows at once; which they are is a matter of
\* time, so they are taken one by one.
Reclaim(w, i) ==
    /\ pc[w] = "idle" /\ batch[w] = {}
    /\ InFlight(i)
    /\ LockStale(i)
    /\ rowStatus' = [rowStatus EXCEPT ![i] = "pending"]
    /\ lockedBy' = [lockedBy EXCEPT ![i] = NoWorker]
    /\ UNCHANGED <<ledgerVars, requestVars, attempts, receipt, chainVars, workerVars, opsVars>>

\* claimNext: lock rows under the attempt ceiling whose backoff window has
\* elapsed.  The worker goes on with the rows as they read at this moment.
Claim(w) ==
    /\ pc[w] = "idle" /\ batch[w] = {}
    /\ \E S \in SUBSET {i \in Intents : Claimable(i)} :
         /\ S # {}
         /\ Cardinality(S) <= ClaimLimit
         /\ rowStatus' = [i \in Intents |-> IF i \in S THEN "dispatching" ELSE rowStatus[i]]
         /\ lockedBy' = [i \in Intents |-> IF i \in S THEN w ELSE lockedBy[i]]
         /\ batch' = [batch EXCEPT ![w] = S]
         /\ resumed' = [resumed EXCEPT ![w] = {i \in S : receipt[i]}]
    /\ UNCHANGED <<ledgerVars, requestVars, attempts, receipt, chainVars,
                   pc, current, seenNonce, opsVars>>

\* Mutant: the worker does not look for a stored receipt (F4 undone).
Start_NoReceiptCheck(w, i) ==
    /\ pc[w] = "idle"
    /\ i \in batch[w]
    /\ batch' = [batch EXCEPT ![w] = @ \ {i}]
    /\ current' = [current EXCEPT ![w] = i]
    /\ Goto(w, IF AgentActive(i) THEN "guarded" ELSE "park")
    /\ UNCHANGED <<ledgerVars, requestVars, rowVars, chainVars, resumed, seenNonce, opsVars>>

\* Mutant: no pre-dispatch guard.
Start_NoGuard(w, i) ==
    /\ pc[w] = "idle"
    /\ i \in batch[w]
    /\ batch' = [batch EXCEPT ![w] = @ \ {i}]
    /\ current' = [current EXCEPT ![w] = i]
    /\ Goto(w, IF i \in resumed[w] THEN "settle" ELSE "guarded")
    /\ UNCHANGED <<ledgerVars, requestVars, rowVars, chainVars, resumed, seenNonce, opsVars>>

\* processClaimedRow up to the rail: a row whose snapshot carries a receipt is
\* settled from it (F4); otherwise the pre-dispatch guard must pass.
Start(w, i) ==
    /\ pc[w] = "idle"
    /\ i \in batch[w]
    /\ batch' = [batch EXCEPT ![w] = @ \ {i}]
    /\ current' = [current EXCEPT ![w] = i]
    /\ Goto(w, IF i \in resumed[w] THEN "settle"
               ELSE IF AgentActive(i) THEN "guarded" ELSE "park")
    /\ UNCHANGED <<ledgerVars, requestVars, rowVars, chainVars, resumed, seenNonce, opsVars>>

\* The rail call begins: a session-key rail reads the live nonce.
Dispatch(w) ==
    /\ pc[w] = "guarded"
    /\ seenNonce' = [seenNonce EXCEPT ![w] = nonce]
    /\ Goto(w, "calling")
    /\ UNCHANGED <<ledgerVars, requestVars, rowVars, chainVars, current, batch, resumed, opsVars>>

\* A transfer of intent i takes effect.  On a session-key rail it uses up the
\* nonce, so every other transaction broadcast under that nonce will revert.
\* The bank is keyed by the idempotency key: a second create is the first.
Transfer(i) ==
    IF RailOf(i) \in SessionKeyRails
      THEN /\ nonce' = nonce + 1
           /\ moved' = [moved EXCEPT ![i] = @ + 1]
           /\ stray' = {}
      ELSE /\ moved' = [moved EXCEPT ![i] = 1]
           /\ stray' = stray \ {i}
           /\ UNCHANGED nonce

\* The call can still take effect: the rail can send it, and under the nonce
\* it was signed with.
CanLand(w) ==
    /\ CanSend(current[w])
    /\ RailOf(current[w]) \in SessionKeyRails => seenNonce[w] = nonce

LeaveCall(w, l) ==
    /\ seenNonce' = [seenNonce EXCEPT ![w] = 0]
    /\ Goto(w, l)

\* The rail answers with a receipt; a receipt that misses a demanded field
\* sends the row to reconciling.
RailAccepts(w) ==
    /\ pc[w] = "calling"
    /\ CanLand(w)
    /\ Transfer(current[w])
    /\ LeaveCall(w, IF ReceiptOk(current[w]) THEN "received" ELSE "park")
    /\ UNCHANGED <<ledgerVars, requestVars, rowVars, current, batch, resumed, opsVars>>

\* The rail throws before anything is sent: unknown rail, payload refused,
\* declined, RPC down, or the nonce was used up (BadNonce).
RailDeclines(w) ==
    /\ pc[w] = "calling"
    /\ "decline" \in Faults \/ ~CanLand(w)
    /\ LeaveCall(w, "retry")
    /\ UNCHANGED <<ledgerVars, requestVars, rowVars, chainVars, current, batch, resumed, opsVars>>

\* The transfer is on its way but the caller stops waiting for it.
LeaveStray(w) ==
    /\ CanLand(w)
    /\ stray' = stray \cup {current[w]}
    /\ UNCHANGED <<nonce, moved>>

\* The wait for the answer times out: the call throws, the transfer may land.
RailTimesOut(w) ==
    /\ pc[w] = "calling"
    /\ "timeout" \in Faults
    /\ LeaveStray(w)
    /\ LeaveCall(w, "retry")
    /\ UNCHANGED <<ledgerVars, requestVars, rowVars, current, batch, resumed, opsVars>>

\* Mutant: a mined but reverted transaction is taken for a receipt.
RailReverts_AsReceipt(w) ==
    /\ pc[w] = "calling"
    /\ "revert" \in Faults
    /\ RailOf(current[w]) = "onchain_base"
    /\ CanLand(w)
    /\ LeaveCall(w, "received")
    /\ UNCHANGED <<ledgerVars, requestVars, rowVars, chainVars, current, batch, resumed, opsVars>>

\* The on-chain rail decodes a revert that is deterministic under the present
\* session-key grant and tags it permanent.  The contract checks the nonce
\* before it checks the grant, which its owner may change between attempts.
RailReverts(w) ==
    /\ pc[w] = "calling"
    /\ "revert" \in Faults
    /\ RailOf(current[w]) = "onchain_base"
    /\ CanLand(w)
    /\ LeaveCall(w, "fail_intent")
    /\ UNCHANGED <<ledgerVars, requestVars, rowVars, chainVars, current, batch, resumed, opsVars>>

\* A transfer nobody waits for lands, or never does.
StrayLands(i) ==
    /\ i \in stray
    /\ Transfer(i)
    /\ UNCHANGED <<ledgerVars, requestVars, rowVars, workerVars, opsVars>>

StrayIsDropped(i) ==
    /\ i \in stray
    /\ stray' = stray \ {i}
    /\ UNCHANGED <<ledgerVars, requestVars, rowVars, nonce, moved, workerVars, opsVars>>

\* Mutant: markDispatched releases the lock.
Record_Unlocks(w) ==
    /\ pc[w] = "received"
    /\ rowStatus' = [rowStatus EXCEPT ![current[w]] = "dispatched"]
    /\ receipt' = [receipt EXCEPT ![current[w]] = TRUE]
    /\ lockedBy' = [lockedBy EXCEPT ![current[w]] = NoWorker]
    /\ Goto(w, "settle")
    /\ UNCHANGED <<ledgerVars, requestVars, attempts, chainVars,
                   current, batch, resumed, seenNonce, opsVars>>

\* The audit-after event, then markDispatched.
Record(w) ==
    /\ pc[w] = "received"
    /\ rowStatus' = [rowStatus EXCEPT ![current[w]] = "dispatched"]
    /\ receipt' = [receipt EXCEPT ![current[w]] = TRUE]
    /\ Goto(w, "settle")
    /\ UNCHANGED <<ledgerVars, requestVars, attempts, lockedBy, chainVars,
                   current, batch, resumed, seenNonce, opsVars>>

\* Mutant: the transition to executed does not look at the status it leaves.
Settle_Unconditional(w) ==
    /\ pc[w] = "settle"
    /\ status' = [status EXCEPT ![current[w]] = "executed"]
    /\ Storable(current[w])
    /\ posted' = [posted EXCEPT ![current[w]] = 1]
    /\ reservation' = [reservation EXCEPT ![current[w]] = IF @ = "active" THEN "consumed" ELSE @]
    /\ Goto(w, "mark_settled")
    /\ UNCHANGED <<requestVars, rowVars, chainVars, current, batch, resumed, seenNonce, opsVars>>

\* completeExecution, in one transaction: nothing if the intent is already
\* executed, else dispatching -> executed with the execution record, the
\* agent's spend and the consumed reservation.
\* Its audit write comes after the commit; if it throws, the settled payment
\* is counted as a failed attempt.
Settle(w) ==
    /\ pc[w] = "settle"
    /\ Move(current[w], "dispatching", "executed")
    /\ Storable(current[w])
    /\ posted' = [posted EXCEPT ![current[w]] = @ + 1]
    /\ reservation' = [reservation EXCEPT ![current[w]] = IF @ = "active" THEN "consumed" ELSE @]
    /\ \/ Goto(w, "mark_settled")
       \/ "audit" \in Faults /\ Goto(w, "retry")
    /\ UNCHANGED <<requestVars, rowVars, chainVars, current, batch, resumed, seenNonce, opsVars>>

\* The intent was executed by an earlier, crashed run: nothing to do.
SettleAgain(w) ==
    /\ pc[w] = "settle"
    /\ status[current[w]] = "executed"
    /\ Goto(w, "mark_settled")
    /\ UNCHANGED <<ledgerVars, requestVars, rowVars, chainVars,
                   current, batch, resumed, seenNonce, opsVars>>

\* completeExecution throws and rolls back: the intent is in another state, the
\* execution record violates its CHECK, or the database fails.
SettleThrows(w) ==
    /\ pc[w] = "settle"
    /\ \/ status[current[w]] \notin {"executed", "dispatching"}
       \/ status[current[w]] = "dispatching" /\ ~Storable(current[w])
       \/ "settle" \in Faults
    /\ Goto(w, "retry")
    /\ UNCHANGED <<ledgerVars, requestVars, rowVars, chainVars,
                   current, batch, resumed, seenNonce, opsVars>>

MarkSettled(w) ==
    /\ pc[w] = "mark_settled"
    /\ rowStatus' = [rowStatus EXCEPT ![current[w]] = "settled"]
    /\ Finish(w)
    /\ UNCHANGED <<ledgerVars, requestVars, attempts, receipt, lockedBy, chainVars,
                   batch, seenNonce, opsVars>>

\* Mutant: the attempt is not counted.
CountAttempt_NotCounted(w) ==
    /\ lockedBy' = [lockedBy EXCEPT ![current[w]] = NoWorker]
    /\ UNCHANGED attempts

\* One more attempt is counted and the row unlocked; at the ceiling the worker
\* goes on to announce that the row is exhausted.
CountAttempt(w) ==
    /\ attempts' = [attempts EXCEPT ![current[w]] = @ + 1]
    /\ lockedBy' = [lockedBy EXCEPT ![current[w]] = NoWorker]

GiveUpOrFinish(w) ==
    IF attempts[current[w]] + 1 >= MaxTotalAttempts
      THEN Goto(w, "announce") /\ UNCHANGED <<current, resumed>>
      ELSE Finish(w)

\* markFailed.
Retry(w) ==
    /\ pc[w] = "retry"
    /\ rowStatus' = [rowStatus EXCEPT ![current[w]] =
                        IF attempts[current[w]] + 1 >= MaxDispatchAttempts
                          THEN "reconciling" ELSE "pending"]
    /\ CountAttempt(w)
    /\ GiveUpOrFinish(w)
    /\ UNCHANGED <<ledgerVars, requestVars, receipt, chainVars, batch, seenNonce, opsVars>>

\* markReconciling.
Park(w) ==
    /\ pc[w] = "park"
    /\ rowStatus' = [rowStatus EXCEPT ![current[w]] = "reconciling"]
    /\ CountAttempt(w)
    /\ GiveUpOrFinish(w)
    /\ UNCHANGED <<ledgerVars, requestVars, receipt, chainVars, batch, seenNonce, opsVars>>

\* emitStuck and maybeEmitExhausted, after the row was updated.
Announce(w) ==
    /\ pc[w] = "announce"
    /\ exhausted' = [exhausted EXCEPT ![current[w]] = @ + 1]
    /\ Finish(w)
    /\ UNCHANGED <<ledgerVars, requestVars, rowVars, chainVars, batch, seenNonce, aborts>>

\* Mutant: failExecution forgets the reservation.
FailIntent_KeepsHold(w) ==
    /\ pc[w] = "fail_intent"
    /\ Move(current[w], "dispatching", "failed")
    /\ Goto(w, "mark_failed")
    /\ UNCHANGED <<reservation, posted, requestVars, rowVars, chainVars,
                   current, batch, resumed, seenNonce, opsVars>>

\* Mutant: the transition to failed does not look at the status it leaves.
FailIntent_Unconditional(w) ==
    /\ pc[w] = "fail_intent"
    /\ status' = [status EXCEPT ![current[w]] = "failed"]
    /\ reservation' = [reservation EXCEPT ![current[w]] = IF @ = "active" THEN "released" ELSE @]
    /\ Goto(w, "mark_failed")
    /\ UNCHANGED <<posted, requestVars, rowVars, chainVars,
                   current, batch, resumed, seenNonce, opsVars>>

\* failExecution, in one transaction: dispatching -> failed and the reservation
\* released.  The audit write comes after the commit; if it throws, the row is
\* parked although the intent has failed.
FailIntent(w) ==
    /\ pc[w] = "fail_intent"
    /\ Move(current[w], "dispatching", "failed")
    /\ reservation' = [reservation EXCEPT ![current[w]] = IF @ = "active" THEN "released" ELSE @]
    /\ \/ Goto(w, "mark_failed")
       \/ "audit" \in Faults /\ Goto(w, "park")
    /\ UNCHANGED <<posted, requestVars, rowVars, chainVars,
                   current, batch, resumed, seenNonce, opsVars>>

\* failExecution throws and rolls back: the intent has left dispatching, or the
\* database fails.  The row is parked.
FailIntentThrows(w) ==
    /\ pc[w] = "fail_intent"
    /\ status[current[w]] # "dispatching" \/ "settle" \in Faults
    /\ Goto(w, "park")
    /\ UNCHANGED <<ledgerVars, requestVars, rowVars, chainVars,
                   current, batch, resumed, seenNonce, opsVars>>

\* markPermanentlyFailed.
MarkFailed(w) ==
    /\ pc[w] = "mark_failed"
    /\ rowStatus' = [rowStatus EXCEPT ![current[w]] = "failed"]
    /\ CountAttempt(w)
    /\ Finish(w)
    /\ UNCHANGED <<ledgerVars, requestVars, receipt, chainVars, batch, seenNonce, opsVars>>

\* Mutant: a restarted worker still thinks it has its row.
Abort_KeepsRow(w) ==
    /\ aborts < MaxAborts
    /\ pc[w] # "idle" \/ batch[w] # {}
    /\ aborts' = aborts + 1
    /\ batch' = [batch EXCEPT ![w] = {}]
    /\ LeaveCall(w, "idle")
    /\ UNCHANGED <<ledgerVars, requestVars, rowVars, chainVars, current, resumed, exhausted>>

\* The process dies, or an audit write outside the handled blocks throws and
\* ends the cycle: the rows the worker held stay as they are.  A rail call cut
\* off this way may still land.
Abort(w) ==
    /\ aborts < MaxAborts
    /\ pc[w] # "idle" \/ batch[w] # {}
    /\ aborts' = aborts + 1
    /\ \/ UNCHANGED chainVars
       \/ pc[w] = "calling" /\ LeaveStray(w)
    /\ current' = [current EXCEPT ![w] = NoIntent]
    /\ batch' = [batch EXCEPT ![w] = {}]
    /\ resumed' = [resumed EXCEPT ![w] = {}]
    /\ LeaveCall(w, "idle")
    /\ UNCHANGED <<ledgerVars, requestVars, rowVars, exhausted>>

----------------------------------------------------------------------------

Request == \/ \E i \in Intents : \/ Gate(i) \/ Handoff(i) \/ HandoffAborts(i)
                                 \/ Pause(i) \/ Reject(i) \/ ResumeGate(i) \/ Resume(i)
           \/ \E a \in Agents : HaltAgent(a) \/ RestoreAgent(a)

Chain == \E i \in Intents : StrayLands(i) \/ StrayIsDropped(i)

WorkerStep(w) ==
    \/ \E i \in Intents : Reclaim(w, i) \/ Start(w, i)
    \/ Claim(w) \/ Dispatch(w)
    \/ RailAccepts(w) \/ RailDeclines(w) \/ RailTimesOut(w) \/ RailReverts(w)
    \/ Record(w) \/ Settle(w) \/ SettleAgain(w) \/ SettleThrows(w) \/ MarkSettled(w)
    \/ FailIntent(w) \/ FailIntentThrows(w) \/ MarkFailed(w)
    \/ Retry(w) \/ Park(w) \/ Announce(w)

Next == Request \/ Chain \/ \E w \in Workers : WorkerStep(w) \/ Abort(w)

Spec == Init /\ [][Next]_vars

\* Every worker process keeps running its cycles (startOutboxWorker restarts
\* a cycle each intervalMs); nothing forces a request, a fault or an abort.
Fairness == \A w \in Workers : WF_vars(WorkerStep(w))

FairSpec == Spec /\ Fairness

----------------------------------------------------------------------------
(* Types. *)

IntentStatuses == {"approved", "paused", "rejected", "dispatching", "executed", "failed"}
RowStatuses == {"absent", "pending", "dispatching", "dispatched", "settled", "failed",
                "reconciling"}
ReservationStatuses == {"none", "active", "consumed", "released"}
Steps == {"idle", "guarded", "calling", "received", "settle", "mark_settled",
          "retry", "park", "fail_intent", "mark_failed", "announce"}

TypeOK ==
    /\ status \in [Intents -> IntentStatuses]
    /\ reservation \in [Intents -> ReservationStatuses]
    /\ posted \in [Intents -> Nat]
    /\ agentState \in [Agents -> {"active", "quarantined"}]
    /\ gated \in [Intents -> 0 .. MaxRequests]
    /\ resuming \in SUBSET Intents
    /\ rowStatus \in [Intents -> RowStatuses]
    /\ attempts \in [Intents -> Nat]
    /\ receipt \in [Intents -> BOOLEAN]
    /\ lockedBy \in [Intents -> Workers \cup {NoWorker}]
    /\ nonce \in Nat
    /\ moved \in [Intents -> Nat]
    /\ stray \in SUBSET Intents
    /\ pc \in [Workers -> Steps]
    /\ current \in [Workers -> Intents \cup {NoIntent}]
    /\ batch \in [Workers -> SUBSET Intents]
    /\ resumed \in [Workers -> SUBSET Intents]
    /\ seenNonce \in [Workers -> Nat]
    /\ exhausted \in [Intents -> Nat]
    /\ aborts \in 0 .. MaxAborts
    /\ \A w \in Workers : current[w] = NoIntent <=> pc[w] = "idle"

----------------------------------------------------------------------------
(* Properties that hold whatever the workers do, slow ones included.       *)

HandedOff(i) == status[i] \in {"dispatching", "executed", "failed"}

\* The books agree with the intent: an outbox row exists exactly when the
\* intent was handed off, an execution was posted (once) exactly when it is
\* executed, and its hold is active exactly while it is dispatching, consumed
\* with the execution and released with the failure (execute, completeExecution
\* and failExecution, raced by stale workers and repeated after crashes).
LedgerConsistent ==
    \A i \in Intents :
        /\ rowStatus[i] # "absent" <=> HandedOff(i)
        /\ posted[i] = IF status[i] = "executed" THEN 1 ELSE 0
        /\ reservation[i] = IF ~NeedsReservation(i) \/ ~HandedOff(i) THEN "none"
                            ELSE CASE status[i] = "dispatching" -> "active"
                                   [] status[i] = "executed" -> "consumed"
                                   [] status[i] = "failed" -> "released"

\* No intent is executed and no receipt is stored unless the money moved, and
\* no money moves for an intent that was not handed off (the only dispatch site
\* is the worker, processClaimedRow).
NoPaymentWithoutMoney ==
    \A i \in Intents :
        /\ status[i] = "executed" => receipt[i]
        /\ receipt[i] => moved[i] > 0
        /\ moved[i] > 0 \/ i \in stray => HandedOff(i)

\* What one payment can cost is bounded although locks expire under slow workers,
\* the mark methods update rows without looking at them, and cycles die: attempts
\* pass the ceiling by fewer than there are workers, and money that moved or is on
\* its way is paid for by an attempt, an abandoned cycle, or one movement per worker
\* that was in the dark when the first receipt was stored (claimNext, F4).
SpendingBounded ==
    \A i \in Intents :
        /\ attempts[i] < MaxTotalAttempts + Cardinality(Workers)
        /\ moved[i] + (IF i \in stray THEN 1 ELSE 0)
             <= attempts[i] + aborts + Cardinality(Workers)

\* The ledger's view of the outbox is a PaymentSettlement.
PhaseOf(st) ==
    CASE st \in {"approved", "paused"} -> "open"
      [] st = "rejected" -> "withdrawn"
      [] st = "dispatching" -> "committed"
      [] st = "executed" -> "settled"
      [] st = "failed" -> "failed"

phase == [i \in Intents |-> PhaseOf(status[i])]

Settlement == INSTANCE PaymentSettlement
    WITH Payments <- Intents, Holding <- {i \in Intents : NeedsReservation(i)},
         phase <- phase, hold <- reservation, posted <- posted

\* Each intent is settled or failed at most once, posted exactly when it
\* settles, and its hold follows: ExecutionOutbox implements PaymentSettlement.
ImplementsSettlement == Settlement!Spec

----------------------------------------------------------------------------
(* Properties that need workers which finish a row before its lock is      *)
(* stale (SlowWorkers = {}).                                               *)

\* Steps of a row whose rail call is over.
PastRail == {"received", "settle", "mark_settled", "retry", "park"}

\* The worker has counted the last attempt of the row and is about to announce it.
Announcing(w, i) == current[w] = i /\ pc[w] = "announce"

\* A row is processed by one worker at a time, which has it in flight and locked
\* until it is done with it (claimNext's SKIP LOCKED claim against reclaimStale's
\* recovery and the unguarded updates of the mark methods).
ExclusiveClaim ==
    \A i \in Intents : \A w \in Workers :
        Holds(w, i) =>
            /\ \A v \in Workers \ {w} : ~Holds(v, i)
            /\ ~Announcing(w, i) => InFlight(i) /\ lockedBy[i] = w

\* No payment is stranded: while the intent is dispatching its row can be
\* claimed, or is parked for ops at the ceiling, or is in flight under a lock that
\* reclaimStale can see; a finished row means a finished intent.
RowRecoverable ==
    \A i \in Intents :
        /\ status[i] = "dispatching" =>
              \/ Claimable(i)
              \/ rowStatus[i] = "reconciling" /\ attempts[i] >= MaxTotalAttempts
              \/ InFlight(i)
        /\ InFlight(i) => lockedBy[i] \in Workers
        /\ rowStatus[i] = "settled" => status[i] = "executed"
        /\ rowStatus[i] = "failed" => status[i] = "failed"

\* F4: once a receipt is stored no worker is on its way to the rail, however
\* the row came back (reclaimed, retried after a settlement that threw).
ReceiptStopsRail ==
    \A i \in Intents : \A w \in Workers :
        current[w] = i /\ pc[w] \in {"guarded", "calling"} => ~receipt[i]

\* Money moves twice only at a price: every movement, and every transfer still
\* on its way, beyond the one being processed or receipted is paid for by a
\* counted attempt or an abandoned cycle.  With F4 and the attempt ceiling this
\* bounds what a crash loop or a flaky rail can spend.
MovesPaidFor ==
    \A i \in Intents :
        moved[i] + (IF i \in stray THEN 1 ELSE 0)
          <= attempts[i] + aborts
             + (IF receipt[i] \/ (\E w \in Workers : current[w] = i /\ pc[w] \in PastRail)
                  THEN 1 ELSE 0)

\* A row stuck at the ceiling has been announced to operators exactly once,
\* is about to be, or lost its announcement to an abandoned cycle; no other
\* row has been announced (maybeEmitExhausted).
ExhaustedOnce ==
    \A i \in Intents :
        /\ exhausted[i] <= 1
        /\ exhausted[i] = 1 => rowStatus[i] = "reconciling"
        /\ rowStatus[i] = "reconciling" /\ attempts[i] >= MaxTotalAttempts =>
              \/ exhausted[i] = 1
              \/ aborts > 0
              \/ \E w \in Workers : Announcing(w, i)

\* The creating agent is quarantined, no worker is past the guard with the intent
\* and no transfer of it is on its way.
Halted(i) ==
    /\ ~AgentActive(i)
    /\ i \notin stray
    /\ \A w \in Workers : current[w] = i => pc[w] \notin {"guarded", "calling"}

\* A kill-switch holds: the money of a halted intent does not move, and the intent
\* stays halted until its agent is restored, retries, reclaims and resumes
\* notwithstanding (haltAgent, outboxBeforeDispatch).
HaltIsEffective ==
    [][\A i \in Intents :
          Halted(i) => moved'[i] = moved[i] /\ (Halted(i)' \/ AgentActive(i)')]_vars

\* The payment has its outcome, or its row is parked for ops at the ceiling.
Resolved(i) ==
    \/ status[i] \in {"executed", "failed"}
    \/ rowStatus[i] = "reconciling" /\ attempts[i] >= MaxTotalAttempts

\* Every handed-off payment is executed, failed, or parked for ops at the
\* attempt ceiling: no crash, retry or settlement fault loses it.
EventuallyResolved ==
    \A i \in Intents : status[i] = "dispatching" ~> Resolved(i)

----------------------------------------------------------------------------
(* What the documentation promises and the code does not keep.             *)

\* "A crash-retry never moves money twice" (protocol/payment-intents.md): a
\* worker that dies between the rail's answer and markDispatched leaves a row
\* without a receipt, and the next attempt reads a fresh nonce.
MovesAtMostOnce == \A i \in Intents : moved[i] <= 1

\* failExecution is "only for a definitive rail rejection (nothing moved)": the
\* transfer of an earlier attempt that timed out may have landed, or may yet,
\* when a later attempt of the same row reverts permanently.
FailedMeansNothingMoved == \A i \in Intents : status[i] = "failed" => moved[i] = 0

\* "A reclaimed re-run converges to exactly one settlement": a stored receipt
\* leads to an executed intent once nothing fails any more.
ReceiptSettles == \A i \in Intents : receipt[i] ~> status[i] = "executed"

=============================================================================
