------------------------ MODULE AccountReservations ------------------------
(***************************************************************************)
(* The funds of one ledger account, promised to several PaymentIntents at  *)
(* once.                                                                   *)
(*                                                                         *)
(* execute runs the gate, which looks at the balance net of the active     *)
(* reservations without holding anything, and then hands off in one        *)
(* transaction that locks the account row, reads the balance, sums the     *)
(* active reservations and inserts one more.  The worker later consumes or *)
(* releases the reservation without taking that lock.  The balance itself  *)
(* is what the bank feed last wrote: it falls some time after the money    *)
(* has left, and a feed may write a snapshot it fetched long before.       *)
(*                                                                         *)
(* The intents are all created by one agent, whose policy also caps what   *)
(* it may spend per tumbling window (gate check 8.5).  Concurrent execute  *)
(* calls for one intent, and what the rail does, are ExecutionOutbox's.    *)
(***************************************************************************)
EXTENDS Integers, FiniteSets

CONSTANTS
    Intents,    \* the PaymentIntents paid from the account
    Holding,    \* those that reserve funds on it (requiresExecutionReservation)
    Amount,     \* the amount of each
    Opening,    \* what the bank has on the account before the first of them
    WindowCap,  \* micropayment_window_cap of the agent's policy
    Feeds,      \* the jobs that write the account's balance
    NoIntent

ASSUME AccountAssumption ==
    /\ IsFiniteSet(Intents)
    /\ Holding \subseteq Intents
    /\ Amount \in [Intents -> Nat \ {0}]
    /\ Opening \in Nat
    /\ WindowCap \in Nat
    /\ NoIntent \notin Intents

VARIABLES
    status,     \* ledger_payment_intents.status
    hold,       \* ledger_reservations.status of the intent's reservation
    step,       \* where the intent's execute call is
    saw,        \* the balance that call read
    held,       \* the sum of active reservations that call read
    lock,       \* the intent whose hand-off holds the account row's lock
    moved,      \* intents whose payment the rail has accepted
    debited,    \* intents whose payment the bank has taken off the account
    fetched,    \* per feed, the snapshot it has yet to write (none or one)
    reflected,  \* the debits that ledger_accounts.available_balance reflects
    spent,      \* executed intents with updated_at in the current window
    overtaken,  \* history: in flight while another intent executed
    blind       \* history: granted while one of Gone was not reflected

callVars   == <<step, saw, held, lock>>
bankVars   == <<moved, debited, fetched, reflected>>
historyVars == <<overtaken, blind>>
vars == <<status, hold, callVars, bankVars, spent, historyVars>>

----------------------------------------------------------------------------
(* Sums of amounts. *)

\* Every unit of the amounts of S, told apart; their number is the sum.
UnitsOf(S) == UNION {{i} \X (1 .. Amount[i]) : i \in S}

Total(S) == Cardinality(UnitsOf(S))

Active == {i \in Intents : hold[i] = "active"}

\* Paid, and no longer reserved: executed, or failed although the money moved.
Gone == (moved \cap Holding) \ Active

\* available_balance of the account row.
Available == Opening - Total(reflected)

\* Past its gate check and not yet executed.
InFlight(i) == step[i] \in {"gated", "locked", "summed"} \/ status[i] = "dispatching"

Init ==
    /\ status = [i \in Intents |-> "approved"]
    /\ hold = [i \in Intents |-> "none"]
    /\ step = [i \in Intents |-> "idle"]
    /\ saw = [i \in Intents |-> 0]
    /\ held = [i \in Intents |-> 0]
    /\ lock = NoIntent
    /\ moved = {}
    /\ debited = {}
    /\ fetched = [f \in Feeds |-> {}]
    /\ reflected = {}
    /\ spent = {}
    /\ overtaken = {}
    /\ blind = {}

----------------------------------------------------------------------------
(* execute: the gate. *)

Goto(i, s) == step' = [step EXCEPT ![i] = s]

\* The gate resolves the source account ...
GateReads(i) ==
    /\ status[i] = "approved"
    /\ step[i] = "idle"
    /\ saw' = [saw EXCEPT ![i] = Available]
    /\ Goto(i, "reading")
    /\ UNCHANGED <<status, hold, held, lock, bankVars, spent, historyVars>>

\* Mutant: the intent's own amount is left out of the window check.
GateChecks_CapWithoutAmount(i) ==
    /\ step[i] = "reading"
    /\ i \in Holding => saw[i] >= Amount[i] + Total(Active)
    /\ Total(spent) <= WindowCap
    /\ Goto(i, "gated")
    /\ UNCHANGED <<status, hold, saw, held, lock, bankVars, spent, historyVars>>

\* ... and later checks that it covers the amount and the active reservations
\* (check 8) and that the agent's window does too (check 8.5).
GateChecks(i) ==
    /\ step[i] = "reading"
    /\ i \in Holding => saw[i] >= Amount[i] + Total(Active)
    /\ Total(spent) + Amount[i] <= WindowCap
    /\ Goto(i, "gated")
    /\ UNCHANGED <<status, hold, saw, held, lock, bankVars, spent, historyVars>>

----------------------------------------------------------------------------
(* execute: the hand-off transaction. *)

\* Mutant: the account row is read without FOR UPDATE.
LockAccount_PlainRead(i) ==
    /\ step[i] = "gated"
    /\ i \in Holding
    /\ saw' = [saw EXCEPT ![i] = Available]
    /\ Goto(i, "locked")
    /\ UNCHANGED <<status, hold, held, lock, bankVars, spent, historyVars>>

\* The row lock on the account, and the balance read with it.
LockAccount(i) ==
    /\ step[i] = "gated"
    /\ i \in Holding
    /\ lock = NoIntent
    /\ lock' = i
    /\ saw' = [saw EXCEPT ![i] = Available]
    /\ Goto(i, "locked")
    /\ UNCHANGED <<status, hold, held, bankVars, spent, historyVars>>

\* sumActiveReservations, a statement of its own.
SumHolds(i) ==
    /\ step[i] = "locked"
    /\ held' = [held EXCEPT ![i] = Total(Active)]
    /\ Goto(i, "summed")
    /\ UNCHANGED <<status, hold, saw, lock, bankVars, spent, historyVars>>

\* Mutant: the balance is compared with the amount alone.
Grant_IgnoresHolds(i) ==
    /\ step[i] = "summed"
    /\ saw[i] >= Amount[i]
    /\ status' = [status EXCEPT ![i] = "dispatching"]
    /\ hold' = [hold EXCEPT ![i] = "active"]
    /\ lock' = NoIntent
    /\ Goto(i, "idle")
    /\ blind' = IF Gone \subseteq reflected THEN blind ELSE blind \cup {i}
    /\ UNCHANGED <<saw, held, bankVars, spent, overtaken>>

\* The funds suffice: the reservation, the transition to dispatching and the
\* outbox row are committed, which lets the lock go.
Grant(i) ==
    /\ step[i] = "summed"
    /\ saw[i] >= Amount[i] + held[i]
    /\ status' = [status EXCEPT ![i] = "dispatching"]
    /\ hold' = [hold EXCEPT ![i] = "active"]
    /\ lock' = NoIntent
    /\ Goto(i, "idle")
    /\ blind' = IF Gone \subseteq reflected THEN blind ELSE blind \cup {i}
    /\ UNCHANGED <<saw, held, bankVars, spent, overtaken>>

\* A hand-off that reserves nothing (x402_settle, escrow_release).
HandOffWithoutHold(i) ==
    /\ step[i] = "gated"
    /\ i \notin Holding
    /\ status' = [status EXCEPT ![i] = "dispatching"]
    /\ Goto(i, "idle")
    /\ UNCHANGED <<hold, saw, held, lock, bankVars, spent, historyVars>>

\* Mutant: the lock outlives the transaction.
GiveUp_KeepsLock(i) ==
    /\ step[i] # "idle"
    /\ Goto(i, "idle")
    /\ UNCHANGED <<status, hold, saw, held, lock, bankVars, spent, historyVars>>

\* The gate or reserveIfAvailable refuses, or the process dies: whatever the
\* call had in its transaction is rolled back.
GiveUp(i) ==
    /\ step[i] # "idle"
    /\ Goto(i, "idle")
    /\ lock' = IF lock = i THEN NoIntent ELSE lock
    /\ UNCHANGED <<status, hold, saw, held, bankVars, spent, historyVars>>

----------------------------------------------------------------------------
(* The worker, the bank and its feed. *)

RailAccepts(i) ==
    /\ status[i] = "dispatching"
    /\ moved' = moved \cup {i}
    /\ UNCHANGED <<status, hold, callVars, debited, fetched, reflected, spent, historyVars>>

Executes(i) ==
    /\ status[i] = "dispatching"
    /\ i \in moved
    /\ status' = [status EXCEPT ![i] = "executed"]
    /\ spent' = spent \cup {i}
    /\ overtaken' = overtaken \cup {j \in Intents \ {i} : InFlight(j)}

\* Mutant: the settlement forgets its reservation.
Settle_KeepsHold(i) ==
    /\ Executes(i)
    /\ UNCHANGED <<hold, callVars, bankVars, blind>>

\* completeExecution: executed, the reservation consumed and the agent's spend
\* counted, in one transaction that does not touch the account row.
Settle(i) ==
    /\ Executes(i)
    /\ hold' = [hold EXCEPT ![i] = IF @ = "active" THEN "consumed" ELSE @]
    /\ UNCHANGED <<callVars, bankVars, blind>>

\* failExecution: nothing moved, the worker believes, but an earlier attempt may
\* have.
FailPayment(i) ==
    /\ status[i] = "dispatching"
    /\ status' = [status EXCEPT ![i] = "failed"]
    /\ hold' = [hold EXCEPT ![i] = IF @ = "active" THEN "released" ELSE @]
    /\ UNCHANGED <<callVars, bankVars, spent, historyVars>>

\* The bank takes the money off the account, at once or days later.
BankDebits(i) ==
    /\ i \in (moved \cap Holding) \ debited
    /\ debited' = debited \cup {i}
    /\ UNCHANGED <<status, hold, callVars, moved, fetched, reflected, spent, historyVars>>

\* A feed job fetches the balance ...
FeedReads(f) ==
    /\ fetched[f] = {}
    /\ fetched' = [fetched EXCEPT ![f] = {debited}]
    /\ UNCHANGED <<status, hold, callVars, moved, debited, reflected, spent, historyVars>>

\* ... and writes it to the account row, for which it waits until no hand-off
\* holds the row (projectCanonicalAccount, upsertAccountRow).
FeedWrites(f) ==
    /\ lock = NoIntent
    /\ \E snapshot \in fetched[f] : reflected' = snapshot
    /\ fetched' = [fetched EXCEPT ![f] = {}]
    /\ UNCHANGED <<status, hold, callVars, moved, debited, spent, historyVars>>

\* The tumbling window of check 8.5 rolls over.
NewWindow ==
    /\ spent # {}
    /\ spent' = {}
    /\ UNCHANGED <<status, hold, callVars, bankVars, historyVars>>

Next ==
    \/ \E i \in Intents :
         \/ GateReads(i) \/ GateChecks(i)
         \/ LockAccount(i) \/ SumHolds(i) \/ Grant(i) \/ HandOffWithoutHold(i) \/ GiveUp(i)
         \/ RailAccepts(i) \/ Settle(i) \/ FailPayment(i) \/ BankDebits(i)
    \/ \E f \in Feeds : FeedReads(f) \/ FeedWrites(f)
    \/ NewWindow

Spec == Init /\ [][Next]_vars

----------------------------------------------------------------------------
(* Properties. *)

\* Types, and whose transaction holds the account row: exactly the hand-off
\* between its read of the balance and its end.
TypeOK ==
    /\ status \in [Intents -> {"approved", "dispatching", "executed", "failed"}]
    /\ hold \in [Intents -> {"none", "active", "consumed", "released"}]
    /\ step \in [Intents -> {"idle", "reading", "gated", "locked", "summed"}]
    /\ saw \in [Intents -> Int]
    /\ held \in [Intents -> Nat]
    /\ lock \in Intents \cup {NoIntent}
    /\ moved \in SUBSET Intents
    /\ debited \in SUBSET Intents
    /\ fetched \in [Feeds -> SUBSET SUBSET Intents]
    /\ reflected \in SUBSET Intents
    /\ spent \in SUBSET Intents
    /\ overtaken \in SUBSET Intents
    /\ blind \in SUBSET Intents
    /\ \A i \in Intents : lock = i <=> step[i] \in {"locked", "summed"}

\* Two hand-offs never reserve the same balance: at the moment a reservation
\* becomes active, all active reservations together fit into the balance the
\* account row shows at that moment (reserveIfAvailable against concurrent
\* hand-offs, settlements, failures and feed writes).
ReservationsFit ==
    [][(\E i \in Intents : hold[i] # "active" /\ hold'[i] = "active")
          => Total(Active') <= Available']_vars

\* No euro is promised twice: as long as no reservation was granted while the
\* debit of a payment that had left its reservation was still missing from the
\* balance, what is reserved and what was paid out together never exceed what the
\* bank had (consume and release stop counting a reservation before the feed
\* lowers the balance, and a payment may fail although its money moved).
FundsPromisedOnce ==
    blind = {} => Total(Active \cup Gone) <= Opening

\* The window cap is exact for an agent whose payments follow one another: what
\* executed in the current window exceeds the cap only if one of these payments
\* was in flight when another one executed (sumAgentWindowSpend counts executed
\* intents only).
CapExactWhenSequential ==
    Total(spent) > WindowCap => spent \cap overtaken # {}

PhaseOf(st) ==
    CASE st = "approved" -> "open"
      [] st = "dispatching" -> "committed"
      [] st = "executed" -> "settled"
      [] st = "failed" -> "failed"

phase  == [i \in Intents |-> PhaseOf(status[i])]
posted == [i \in Intents |-> IF status[i] = "executed" THEN 1 ELSE 0]

Settlement == INSTANCE PaymentSettlement
    WITH Payments <- Intents, phase <- phase, posted <- posted

\* The reservations keep the promise the outbox makes of them: a hold lives
\* exactly as long as its payment is committed, and ends consumed with the
\* settlement or released with the failure.
ImplementsSettlement == Settlement!Spec

=============================================================================
