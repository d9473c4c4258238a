----------------------- MODULE ExecutionOutbox_proofs -----------------------
(***************************************************************************)
(* Machine-checked proofs about ExecutionOutbox, for every set of intents, *)
(* workers and agents and every value of the bounds.                       *)
(***************************************************************************)
EXTENDS ExecutionOutbox, TLAPS

\* The initial state has the types of TypeOK.
LEMMA InitTypeOK == Init => TypeOK
  BY ActorsAssumption, BoundsAssumption
  DEF Init, TypeOK, IntentStatuses, RowStatuses, ReservationStatuses, Steps

\* A request preserves TypeOK.
LEMMA RequestTypeOK == TypeOK /\ Request => TypeOK'
<1> SUFFICES ASSUME TypeOK, Request PROVE TypeOK'
  OBVIOUS
<1> USE DEF TypeOK, ledgerVars, requestVars, rowVars, chainVars, workerVars, opsVars
<1>1. ASSUME NEW i \in Intents, Gate(i) PROVE TypeOK'
  BY <1>1, BoundsAssumption DEF Gate
<1>2. ASSUME NEW i \in Intents, Handoff(i) PROVE TypeOK'
  BY <1>2, BoundsAssumption
  DEF Handoff, IntentStatuses, RowStatuses, ReservationStatuses
<1>3. ASSUME NEW i \in Intents, HandoffAborts(i) PROVE TypeOK'
  BY <1>3, BoundsAssumption DEF HandoffAborts
<1>4. ASSUME NEW i \in Intents, Pause(i) \/ Reject(i) PROVE TypeOK'
  BY <1>4 DEF Pause, Reject, Move, IntentStatuses
<1>5. ASSUME NEW i \in Intents, ResumeGate(i) PROVE TypeOK'
  BY <1>5 DEF ResumeGate
<1>6. ASSUME NEW i \in Intents, Resume(i) PROVE TypeOK'
  BY <1>6 DEF Resume, IntentStatuses
<1>7. ASSUME NEW a \in Agents, HaltAgent(a) PROVE TypeOK'
  BY <1>7 DEF HaltAgent, IntentStatuses
<1>8. ASSUME NEW a \in Agents, RestoreAgent(a) PROVE TypeOK'
  BY <1>8 DEF RestoreAgent
<1> QED BY <1>1, <1>2, <1>3, <1>4, <1>5, <1>6, <1>7, <1>8 DEF Request

\* A worker away from idle has a row.
LEMMA BusyWorkerHasRow ==
  ASSUME TypeOK, NEW w \in Workers, pc[w] # "idle"
  PROVE  current[w] \in Intents
  BY DEF TypeOK

\* A step of the chain preserves TypeOK.
LEMMA ChainTypeOK == TypeOK /\ Chain => TypeOK'
<1> SUFFICES ASSUME TypeOK, NEW i \in Intents, StrayLands(i) \/ StrayIsDropped(i)
             PROVE  TypeOK'
  BY DEF Chain
<1> USE DEF TypeOK, ledgerVars, requestVars, rowVars, workerVars, opsVars
<1>1. CASE StrayLands(i)
  BY <1>1 DEF StrayLands, Transfer
<1>2. CASE StrayIsDropped(i)
  BY <1>2 DEF StrayIsDropped
<1> QED BY <1>1, <1>2

\* After a counted attempt the worker is either at announce with its row, or
\* idle without one.
LEMMA GiveUpOrFinishTypes ==
  ASSUME TypeOK, NEW w \in Workers, current[w] \in Intents, GiveUpOrFinish(w)
  PROVE  /\ pc' \in [Workers -> Steps]
         /\ current' \in [Workers -> Intents \cup {NoIntent}]
         /\ resumed' \in [Workers -> SUBSET Intents]
         /\ \A v \in Workers : current'[v] = NoIntent <=> pc'[v] = "idle"
<1>a. NoIntent \notin Intents
  BY ActorsAssumption
<1>1. CASE attempts[current[w]] + 1 >= MaxTotalAttempts
  <2>1. pc' = [pc EXCEPT ![w] = "announce"] /\ current' = current /\ resumed' = resumed
    BY <1>1 DEF GiveUpOrFinish, Goto
  <2> QED BY <2>1, <1>a DEF TypeOK, Steps
<1>2. CASE ~(attempts[current[w]] + 1 >= MaxTotalAttempts)
  BY <1>2, <1>a DEF GiveUpOrFinish, Finish, Goto, TypeOK, Steps
<1> QED BY <1>1, <1>2

\* A step of a worker, or its abandoned cycle, preserves TypeOK.
LEMMA WorkerTypeOK ==
  ASSUME TypeOK, NEW w \in Workers, WorkerStep(w) \/ Abort(w)
  PROVE  TypeOK'
<1> USE DEF TypeOK, ledgerVars, requestVars, rowVars, chainVars, workerVars, opsVars
<1>a. NoIntent \notin Intents
  BY ActorsAssumption
<1>1. ASSUME NEW i \in Intents, Reclaim(w, i) PROVE TypeOK'
  BY <1>1 DEF Reclaim, RowStatuses
<1>2. ASSUME NEW i \in Intents, Start(w, i) PROVE TypeOK'
  BY <1>2, <1>a DEF Start, Goto, Steps
<1>3. CASE Claim(w)
  <2>1. PICK S \in SUBSET Intents :
          /\ rowStatus' = [i \in Intents |-> IF i \in S THEN "dispatching" ELSE rowStatus[i]]
          /\ lockedBy' = [i \in Intents |-> IF i \in S THEN w ELSE lockedBy[i]]
          /\ batch' = [batch EXCEPT ![w] = S]
          /\ resumed' = [resumed EXCEPT ![w] = {i \in S : receipt[i]}]
    BY <1>3 DEF Claim
  <2> QED BY <1>3, <2>1 DEF Claim, RowStatuses
<1>4. CASE Dispatch(w)
  BY <1>4, <1>a DEF Dispatch, Goto, Steps
<1>5. CASE RailAccepts(w)
  <2>1. current[w] \in Intents
    BY <1>5 DEF RailAccepts
  <2> QED BY <1>5, <2>1, <1>a DEF RailAccepts, Transfer, LeaveCall, Goto, Steps
<1>6. CASE RailDeclines(w)
  BY <1>6, <1>a DEF RailDeclines, LeaveCall, Goto, Steps
<1>7. CASE RailTimesOut(w)
  <2>1. current[w] \in Intents
    BY <1>7 DEF RailTimesOut
  <2> QED BY <1>7, <2>1, <1>a DEF RailTimesOut, LeaveStray, LeaveCall, Goto, Steps
<1>8. CASE RailReverts(w)
  BY <1>8, <1>a DEF RailReverts, LeaveCall, Goto, Steps
<1>9. CASE Record(w)
  BY <1>9, <1>a DEF Record, Goto, Steps, RowStatuses
<1>10. CASE Settle(w)
  <2>1. current[w] \in Intents
    BY <1>10 DEF Settle
  <2> QED BY <1>10, <2>1, <1>a
          DEF Settle, Move, Goto, Steps, IntentStatuses, ReservationStatuses
<1>11. CASE SettleAgain(w)
  BY <1>11, <1>a DEF SettleAgain, Goto, Steps
<1>12. CASE SettleThrows(w)
  BY <1>12, <1>a DEF SettleThrows, Goto, Steps
<1>13. CASE MarkSettled(w)
  BY <1>13, <1>a DEF MarkSettled, Finish, Goto, Steps, RowStatuses
<1>14. CASE FailIntent(w)
  <2>1. current[w] \in Intents
    BY <1>14 DEF FailIntent
  <2> QED BY <1>14, <2>1, <1>a
          DEF FailIntent, Move, Goto, Steps, IntentStatuses, ReservationStatuses
<1>15. CASE FailIntentThrows(w)
  BY <1>15, <1>a DEF FailIntentThrows, Goto, Steps
<1>16. CASE MarkFailed(w)
  BY <1>16, <1>a DEF MarkFailed, CountAttempt, Finish, Goto, Steps, RowStatuses
<1>17. CASE Retry(w)
  <2>1. current[w] \in Intents
    BY <1>17 DEF Retry
  <2>2. rowStatus' \in [Intents -> RowStatuses]
    BY <1>17, <2>1 DEF Retry, RowStatuses
  <2>3. attempts' \in [Intents -> Nat] /\ lockedBy' \in [Intents -> Workers \cup {NoWorker}]
    BY <1>17, <2>1 DEF Retry, CountAttempt
  <2> QED BY <1>17, <2>1, <2>2, <2>3, GiveUpOrFinishTypes DEF Retry
<1>18. CASE Park(w)
  <2>1. current[w] \in Intents
    BY <1>18 DEF Park
  <2> QED BY <1>18, <2>1, GiveUpOrFinishTypes DEF Park, CountAttempt, RowStatuses
<1>19. CASE Announce(w)
  BY <1>19, <1>a DEF Announce, Finish, Goto, Steps
<1>20. CASE Abort(w)
  <2>1. pc[w] = "calling" => current[w] \in Intents
    OBVIOUS
  <2>2. aborts' \in 0 .. MaxAborts
    BY <1>20, BoundsAssumption DEF Abort
  <2>3. stray' \in SUBSET Intents /\ nonce' \in Nat /\ moved' \in [Intents -> Nat]
    BY <1>20, <2>1 DEF Abort, LeaveStray
  <2> QED BY <1>20, <2>2, <2>3, <1>a DEF Abort, LeaveCall, Goto, Steps
<1> QED
  BY <1>1, <1>2, <1>3, <1>4, <1>5, <1>6, <1>7, <1>8, <1>9, <1>10, <1>11, <1>12, <1>13,
     <1>14, <1>15, <1>16, <1>17, <1>18, <1>19, <1>20
  DEF WorkerStep

\* Every reachable state has the types the source declares, and a worker holds
\* a row exactly while it is busy with one.
THEOREM TypeCorrect == Spec => []TypeOK
<1>1. Init => TypeOK
  BY InitTypeOK
<1>2. TypeOK /\ [Next]_vars => TypeOK'
  <2>1. TypeOK /\ Next => TypeOK'
    BY RequestTypeOK, ChainTypeOK, WorkerTypeOK DEF Next
  <2>2. TypeOK /\ UNCHANGED vars => TypeOK'
    BY DEF TypeOK, vars, ledgerVars, requestVars, rowVars, chainVars, workerVars, opsVars
  <2> QED BY <2>1, <2>2
<1> QED BY <1>1, <1>2, PTL DEF Spec

----------------------------------------------------------------------------
(* The books.  LedgerConsistent is not inductive: a worker writes the row   *)
(* it holds, and nothing in LedgerConsistent says that row exists.          *)

RowsHandedOff ==
    \A w \in Workers : \A i \in Intents : Holds(w, i) => HandedOff(i)

BooksInv == TypeOK /\ LedgerConsistent /\ RowsHandedOff

(* The money.  A receipt is written by the worker that saw the transfer.    *)

MoneyTrail ==
    \A w \in Workers :
        /\ pc[w] = "received" => moved[current[w]] > 0
        /\ pc[w] = "settle" => receipt[current[w]]
        /\ \A i \in resumed[w] : receipt[i]

MoneyInv == BooksInv /\ NoPaymentWithoutMoney /\ MoneyTrail

(* Timely workers.                                                          *)

FreshSnapshots ==
    \A w \in Workers : \A i \in Intents :
        /\ i \in batch[w] => i # current[w]
        /\ i \in batch[w] /\ i \notin resumed[w] => ~receipt[i]
        /\ current[w] = i /\ pc[w] \in {"guarded", "calling"} => ~receipt[i]
        /\ resumed[w] \subseteq batch[w] \cup {current[w]}

\* The part of RowRecoverable that needs no count of attempts.
LocksVisible ==
    \A i \in Intents :
        /\ InFlight(i) => lockedBy[i] \in Workers
        /\ rowStatus[i] = "settled" => status[i] = "executed"
        /\ rowStatus[i] = "failed" => status[i] = "failed"

RowsMatchIntents ==
    \A w \in Workers :
        /\ pc[w] = "mark_settled" => status[current[w]] = "executed"
        /\ pc[w] = "mark_failed" => status[current[w]] = "failed"
        /\ pc[w] = "announce" => /\ rowStatus[current[w]] = "reconciling"
                                 /\ attempts[current[w]] >= MaxTotalAttempts

ClaimInv == ExclusiveClaim /\ LocksVisible /\ FreshSnapshots /\ RowsMatchIntents

TimelyInv == MoneyInv /\ ClaimInv

----------------------------------------------------------------------------

USE DEF ledgerVars, requestVars, rowVars, chainVars, workerVars, opsVars

\* Steps that leave the ledger alone and neither create nor remove a row keep
\* the books.
LEMMA BooksKept ==
  ASSUME LedgerConsistent, UNCHANGED ledgerVars,
         \A i \in Intents : rowStatus'[i] = "absent" <=> rowStatus[i] = "absent"
  PROVE  LedgerConsistent' /\ \A i \in Intents : HandedOff(i)' <=> HandedOff(i)
  BY DEF LedgerConsistent, HandedOff

\* Held rows stay handed off when the hand-off is never undone and a worker
\* takes up only rows that were handed off.
LEMMA HeldRowsKept ==
  ASSUME RowsHandedOff,
         \A i \in Intents : HandedOff(i) => HandedOff(i)',
         \A w \in Workers : \A i \in Intents : Holds(w, i)' => Holds(w, i) \/ HandedOff(i)
  PROVE  RowsHandedOff'
  BY DEF RowsHandedOff

\* A request preserves the books.
LEMMA RequestBooks == BooksInv /\ Request => LedgerConsistent' /\ RowsHandedOff'
<1> SUFFICES ASSUME BooksInv, Request PROVE LedgerConsistent' /\ RowsHandedOff'
  OBVIOUS
<1> USE DEF BooksInv
<1>1. UNCHANGED workerVars
  BY DEF Request, Gate, Handoff, HandoffAborts, Pause, Reject, ResumeGate, Resume,
         HaltAgent, RestoreAgent
<1>2. \A w \in Workers : \A i \in Intents : Holds(w, i)' <=> Holds(w, i)
  BY <1>1 DEF Holds
<1>3. LedgerConsistent' /\ \A j \in Intents : HandedOff(j) => HandedOff(j)'
  <2>1. ASSUME NEW i \in Intents, Gate(i) \/ HandoffAborts(i) \/ ResumeGate(i)
        PROVE  UNCHANGED ledgerVars /\ UNCHANGED rowStatus
    BY <2>1 DEF Gate, HandoffAborts, ResumeGate
  <2>2. ASSUME NEW i \in Intents, Handoff(i)
        PROVE  LedgerConsistent' /\ \A j \in Intents : HandedOff(j) => HandedOff(j)'
    <3>1. /\ status[i] = "approved"
          /\ status' = [status EXCEPT ![i] = "dispatching"]
          /\ reservation' = [reservation EXCEPT ![i] =
                                IF NeedsReservation(i) THEN "active" ELSE "none"]
          /\ rowStatus' = [rowStatus EXCEPT ![i] = "pending"]
          /\ UNCHANGED posted
      BY <2>2 DEF Handoff
    <3> QED BY <3>1 DEF LedgerConsistent, HandedOff, TypeOK
  <2>3. ASSUME NEW i \in Intents, Pause(i) \/ Reject(i) \/ Resume(i)
        PROVE  LedgerConsistent' /\ \A j \in Intents : HandedOff(j) => HandedOff(j)'
    <3>1. /\ UNCHANGED <<reservation, posted, rowStatus>>
          /\ \A j \in Intents :
                \/ status'[j] = status[j]
                \/ /\ status[j] \in {"approved", "paused"}
                   /\ status'[j] \in {"approved", "paused", "rejected"}
      BY <2>3 DEF Pause, Reject, Resume, Move, TypeOK
    <3> QED BY <3>1 DEF LedgerConsistent, HandedOff
  <2>4. ASSUME NEW a \in Agents, HaltAgent(a)
        PROVE  LedgerConsistent' /\ \A j \in Intents : HandedOff(j) => HandedOff(j)'
    <3>1. /\ UNCHANGED <<reservation, posted, rowStatus>>
          /\ \A j \in Intents :
                \/ status'[j] = status[j]
                \/ status[j] = "approved" /\ status'[j] = "paused"
      BY <2>4 DEF HaltAgent, TypeOK
    <3> QED BY <3>1 DEF LedgerConsistent, HandedOff
  <2>5. ASSUME NEW a \in Agents, RestoreAgent(a)
        PROVE  UNCHANGED ledgerVars /\ UNCHANGED rowStatus
    BY <2>5 DEF RestoreAgent
  <2> QED BY <2>1, <2>2, <2>3, <2>4, <2>5, BooksKept DEF Request
<1> QED BY <1>2, <1>3, HeldRowsKept

\* A step of the chain preserves the books.
LEMMA ChainBooks == BooksInv /\ Chain => LedgerConsistent' /\ RowsHandedOff'
<1> SUFFICES ASSUME BooksInv, Chain PROVE LedgerConsistent' /\ RowsHandedOff'
  OBVIOUS
<1>1. UNCHANGED <<ledgerVars, rowVars, workerVars>>
  BY DEF Chain, StrayLands, StrayIsDropped
<1> QED BY <1>1, BooksKept, HeldRowsKept DEF BooksInv, Holds

\* A worker takes up only rows that exist, and lets go of the others.
LEMMA WorkerHoldsHandedOff ==
  ASSUME BooksInv, NEW w \in Workers, WorkerStep(w) \/ Abort(w),
         NEW v \in Workers, NEW i \in Intents, Holds(v, i)'
  PROVE  Holds(v, i) \/ HandedOff(i)
<1> USE DEF BooksInv, TypeOK, Holds
<1>a. NoIntent \notin Intents
  BY ActorsAssumption
<1>1. CASE UNCHANGED <<current, batch>>
  BY <1>1
<1>2. ASSUME NEW j \in Intents, Start(w, j) PROVE Holds(v, i) \/ HandedOff(i)
  BY <1>2 DEF Start
<1>3. CASE Claim(w)
  <2>1. PICK S \in SUBSET {j \in Intents : Claimable(j)} : batch' = [batch EXCEPT ![w] = S]
    BY <1>3 DEF Claim
  <2>2. UNCHANGED current
    BY <1>3 DEF Claim
  <2>3. \A j \in S : HandedOff(j)
    BY <2>1 DEF Claimable, LedgerConsistent
  <2> QED BY <2>1, <2>2, <2>3
<1>4. CASE MarkSettled(w) \/ MarkFailed(w) \/ Retry(w) \/ Park(w) \/ Announce(w)
  <2>1. UNCHANGED batch /\ (UNCHANGED current \/ current' = [current EXCEPT ![w] = NoIntent])
    BY <1>4 DEF MarkSettled, MarkFailed, Retry, Park, Announce, GiveUpOrFinish, Finish
  <2> QED BY <2>1, <1>a
<1>5. CASE Abort(w)
  BY <1>5, <1>a DEF Abort
<1>6. CASE \/ \E j \in Intents : Reclaim(w, j)
           \/ Dispatch(w) \/ RailAccepts(w) \/ RailDeclines(w) \/ RailTimesOut(w)
           \/ RailReverts(w) \/ Record(w) \/ Settle(w) \/ SettleAgain(w)
           \/ SettleThrows(w) \/ FailIntent(w) \/ FailIntentThrows(w)
  <2>1. UNCHANGED <<current, batch>>
    BY <1>6 DEF Reclaim, Dispatch, RailAccepts, RailDeclines, RailTimesOut, RailReverts,
                Record, Settle, SettleAgain, SettleThrows, FailIntent, FailIntentThrows
  <2> QED BY <2>1
<1> QED BY <1>2, <1>3, <1>4, <1>5, <1>6 DEF WorkerStep

\* A step of a worker preserves the books.
LEMMA WorkerBooks ==
  ASSUME BooksInv, NEW w \in Workers, WorkerStep(w) \/ Abort(w)
  PROVE  LedgerConsistent' /\ RowsHandedOff'
<1> USE DEF BooksInv
<1>1. pc[w] # "idle" => current[w] \in Intents /\ HandedOff(current[w])
  BY DEF TypeOK, RowsHandedOff, Holds
<1>2. LedgerConsistent' /\ \A j \in Intents : HandedOff(j) => HandedOff(j)'
  <2>1. CASE UNCHANGED ledgerVars /\ UNCHANGED rowStatus
    BY <2>1, BooksKept
  <2>2. ASSUME NEW i \in Intents, Reclaim(w, i) 
        PROVE  LedgerConsistent' /\ \A j \in Intents : HandedOff(j) => HandedOff(j)'
    <3>1. \A j \in Intents : rowStatus'[j] = "absent" <=> rowStatus[j] = "absent"
      BY <2>2 DEF Reclaim, InFlight, TypeOK
    <3> QED BY <2>2, <3>1, BooksKept DEF Reclaim
  <2>3. CASE Claim(w)
    <3>1. \A j \in Intents : rowStatus'[j] = "absent" <=> rowStatus[j] = "absent"
      BY <2>3 DEF Claim, Claimable
    <3> QED BY <2>3, <3>1, BooksKept DEF Claim
  <2>4. CASE Record(w) \/ MarkSettled(w) \/ MarkFailed(w) \/ Retry(w) \/ Park(w)
    <3>1. /\ UNCHANGED ledgerVars
          /\ pc[w] # "idle"
          /\ \E st \in RowStatuses \ {"absent"} :
                rowStatus' = [rowStatus EXCEPT ![current[w]] = st]
      BY <2>4 DEF Record, MarkSettled, MarkFailed, Retry, Park, RowStatuses
    <3>2. rowStatus[current[w]] # "absent"
      BY <1>1, <3>1 DEF LedgerConsistent
    <3>3. \A j \in Intents : rowStatus'[j] = "absent" <=> rowStatus[j] = "absent"
      BY <3>1, <3>2 DEF TypeOK
    <3> QED BY <3>1, <3>3, BooksKept
  <2>5. CASE Settle(w)
    <3>1. /\ current[w] \in Intents
          /\ status[current[w]] = "dispatching"
          /\ status' = [status EXCEPT ![current[w]] = "executed"]
          /\ posted' = [posted EXCEPT ![current[w]] = @ + 1]
          /\ reservation' = [reservation EXCEPT ![current[w]] =
                                IF @ = "active" THEN "consumed" ELSE @]
          /\ UNCHANGED rowStatus
      BY <2>5, <1>1 DEF Settle, Move
    <3> QED BY <3>1 DEF LedgerConsistent, HandedOff, TypeOK
  <2>6. CASE FailIntent(w)
    <3>1. /\ current[w] \in Intents
          /\ status[current[w]] = "dispatching"
          /\ status' = [status EXCEPT ![current[w]] = "failed"]
          /\ UNCHANGED posted
          /\ reservation' = [reservation EXCEPT ![current[w]] =
                                IF @ = "active" THEN "released" ELSE @]
          /\ UNCHANGED rowStatus
      BY <2>6, <1>1 DEF FailIntent, Move
    <3> QED BY <3>1 DEF LedgerConsistent, HandedOff, TypeOK
  <2>7. CASE \/ \E i \in Intents : Start(w, i)
             \/ Dispatch(w) \/ RailAccepts(w) \/ RailDeclines(w) \/ RailTimesOut(w)
             \/ RailReverts(w) \/ SettleAgain(w) \/ SettleThrows(w)
             \/ FailIntentThrows(w) \/ Announce(w) \/ Abort(w)
    <3>1. UNCHANGED ledgerVars /\ UNCHANGED rowStatus
      BY <2>7 DEF Start, Dispatch, RailAccepts, RailDeclines, RailTimesOut, RailReverts,
                  SettleAgain, SettleThrows, FailIntentThrows, Announce, Abort
    <3> QED BY <3>1, BooksKept
  <2> QED BY <2>2, <2>3, <2>4, <2>5, <2>6, <2>7 DEF WorkerStep
<1>3. \A v \in Workers : \A i \in Intents : Holds(v, i)' => Holds(v, i) \/ HandedOff(i)
  BY WorkerHoldsHandedOff
<1> QED BY <1>2, <1>3, HeldRowsKept

\* BooksInv is an inductive invariant.
LEMMA BooksInvariant == Spec => []BooksInv
<1>1. Init => BooksInv
  <2>1. Init => LedgerConsistent /\ RowsHandedOff
    BY ActorsAssumption DEF Init, LedgerConsistent, RowsHandedOff, HandedOff, Holds
  <2> QED BY <2>1, InitTypeOK DEF BooksInv
<1>2. BooksInv /\ [Next]_vars => BooksInv'
  <2>1. BooksInv /\ Next => BooksInv'
    BY RequestTypeOK, ChainTypeOK, WorkerTypeOK, RequestBooks, ChainBooks, WorkerBooks
    DEF Next, BooksInv
  <2>2. BooksInv /\ UNCHANGED vars => BooksInv'
    BY DEF BooksInv, TypeOK, LedgerConsistent, RowsHandedOff, HandedOff, Holds, vars
  <2> QED BY <2>1, <2>2
<1> QED BY <1>1, <1>2, PTL DEF Spec

\* The books agree with the intent in every reachable state, slow workers,
\* crashes and rail faults included.
THEOREM BooksAgree == Spec => []LedgerConsistent
  BY BooksInvariant, PTL DEF BooksInv

----------------------------------------------------------------------------
(* The outbox implements PaymentSettlement.                                 *)

\* The phase of each status.
LEMMA PhaseValues ==
  /\ PhaseOf("approved") = "open"
  /\ PhaseOf("paused") = "open"
  /\ PhaseOf("rejected") = "withdrawn"
  /\ PhaseOf("dispatching") = "committed"
  /\ PhaseOf("executed") = "settled"
  /\ PhaseOf("failed") = "failed"
  BY DEF PhaseOf

\* Changing the status of one intent changes its phase and no other.
LEMMA PhaseOfMove ==
  ASSUME TypeOK, NEW i \in Intents, NEW st, status' = [status EXCEPT ![i] = st]
  PROVE  phase' = [phase EXCEPT ![i] = PhaseOf(st)]
  BY DEF phase, TypeOK

\* The phases do not change when no status does, or only between open ones.
LEMMA PhaseKept ==
  ASSUME \A j \in Intents :
            \/ status'[j] = status[j]
            \/ status[j] \in {"approved", "paused"} /\ status'[j] \in {"approved", "paused"}
  PROVE  phase' = phase
<1>1. \A j \in Intents : PhaseOf(status'[j]) = PhaseOf(status[j])
  BY PhaseValues
<1> QED BY <1>1 DEF phase

\* A request is a withdrawal, a commitment or a stutter of the settlement.
LEMMA RequestSimulates ==
  BooksInv /\ Request => [Settlement!Advance]_(Settlement!settlementVars)
<1> SUFFICES ASSUME BooksInv, Request
             PROVE  Settlement!Advance \/ UNCHANGED <<phase, reservation, posted>>
  BY DEF Settlement!settlementVars
<1> USE DEF BooksInv
<1>1. ASSUME NEW i \in Intents, Gate(i) \/ HandoffAborts(i) \/ ResumeGate(i)
      PROVE  UNCHANGED <<phase, reservation, posted>>
  BY <1>1, PhaseKept DEF Gate, HandoffAborts, ResumeGate
<1>2. ASSUME NEW i \in Intents, Handoff(i) PROVE Settlement!Commit(i)
  <2>1. /\ status[i] = "approved"
        /\ status' = [status EXCEPT ![i] = "dispatching"]
        /\ reservation' = [reservation EXCEPT ![i] =
                              IF NeedsReservation(i) THEN "active" ELSE "none"]
        /\ UNCHANGED posted
    BY <1>2 DEF Handoff
  <2>2. phase' = [phase EXCEPT ![i] = "committed"]
    BY <2>1, PhaseOfMove, PhaseValues
  <2>3. phase[i] = "open"
    BY <2>1, PhaseValues DEF phase
  <2> QED BY <2>1, <2>2, <2>3 DEF Settlement!Commit
<1>3. ASSUME NEW i \in Intents, Reject(i) PROVE Settlement!Withdraw(i)
  <2>1. /\ status[i] = "approved"
        /\ status' = [status EXCEPT ![i] = "rejected"]
        /\ UNCHANGED <<reservation, posted>>
    BY <1>3 DEF Reject, Move
  <2>2. phase' = [phase EXCEPT ![i] = "withdrawn"]
    BY <2>1, PhaseOfMove, PhaseValues
  <2>3. phase[i] = "open"
    BY <2>1, PhaseValues DEF phase
  <2> QED BY <2>1, <2>2, <2>3 DEF Settlement!Withdraw
<1>4. ASSUME \/ \E i \in Intents : Pause(i) \/ Resume(i)
             \/ \E a \in Agents : HaltAgent(a) \/ RestoreAgent(a)
      PROVE  UNCHANGED <<phase, reservation, posted>>
  <2>1. /\ UNCHANGED <<reservation, posted>>
        /\ \A j \in Intents :
              \/ status'[j] = status[j]
              \/ status[j] \in {"approved", "paused"} /\ status'[j] \in {"approved", "paused"}
    BY <1>4 DEF Pause, Resume, Move, HaltAgent, RestoreAgent, TypeOK
  <2> QED BY <2>1, PhaseKept
<1> QED BY <1>1, <1>2, <1>3, <1>4 DEF Request, Settlement!Advance

\* A dispatching intent is not posted and has its hold.
LEMMA BooksOfDispatching ==
  ASSUME LedgerConsistent, NEW i \in Intents, status[i] = "dispatching"
  PROVE  /\ posted[i] = 0
         /\ reservation[i] = IF NeedsReservation(i) THEN "active" ELSE "none"
  BY DEF LedgerConsistent, HandedOff

\* A step of a worker is a posting, a failure or a stutter of the settlement.
LEMMA WorkerSimulates ==
  ASSUME BooksInv, NEW w \in Workers, WorkerStep(w) \/ Abort(w)
  PROVE  [Settlement!Advance]_(Settlement!settlementVars)
<1> SUFFICES Settlement!Advance \/ UNCHANGED <<phase, reservation, posted>>
  BY DEF Settlement!settlementVars
<1> USE DEF BooksInv
<1>a. pc[w] # "idle" => current[w] \in Intents
  BY DEF TypeOK
<1>1. CASE Settle(w)
  <2>0. PICK i \in Intents : i = current[w]
    BY <1>1, <1>a DEF Settle
  <2>1. /\ status[i] = "dispatching"
        /\ status' = [status EXCEPT ![i] = "executed"]
        /\ posted' = [posted EXCEPT ![i] = @ + 1]
        /\ reservation' = [reservation EXCEPT ![i] = IF @ = "active" THEN "consumed" ELSE @]
    BY <1>1, <2>0 DEF Settle, Move
  <2>2. phase' = [phase EXCEPT ![i] = "settled"]
    BY <2>1, PhaseOfMove, PhaseValues
  <2>a. phase[i] = "committed"
    BY <2>1, PhaseValues DEF phase
  <2>b. /\ posted[i] = 0
        /\ reservation[i] = IF NeedsReservation(i) THEN "active" ELSE "none"
    BY <2>1, BooksOfDispatching
  <2>3. posted' = [posted EXCEPT ![i] = 1]
    BY <2>1, <2>b
  <2>4. reservation' = [reservation EXCEPT ![i] =
                           IF NeedsReservation(i) THEN "consumed" ELSE "none"]
    BY <2>1, <2>b
  <2>5. Settlement!Post(i)
    BY <2>1, <2>2, <2>a, <2>3, <2>4 DEF Settlement!Post
  <2> QED BY <2>1, <2>5 DEF Settlement!Advance
<1>2. CASE FailIntent(w)
  <2>0. PICK i \in Intents : i = current[w]
    BY <1>2, <1>a DEF FailIntent
  <2>1. /\ status[i] = "dispatching"
        /\ status' = [status EXCEPT ![i] = "failed"]
        /\ reservation' = [reservation EXCEPT ![i] = IF @ = "active" THEN "released" ELSE @]
        /\ UNCHANGED posted
    BY <1>2, <2>0 DEF FailIntent, Move
  <2>2. phase' = [phase EXCEPT ![i] = "failed"]
    BY <2>1, PhaseOfMove, PhaseValues
  <2>a. phase[i] = "committed"
    BY <2>1, PhaseValues DEF phase
  <2>b. /\ posted[i] = 0
        /\ reservation[i] = IF NeedsReservation(i) THEN "active" ELSE "none"
    BY <2>1, BooksOfDispatching
  <2>3. reservation' = [reservation EXCEPT ![i] =
                           IF NeedsReservation(i) THEN "released" ELSE "none"]
    BY <2>1, <2>b
  <2>4. Settlement!Fail(i)
    BY <2>1, <2>2, <2>a, <2>3 DEF Settlement!Fail
  <2> QED BY <2>1, <2>4 DEF Settlement!Advance
<1>3. CASE UNCHANGED ledgerVars
  BY <1>3, PhaseKept
<1>4. WorkerStep(w) \/ Abort(w) => Settle(w) \/ FailIntent(w) \/ UNCHANGED ledgerVars
  BY DEF WorkerStep, Reclaim, Start, Claim, Dispatch, RailAccepts, RailDeclines, RailTimesOut,
         RailReverts, Record, SettleAgain, SettleThrows, MarkSettled, FailIntentThrows,
         MarkFailed, Retry, Park, Announce, Abort
<1> QED BY <1>1, <1>2, <1>3, <1>4

\* The execution path implements PaymentSettlement whatever the workers, the
\* rails and the crashes do: each payment settles or fails at most once, is
\* posted exactly when it settles, and its hold follows.
THEOREM OutboxImplementsSettlement == Spec => ImplementsSettlement
<1>1. Init => Settlement!Start
  BY PhaseValues DEF Init, Settlement!Start, phase
<1>2. BooksInv /\ [Next]_vars => [Settlement!Advance]_(Settlement!settlementVars)
  <2>1. BooksInv /\ Chain => [Settlement!Advance]_(Settlement!settlementVars)
    BY PhaseKept DEF Chain, StrayLands, StrayIsDropped, Settlement!settlementVars
  <2>2. UNCHANGED vars => [Settlement!Advance]_(Settlement!settlementVars)
    BY PhaseKept DEF vars, Settlement!settlementVars
  <2> QED BY <2>1, <2>2, RequestSimulates, WorkerSimulates DEF Next
<1> QED BY <1>1, <1>2, BooksInvariant, PTL DEF Spec, ImplementsSettlement, Settlement!Spec

----------------------------------------------------------------------------
(* The kill-switch.                                                         *)

\* A step of a worker or of the chain keeps a halted intent halted and its
\* money where it is.
LEMMA HaltedKept ==
  ASSUME TypeOK, NEW i \in Intents, Halted(i),
         Chain \/ \E w \in Workers : WorkerStep(w) \/ Abort(w)
  PROVE  moved'[i] = moved[i] /\ Halted(i)'
<1> USE DEF Halted, AgentActive, TypeOK
<1>1. CASE Chain
  <2>1. PICK j \in Intents : StrayLands(j) \/ StrayIsDropped(j)
    BY <1>1 DEF Chain
  <2>2. j # i
    BY <2>1 DEF StrayLands, StrayIsDropped
  <2> QED BY <2>1, <2>2 DEF StrayLands, StrayIsDropped, Transfer
<1>2. ASSUME NEW w \in Workers, WorkerStep(w) \/ Abort(w)
      PROVE  moved'[i] = moved[i] /\ Halted(i)'
  <2>a. NoIntent # i
    BY ActorsAssumption
  <2> USE DEF Goto
  <2>1. CASE RailAccepts(w) \/ RailTimesOut(w) \/ RailDeclines(w) \/ RailReverts(w)
    <3>1. current[w] \in Intents /\ current[w] # i
      BY <2>1 DEF RailAccepts, RailTimesOut, RailDeclines, RailReverts
    <3>2. moved'[i] = moved[i] /\ i \notin stray'
      BY <2>1, <3>1 DEF RailAccepts, RailTimesOut, RailDeclines, RailReverts, Transfer, LeaveStray
    <3>3. /\ UNCHANGED <<agentState, current>>
          /\ \E l \in {"received", "park", "retry", "fail_intent"} : pc' = [pc EXCEPT ![w] = l]
      BY <2>1 DEF RailAccepts, RailTimesOut, RailDeclines, RailReverts, LeaveCall
    <3> QED BY <3>2, <3>3
  <2>2. CASE Abort(w)
    <3>1. moved'[i] = moved[i] /\ i \notin stray'
      BY <2>2 DEF Abort, LeaveStray
    <3> QED BY <2>2, <3>1, <2>a DEF Abort, LeaveCall
  <2>3. ASSUME NEW j \in Intents, Start(w, j)
        PROVE  moved'[i] = moved[i] /\ Halted(i)'
    <3>1. CASE j = i
      BY <2>3, <3>1 DEF Start
    <3>2. CASE j # i
      BY <2>3, <3>2 DEF Start
    <3> QED BY <3>1, <3>2
  <2>4. CASE \/ \E j \in Intents : Reclaim(w, j)
             \/ Claim(w) \/ Dispatch(w)
             \/ Record(w) \/ Settle(w) \/ SettleAgain(w) \/ SettleThrows(w)
             \/ FailIntent(w) \/ FailIntentThrows(w)
    BY <2>4 DEF Reclaim, Claim, Dispatch, Record, Settle, SettleAgain, SettleThrows,
                FailIntent, FailIntentThrows
  <2>5. CASE MarkSettled(w) \/ MarkFailed(w) \/ Retry(w) \/ Park(w) \/ Announce(w)
    BY <2>5, <2>a DEF MarkSettled, MarkFailed, Retry, Park, Announce, GiveUpOrFinish, Finish
  <2> QED BY <1>2, <2>1, <2>2, <2>3, <2>4, <2>5 DEF WorkerStep
<1> QED BY <1>1, <1>2

\* The kill-switch holds in every behaviour: a halted intent's money stays where
\* it is until its agent is restored.
THEOREM HaltHolds == Spec => HaltIsEffective
<1>1. TypeOK /\ [Next]_vars =>
        [\A i \in Intents :
            Halted(i) => moved'[i] = moved[i] /\ (Halted(i)' \/ AgentActive(i)')]_vars
  <2> SUFFICES ASSUME TypeOK, Next, NEW i \in Intents, Halted(i)
               PROVE  moved'[i] = moved[i] /\ (Halted(i)' \/ AgentActive(i)')
    OBVIOUS
  <2>1. CASE Request
    <3>1. UNCHANGED <<moved, stray, pc, current>>
      BY <2>1 DEF Request, Gate, Handoff, HandoffAborts, Pause, Reject, ResumeGate, Resume,
                  HaltAgent, RestoreAgent
    <3> QED BY <3>1 DEF Halted
  <2> QED BY <2>1, HaltedKept DEF Next
<1> QED BY <1>1, TypeCorrect, PTL DEF Spec, HaltIsEffective

----------------------------------------------------------------------------
(* The money trail.                                                         *)

\* No step undoes a hand-off.
LEMMA HandedOffStays ==
  ASSUME BooksInv, Next, NEW i \in Intents, HandedOff(i)
  PROVE  HandedOff(i)'
<1> USE DEF BooksInv, TypeOK
<1>1. CASE Request
  BY <1>1 DEF Request, Gate, Handoff, HandoffAborts, Pause, Reject, ResumeGate, Resume, Move,
              HaltAgent, RestoreAgent, HandedOff
<1>2. CASE Chain
  BY <1>2 DEF Chain, StrayLands, StrayIsDropped, HandedOff
<1>3. ASSUME NEW w \in Workers, WorkerStep(w) \/ Abort(w) PROVE HandedOff(i)'
  BY <1>3 DEF WorkerStep, Reclaim, Start, Claim, Dispatch, RailAccepts, RailDeclines,
         RailTimesOut, RailReverts, Record, Settle, SettleAgain, SettleThrows, MarkSettled,
         FailIntent, FailIntentThrows, Move, MarkFailed, Retry, Park, Announce, Abort, HandedOff
<1> QED BY <1>1, <1>2, <1>3 DEF Next

\* The parts of MoneyInv that a step of the chain or of a rail call disturbs.
LEMMA TransferKeepsMoney ==
  ASSUME MoneyInv, NEW i \in Intents, HandedOff(i), Transfer(i)
  PROVE  /\ moved' \in [Intents -> Nat] /\ moved'[i] > 0
         /\ stray' \subseteq stray
         /\ \A j \in Intents : moved[j] > 0 => moved'[j] > 0
         /\ \A j \in Intents : moved'[j] > 0 => moved[j] > 0 \/ j = i
  BY DEF MoneyInv, BooksInv, TypeOK, Transfer

\* Every step preserves the money trail.
LEMMA MoneyStep ==
  ASSUME MoneyInv, Next
  PROVE  NoPaymentWithoutMoney' /\ MoneyTrail'
<1> USE DEF MoneyInv, BooksInv
<1>h. \A i \in Intents : HandedOff(i) => HandedOff(i)'
  BY HandedOffStays
<1>n. NoIntent \notin Intents
  BY ActorsAssumption
<1>1. CASE Request
  <2>1. /\ UNCHANGED <<receipt, moved, stray, workerVars>>
        /\ \A i \in Intents : status'[i] = "executed" => status[i] = "executed"
    BY <1>1 DEF Request, Gate, Handoff, HandoffAborts, Pause, Reject, ResumeGate, Resume, Move,
                HaltAgent, RestoreAgent, TypeOK
  <2> QED BY <2>1, <1>h DEF NoPaymentWithoutMoney, MoneyTrail
<1>2. CASE Chain
  <2>1. PICK i \in Intents : StrayLands(i) \/ StrayIsDropped(i)
    BY <1>2 DEF Chain
  <2>2. i \in stray /\ HandedOff(i) /\ UNCHANGED <<status, receipt, workerVars>>
    BY <2>1 DEF StrayLands, StrayIsDropped, NoPaymentWithoutMoney
  <2>3. /\ stray' \subseteq stray
        /\ \A j \in Intents : moved[j] > 0 => moved'[j] > 0
        /\ \A j \in Intents : moved'[j] > 0 => moved[j] > 0 \/ j = i
    BY <2>1, <2>2, TransferKeepsMoney DEF StrayLands, StrayIsDropped
  <2>4. NoPaymentWithoutMoney'
    BY <2>2, <2>3, <1>h DEF NoPaymentWithoutMoney
  <2>5. MoneyTrail'
    <3>1. \A w \in Workers : pc[w] = "received" => current[w] \in Intents
      BY DEF TypeOK
    <3> QED BY <2>2, <2>3, <3>1 DEF MoneyTrail
  <2> QED BY <2>4, <2>5
<1>3. ASSUME NEW w \in Workers, WorkerStep(w) \/ Abort(w)
      PROVE  NoPaymentWithoutMoney' /\ MoneyTrail'
  <2>a. \A v \in Workers : pc[v] # "idle" => current[v] \in Intents /\ HandedOff(current[v])
    BY DEF TypeOK, RowsHandedOff, Holds
  <2> USE DEF Goto
  <2>1. CASE RailAccepts(w)
    <3>1. PICK i \in Intents : i = current[w] /\ HandedOff(i) /\ Transfer(i)
      BY <2>1, <2>a DEF RailAccepts
    <3>2. /\ moved'[i] > 0
          /\ stray' \subseteq stray
          /\ \A j \in Intents : moved[j] > 0 => moved'[j] > 0
          /\ \A j \in Intents : moved'[j] > 0 => moved[j] > 0 \/ j = i
      BY <3>1, TransferKeepsMoney
    <3>3. /\ UNCHANGED <<status, receipt, current, resumed>>
          /\ \E l \in {"received", "park"} : pc' = [pc EXCEPT ![w] = l]
      BY <2>1 DEF RailAccepts, LeaveCall
    <3>4. NoPaymentWithoutMoney'
      BY <3>1, <3>2, <3>3, <1>h DEF NoPaymentWithoutMoney
    <3>5. MoneyTrail'
      BY <3>1, <3>2, <3>3, <2>a DEF MoneyTrail, TypeOK
    <3> QED BY <3>4, <3>5
  <2>2. CASE RailTimesOut(w) \/ RailDeclines(w) \/ RailReverts(w)
    <3>1. /\ UNCHANGED <<status, receipt, current, resumed, moved>>
          /\ stray' \subseteq stray \cup {current[w]}
          /\ pc[w] = "calling"
          /\ \E l \in {"retry", "fail_intent"} : pc' = [pc EXCEPT ![w] = l]
      BY <2>2 DEF RailTimesOut, RailDeclines, RailReverts, LeaveCall, LeaveStray
    <3> QED BY <3>1, <2>a, <1>h DEF NoPaymentWithoutMoney, MoneyTrail, TypeOK
  <2>3. CASE Abort(w)
    <3>1. /\ UNCHANGED <<status, receipt, moved>>
          /\ stray' \subseteq stray \/ stray' \subseteq stray \cup {current[w]}
          /\ stray' # stray => pc[w] = "calling"
          /\ pc' = [pc EXCEPT ![w] = "idle"]
          /\ current' = [current EXCEPT ![w] = NoIntent]
          /\ resumed' = [resumed EXCEPT ![w] = {}]
      BY <2>3 DEF Abort, LeaveCall, LeaveStray
    <3> QED BY <3>1, <2>a, <1>h DEF NoPaymentWithoutMoney, MoneyTrail, TypeOK
  <2>4. CASE Record(w)
    <3>1. PICK i \in Intents : i = current[w] /\ moved[i] > 0
      BY <2>4, <2>a DEF Record, MoneyTrail
    <3>2. /\ UNCHANGED <<status, moved, stray, current, resumed>>
          /\ receipt' = [receipt EXCEPT ![i] = TRUE]
          /\ pc' = [pc EXCEPT ![w] = "settle"]
      BY <2>4, <3>1 DEF Record
    <3> QED BY <3>1, <3>2, <2>a, <1>h DEF NoPaymentWithoutMoney, MoneyTrail, TypeOK
  <2>5. CASE Settle(w)
    <3>1. PICK i \in Intents : i = current[w] /\ receipt[i]
      BY <2>5, <2>a DEF Settle, MoneyTrail
    <3>2. /\ UNCHANGED <<receipt, moved, stray, current, resumed>>
          /\ status' = [status EXCEPT ![i] = "executed"]
          /\ \E l \in {"mark_settled", "retry"} : pc' = [pc EXCEPT ![w] = l]
      BY <2>5, <3>1 DEF Settle, Move
    <3> QED BY <3>1, <3>2, <1>h DEF NoPaymentWithoutMoney, MoneyTrail, TypeOK
  <2>6. CASE FailIntent(w)
    <3>1. PICK i \in Intents : i = current[w]
      BY <2>6, <2>a DEF FailIntent
    <3>2. /\ UNCHANGED <<receipt, moved, stray, current, resumed>>
          /\ status' = [status EXCEPT ![i] = "failed"]
          /\ \E l \in {"mark_failed", "park"} : pc' = [pc EXCEPT ![w] = l]
      BY <2>6, <3>1 DEF FailIntent, Move
    <3> QED BY <3>1, <3>2, <1>h DEF NoPaymentWithoutMoney, MoneyTrail, TypeOK
  <2>7. CASE MarkSettled(w) \/ MarkFailed(w) \/ Retry(w) \/ Park(w) \/ Announce(w)
    <3>1. /\ UNCHANGED <<status, receipt, moved, stray>>
          /\ \/ /\ pc' = [pc EXCEPT ![w] = "announce"]
                /\ UNCHANGED <<current, resumed>>
             \/ /\ pc' = [pc EXCEPT ![w] = "idle"]
                /\ current' = [current EXCEPT ![w] = NoIntent]
                /\ resumed' = [resumed EXCEPT ![w] = @ \ {current[w]}]
      BY <2>7 DEF MarkSettled, MarkFailed, Retry, Park, Announce, GiveUpOrFinish, Finish
    <3> QED BY <3>1, <1>h DEF NoPaymentWithoutMoney, MoneyTrail, TypeOK
  <2>8. CASE Dispatch(w) \/ SettleAgain(w) \/ SettleThrows(w) \/ FailIntentThrows(w)
    <3>1. /\ UNCHANGED <<status, receipt, moved, stray, current, resumed>>
          /\ \E l \in {"calling", "mark_settled", "retry", "park"} : pc' = [pc EXCEPT ![w] = l]
      BY <2>8 DEF Dispatch, SettleAgain, SettleThrows, FailIntentThrows
    <3> QED BY <3>1, <1>h DEF NoPaymentWithoutMoney, MoneyTrail, TypeOK
  <2>9. ASSUME NEW i \in Intents, Reclaim(w, i)
        PROVE  NoPaymentWithoutMoney' /\ MoneyTrail'
    BY <2>9, <1>h DEF Reclaim, NoPaymentWithoutMoney, MoneyTrail
  <2>10. CASE Claim(w)
    <3>1. /\ UNCHANGED <<status, receipt, moved, stray, pc, current>>
          /\ \E S \in SUBSET Intents : resumed' = [resumed EXCEPT ![w] = {i \in S : receipt[i]}]
      BY <2>10 DEF Claim
    <3> QED BY <3>1, <1>h DEF NoPaymentWithoutMoney, MoneyTrail, TypeOK
  <2>11. ASSUME NEW i \in Intents, Start(w, i)
         PROVE  NoPaymentWithoutMoney' /\ MoneyTrail'
    <3>1. /\ UNCHANGED <<status, receipt, moved, stray, resumed>>
          /\ pc[w] = "idle"
          /\ current' = [current EXCEPT ![w] = i]
          /\ \/ pc' = [pc EXCEPT ![w] = "settle"] /\ i \in resumed[w]
             \/ \E l \in {"guarded", "park"} : pc' = [pc EXCEPT ![w] = l]
      BY <2>11 DEF Start
    <3> QED BY <3>1, <1>h DEF NoPaymentWithoutMoney, MoneyTrail, TypeOK
  <2> QED BY <1>3, <2>1, <2>2, <2>3, <2>4, <2>5, <2>6, <2>7, <2>8, <2>9, <2>10, <2>11
          DEF WorkerStep
<1> QED BY <1>1, <1>2, <1>3 DEF Next

\* MoneyInv is an inductive invariant.
LEMMA MoneyInvariant == Spec => []MoneyInv
<1>1. Init /\ BooksInv => MoneyInv
  BY ActorsAssumption DEF Init, MoneyInv, NoPaymentWithoutMoney, MoneyTrail
<1>2. MoneyInv /\ [Next]_vars /\ BooksInv' => MoneyInv'
  <2>1. MoneyInv /\ Next => NoPaymentWithoutMoney' /\ MoneyTrail'
    BY MoneyStep
  <2>2. MoneyInv /\ UNCHANGED vars => NoPaymentWithoutMoney' /\ MoneyTrail'
    BY DEF MoneyInv, NoPaymentWithoutMoney, MoneyTrail, HandedOff, vars
  <2> QED BY <2>1, <2>2 DEF MoneyInv
<1> QED BY <1>1, <1>2, BooksInvariant, PTL DEF Spec

\* No intent is executed, and no receipt stored, without the money having moved;
\* and none moves before the hand-off.
THEOREM MoneyBehindEveryPayment == Spec => []NoPaymentWithoutMoney
  BY MoneyInvariant, PTL DEF MoneyInv

----------------------------------------------------------------------------
(* Workers that finish a row before its lock is stale.  A claim is          *)
(* exclusive because a claimed row is in flight under its holder's lock,    *)
(* which reclaimStale then leaves alone.                                    *)

\* What a busy worker knows of its row.
LEMMA OwnRow ==
  ASSUME TimelyInv, NEW w \in Workers, pc[w] # "idle"
  PROVE  \E i \in Intents :
            /\ i = current[w]
            /\ \A v \in Workers : i \notin batch[v]
            /\ \A v \in Workers \ {w} : current[v] # i
            /\ pc[w] # "announce" => InFlight(i) /\ lockedBy[i] = w
<1>1. current[w] \in Intents
  BY BusyWorkerHasRow DEF TimelyInv, MoneyInv, BooksInv
<1>2. Holds(w, current[w])
  BY DEF Holds
<1> QED BY <1>1, <1>2 DEF TimelyInv, ClaimInv, ExclusiveClaim, FreshSnapshots, Announcing, Holds

\* A step that changes neither rows nor workers, and finishes no finished
\* intent, preserves the claims.
LEMMA ClaimsKept ==
  ASSUME ClaimInv, UNCHANGED <<rowVars, workerVars>>, TypeOK,
         \A i \in Intents : status[i] \in {"executed", "failed"} => status'[i] = status[i]
  PROVE  ClaimInv'
<1>1. \A w \in Workers : pc[w] # "idle" => current[w] \in Intents
  BY DEF TypeOK
<1> QED BY <1>1 DEF ClaimInv, ExclusiveClaim, LocksVisible, FreshSnapshots, RowsMatchIntents,
                    Holds, Announcing, InFlight

\* Every step of timely workers preserves the claims.
LEMMA ClaimStep ==
  ASSUME SlowWorkers = {}, TimelyInv, TypeOK', Next
  PROVE  ClaimInv'
<1> USE DEF TimelyInv, MoneyInv, BooksInv
<1>n. NoIntent \notin Intents /\ NoWorker \notin Workers
  BY ActorsAssumption
<1>1. CASE Request \/ Chain
  <2>1. /\ UNCHANGED <<rowStatus, workerVars, attempts, receipt, lockedBy>>
           \/ \E i \in Intents : Handoff(i)
        /\ \A i \in Intents : status[i] \in {"executed", "failed"} => status'[i] = status[i]
    BY <1>1 DEF Request, Gate, Handoff, HandoffAborts, Pause, Reject, ResumeGate, Resume, Move,
           HaltAgent, RestoreAgent, Chain, StrayLands, StrayIsDropped, TypeOK
  <2>2. ASSUME NEW i \in Intents, Handoff(i) PROVE ClaimInv'
    <3>1. /\ status[i] = "approved"
          /\ rowStatus' = [rowStatus EXCEPT ![i] = "pending"]
          /\ UNCHANGED <<attempts, receipt, lockedBy, workerVars>>
      BY <2>2 DEF Handoff
    <3>2. \A v \in Workers : i \notin batch[v] /\ current[v] # i
      BY <3>1 DEF RowsHandedOff, HandedOff, Holds
    <3>3. \A v \in Workers : pc[v] # "idle" => current[v] \in Intents
      BY DEF TypeOK
    <3> QED BY <2>1, <3>1, <3>2, <3>3
            DEF ClaimInv, ExclusiveClaim, LocksVisible, FreshSnapshots, RowsMatchIntents,
                Holds, Announcing, InFlight, TypeOK
  <2> QED BY <2>1, <2>2, ClaimsKept
<1>2. ASSUME NEW w \in Workers, WorkerStep(w) \/ Abort(w) PROVE ClaimInv'
  <2>a. \A v \in Workers : pc[v] # "idle" => current[v] \in Intents
    BY DEF TypeOK
  <2> USE DEF Goto
  <2>1. CASE \/ Dispatch(w) \/ RailAccepts(w) \/ RailDeclines(w) \/ RailTimesOut(w)
             \/ RailReverts(w) \/ SettleThrows(w) \/ FailIntentThrows(w) \/ SettleAgain(w)
    <3>1. /\ UNCHANGED <<status, rowStatus, attempts, receipt, lockedBy, current, batch, resumed>>
          /\ pc[w] \notin {"idle", "announce"}
          /\ \/ pc[w] = "guarded" /\ pc' = [pc EXCEPT ![w] = "calling"]
             \/ \E l \in {"received", "park", "retry", "fail_intent"} : pc' = [pc EXCEPT ![w] = l]
             \/ status[current[w]] = "executed" /\ pc' = [pc EXCEPT ![w] = "mark_settled"]
      BY <2>1 DEF Dispatch, RailAccepts, RailDeclines, RailTimesOut, RailReverts, SettleThrows,
                  FailIntentThrows, SettleAgain, LeaveCall
    <3> QED BY <3>1, <2>a DEF ClaimInv, ExclusiveClaim, LocksVisible, FreshSnapshots, RowsMatchIntents,
            Holds, Announcing, InFlight, TypeOK
  <2>2. CASE Settle(w) \/ FailIntent(w)
    <3>0. pc[w] # "idle"
      BY <2>2 DEF Settle, FailIntent
    <3>1. PICK i \in Intents : i = current[w] /\ \A v \in Workers \ {w} : current[v] # i
      BY <3>0, OwnRow
    <3>2. /\ UNCHANGED <<rowStatus, attempts, receipt, lockedBy, current, batch, resumed>>
          /\ pc[w] \notin {"idle", "announce"}
          /\ status[i] = "dispatching"
          /\ \/ /\ status' = [status EXCEPT ![i] = "executed"]
                /\ \E l \in {"mark_settled", "retry"} : pc' = [pc EXCEPT ![w] = l]
             \/ /\ status' = [status EXCEPT ![i] = "failed"]
                /\ \E l \in {"mark_failed", "park"} : pc' = [pc EXCEPT ![w] = l]
      BY <2>2, <3>1 DEF Settle, FailIntent, Move
    <3> QED BY <3>1, <3>2, <2>a DEF ClaimInv, ExclusiveClaim, LocksVisible, FreshSnapshots, RowsMatchIntents,
            Holds, Announcing, InFlight, TypeOK
  <2>3. CASE Record(w)
    <3>0. pc[w] = "received"
      BY <2>3 DEF Record
    <3>1. PICK i \in Intents :
            /\ i = current[w]
            /\ \A v \in Workers : i \notin batch[v]
            /\ \A v \in Workers \ {w} : current[v] # i
            /\ InFlight(i) /\ lockedBy[i] = w
      BY <3>0, OwnRow
    <3>2. /\ UNCHANGED <<status, attempts, lockedBy, current, batch, resumed>>
          /\ rowStatus' = [rowStatus EXCEPT ![i] = "dispatched"]
          /\ receipt' = [receipt EXCEPT ![i] = TRUE]
          /\ pc' = [pc EXCEPT ![w] = "settle"]
      BY <2>3, <3>1 DEF Record
    <3> QED BY <3>0, <3>1, <3>2, <2>a DEF ClaimInv, ExclusiveClaim, LocksVisible, FreshSnapshots, RowsMatchIntents,
            Holds, Announcing, InFlight, TypeOK
  <2>4. CASE MarkSettled(w) \/ MarkFailed(w) \/ Retry(w) \/ Park(w)
    <3>0. pc[w] \in {"mark_settled", "mark_failed", "retry", "park"}
      BY <2>4 DEF MarkSettled, MarkFailed, Retry, Park
    <3>1. PICK i \in Intents :
            /\ i = current[w]
            /\ \A v \in Workers : i \notin batch[v]
            /\ \A v \in Workers \ {w} : current[v] # i
      BY <3>0, OwnRow
    <3>2. UNCHANGED <<status, receipt, batch>>
      BY <2>4 DEF MarkSettled, MarkFailed, Retry, Park
    <3>3. \/ rowStatus' = [rowStatus EXCEPT ![i] = "settled"] /\ status[i] = "executed"
          \/ rowStatus' = [rowStatus EXCEPT ![i] = "failed"] /\ status[i] = "failed"
          \/ rowStatus' = [rowStatus EXCEPT ![i] = "pending"]
          \/ rowStatus' = [rowStatus EXCEPT ![i] = "reconciling"]
      BY <2>4, <3>1 DEF MarkSettled, MarkFailed, Retry, Park, ClaimInv, RowsMatchIntents
    <3>4. \/ UNCHANGED <<attempts, lockedBy>>
          \/ /\ attempts' = [attempts EXCEPT ![i] = @ + 1]
             /\ lockedBy' = [lockedBy EXCEPT ![i] = NoWorker]
      BY <2>4, <3>1 DEF MarkSettled, MarkFailed, Retry, Park, CountAttempt
    <3>5. \/ /\ pc' = [pc EXCEPT ![w] = "idle"]
             /\ current' = [current EXCEPT ![w] = NoIntent]
             /\ resumed' = [resumed EXCEPT ![w] = @ \ {i}]
          \/ /\ pc' = [pc EXCEPT ![w] = "announce"]
             /\ UNCHANGED <<current, resumed>>
             /\ attempts'[i] >= MaxTotalAttempts
             /\ rowStatus' = [rowStatus EXCEPT ![i] = "reconciling"]
      <4>1. CASE MarkSettled(w) \/ MarkFailed(w)
        BY <4>1, <3>1 DEF MarkSettled, MarkFailed, Finish
      <4>2. CASE Retry(w) \/ Park(w)
        <5>1. attempts[i] \in Nat /\ attempts'[i] = attempts[i] + 1
          BY <4>2, <3>1 DEF Retry, Park, CountAttempt, TypeOK
        <5>2. CASE attempts[i] + 1 >= MaxTotalAttempts
          <6>1. attempts[i] + 1 >= MaxDispatchAttempts
            BY <5>1, <5>2, BoundsAssumption
          <6> QED BY <4>2, <3>1, <5>1, <5>2, <6>1 DEF Retry, Park, GiveUpOrFinish
        <5>3. CASE ~(attempts[i] + 1 >= MaxTotalAttempts)
          BY <4>2, <3>1, <5>3 DEF Retry, Park, GiveUpOrFinish, Finish
        <5> QED BY <5>2, <5>3
      <4> QED BY <2>4, <4>1, <4>2
    <3>6. \A v \in Workers : v # w =>
             pc'[v] = pc[v] /\ current'[v] = current[v] /\ resumed'[v] = resumed[v]
      BY <3>5 DEF TypeOK
    <3>7. \A j \in Intents : j # i =>
             /\ rowStatus'[j] = rowStatus[j] /\ attempts'[j] = attempts[j]
             /\ lockedBy'[j] = lockedBy[j]
      BY <3>3, <3>4 DEF TypeOK
    <3>8. ExclusiveClaim'
      <4>1. \A v \in Workers : \A j \in Intents : Holds(v, j)' => Holds(v, j)
        BY <3>2, <3>5, <3>6, <1>n DEF Holds, TypeOK
      <4>2. \A v \in Workers : Holds(v, i)' => v = w /\ Announcing(w, i)'
        BY <3>1, <3>2, <3>5, <3>6, <1>n DEF Holds, Announcing, TypeOK
      <4>3. \A v \in Workers : \A j \in Intents \ {i} :
               /\ Announcing(v, j)' <=> Announcing(v, j)
               /\ InFlight(j)' <=> InFlight(j)
               /\ lockedBy'[j] = lockedBy[j]
        BY <3>1, <3>5, <3>6, <3>7, <1>n DEF Announcing, InFlight, TypeOK
      <4>4. ASSUME NEW j \in Intents, NEW v \in Workers, Holds(v, j)'
            PROVE  /\ \A u \in Workers \ {v} : ~Holds(u, j)'
                   /\ ~Announcing(v, j)' => InFlight(j)' /\ lockedBy'[j] = v
        <5>1. CASE j = i
          BY <4>2, <4>4, <5>1
        <5>2. CASE j # i
          BY <4>1, <4>3, <4>4, <5>2 DEF ClaimInv, ExclusiveClaim
        <5> QED BY <5>1, <5>2
      <4> QED BY <4>4 DEF ExclusiveClaim
    <3>9. LocksVisible'
      BY <3>2, <3>3, <3>7 DEF ClaimInv, LocksVisible, InFlight, TypeOK
    <3>10. FreshSnapshots'
      BY <3>1, <3>2, <3>5, <3>6, <1>n DEF ClaimInv, FreshSnapshots, TypeOK
    <3>11. RowsMatchIntents'
      BY <3>1, <3>2, <3>5, <3>6, <3>7, <2>a DEF ClaimInv, RowsMatchIntents, TypeOK
    <3> QED BY <3>8, <3>9, <3>10, <3>11 DEF ClaimInv
  <2>5. CASE Announce(w)
    <3>1. /\ UNCHANGED <<status, rowStatus, attempts, receipt, lockedBy, batch>>
          /\ pc' = [pc EXCEPT ![w] = "idle"]
          /\ current' = [current EXCEPT ![w] = NoIntent]
          /\ resumed' = [resumed EXCEPT ![w] = @ \ {current[w]}]
      BY <2>5 DEF Announce, Finish
    <3> QED BY <3>1, <2>a, <1>n DEF ClaimInv, ExclusiveClaim, LocksVisible, FreshSnapshots, RowsMatchIntents,
            Holds, Announcing, InFlight, TypeOK
  <2>6. CASE Abort(w)
    <3>1. /\ UNCHANGED <<status, rowStatus, attempts, receipt, lockedBy>>
          /\ pc' = [pc EXCEPT ![w] = "idle"]
          /\ current' = [current EXCEPT ![w] = NoIntent]
          /\ resumed' = [resumed EXCEPT ![w] = {}]
          /\ batch' = [batch EXCEPT ![w] = {}]
      BY <2>6 DEF Abort, LeaveCall
    <3> QED BY <3>1, <2>a, <1>n DEF ClaimInv, ExclusiveClaim, LocksVisible, FreshSnapshots, RowsMatchIntents,
            Holds, Announcing, InFlight, TypeOK
  <2>7. ASSUME NEW i \in Intents, Start(w, i) PROVE ClaimInv'
    <3>1. /\ UNCHANGED <<status, rowStatus, attempts, receipt, lockedBy, resumed>>
          /\ i \in batch[w] /\ pc[w] = "idle"
          /\ batch' = [batch EXCEPT ![w] = @ \ {i}]
          /\ current' = [current EXCEPT ![w] = i]
          /\ \/ pc' = [pc EXCEPT ![w] = "settle"]
             \/ pc' = [pc EXCEPT ![w] = "park"]
             \/ pc' = [pc EXCEPT ![w] = "guarded"] /\ i \notin resumed[w]
      BY <2>7 DEF Start
    <3>2. current[w] = NoIntent /\ Holds(w, i)
      BY <3>1 DEF TypeOK, Holds
    <3> QED BY <3>1, <3>2, <2>a, <1>n DEF ClaimInv, ExclusiveClaim, LocksVisible, FreshSnapshots, RowsMatchIntents,
            Holds, Announcing, InFlight, TypeOK
  <2>8. ASSUME NEW i \in Intents, Reclaim(w, i) PROVE ClaimInv'
    <3>1. PICK v \in Workers : lockedBy[i] = v /\ ~Holds(v, i)
      BY <2>8 DEF Reclaim, LockStale
    <3>2. \A u \in Workers : Holds(u, i) => Announcing(u, i)
      BY <3>1 DEF ClaimInv, ExclusiveClaim
    <3>3. \A u \in Workers : ~Holds(u, i)
      BY <3>2, <2>8 DEF Reclaim, InFlight, Announcing, ClaimInv, RowsMatchIntents
    <3>4. /\ UNCHANGED <<status, attempts, receipt, workerVars>>
          /\ rowStatus' = [rowStatus EXCEPT ![i] = "pending"]
          /\ lockedBy' = [lockedBy EXCEPT ![i] = NoWorker]
      BY <2>8 DEF Reclaim
    <3> QED BY <3>3, <3>4, <2>a DEF ClaimInv, ExclusiveClaim, LocksVisible, FreshSnapshots, RowsMatchIntents,
            Holds, Announcing, InFlight, TypeOK
  <2>9. CASE Claim(w)
    <3>1. PICK S \in SUBSET {i \in Intents : Claimable(i)} :
            /\ rowStatus' = [i \in Intents |-> IF i \in S THEN "dispatching" ELSE rowStatus[i]]
            /\ lockedBy' = [i \in Intents |-> IF i \in S THEN w ELSE lockedBy[i]]
            /\ batch' = [batch EXCEPT ![w] = S]
            /\ resumed' = [resumed EXCEPT ![w] = {i \in S : receipt[i]}]
      BY <2>9 DEF Claim
    <3>2. UNCHANGED <<status, attempts, receipt, pc, current>> /\ pc[w] = "idle" /\ batch[w] = {}
      BY <2>9 DEF Claim
    <3>3. ASSUME NEW i \in S, NEW v \in Workers PROVE ~Holds(v, i)
      <4>1. i \in Intents /\ Claimable(i)
        BY <3>1
      <4>2. ~InFlight(i)
        BY <4>1 DEF Claimable, InFlight
      <4>3. attempts[i] \in Nat /\ MaxTotalAttempts \in Nat
        BY <4>1, BoundsAssumption DEF TypeOK
      <4>4. ~(attempts[i] >= MaxTotalAttempts)
        BY <4>1, <4>3 DEF Claimable
      <4>5. ~Announcing(v, i)
        BY <4>4 DEF ClaimInv, RowsMatchIntents, Announcing
      <4> QED BY <4>1, <4>2, <4>5 DEF ClaimInv, ExclusiveClaim
    <3>4. S \subseteq Intents
      BY <3>1
    <3> QED BY <3>1, <3>2, <3>3, <3>4, <2>a DEF ClaimInv, ExclusiveClaim, LocksVisible, FreshSnapshots, RowsMatchIntents,
            Holds, Announcing, InFlight, TypeOK
  <2> QED BY <1>2, <2>1, <2>2, <2>3, <2>4, <2>5, <2>6, <2>7, <2>8, <2>9 DEF WorkerStep
<1> QED BY <1>1, <1>2 DEF Next

\* With timely workers the claims are exclusive, rows stay recoverable and
\* receipts keep workers off the rail: TimelyInv is inductive.
LEMMA TimelyInvariant == ASSUME SlowWorkers = {} PROVE Spec => []TimelyInv
<1>1. Init /\ MoneyInv => TimelyInv
  <2>1. NoIntent \notin Intents
    BY ActorsAssumption
  <2> QED BY <2>1 DEF Init, TimelyInv, ClaimInv, ExclusiveClaim, LocksVisible, FreshSnapshots,
                      RowsMatchIntents, Holds, InFlight
<1>2. TimelyInv /\ [Next]_vars /\ MoneyInv' => TimelyInv'
  <2>1. TimelyInv /\ Next /\ MoneyInv' => ClaimInv'
    BY ClaimStep DEF MoneyInv, BooksInv
  <2>2. TimelyInv /\ UNCHANGED vars => ClaimInv'
    <3> SUFFICES ASSUME TimelyInv, UNCHANGED vars PROVE ClaimInv'
      OBVIOUS
    <3>1. UNCHANGED <<rowVars, workerVars, status>>
      BY DEF vars
    <3> QED BY <3>1, ClaimsKept DEF TimelyInv, MoneyInv, BooksInv
  <2> QED BY <2>1, <2>2 DEF TimelyInv
<1> QED BY <1>1, <1>2, MoneyInvariant, PTL DEF Spec

\* A row is processed by one worker, which has it in flight and locked, however
\* many workers claim, reclaim, retry and crash.
THEOREM ClaimsAreExclusive == ASSUME SlowWorkers = {} PROVE Spec => []ExclusiveClaim
  BY TimelyInvariant, PTL DEF TimelyInv, ClaimInv

\* F4: a stored receipt keeps every worker off the rail.
THEOREM ReceiptsStopRails == ASSUME SlowWorkers = {} PROVE Spec => []ReceiptStopsRail
<1>1. TimelyInv => ReceiptStopsRail
  BY DEF TimelyInv, ClaimInv, FreshSnapshots, ReceiptStopsRail
<1> QED BY <1>1, TimelyInvariant, PTL

----------------------------------------------------------------------------
(* What money moves twice for.  A step lets an intent rest, begins to       *)
(* account for one movement of it, or counts an attempt or an abort.        *)

\* Movements of i, made and on their way.
Debt(i) == moved[i] + (IF i \in stray THEN 1 ELSE 0)

\* One movement of i is what its receipt, or the worker past the rail, is about.
Accounted(i) == receipt[i] \/ \E w \in Workers : current[w] = i /\ pc[w] \in PastRail

Paid(i) == Debt(i) <= attempts[i] + aborts + (IF Accounted(i) THEN 1 ELSE 0)

\* Nothing of i moves, and what was accounted for stays so.
Rests(i) ==
    /\ Debt(i)' <= Debt(i)
    /\ attempts'[i] = attempts[i] /\ aborts' = aborts
    /\ Accounted(i) => Accounted(i)'

\* A transfer of i begins to be accounted for.
Reaches(i) ==
    /\ Debt(i)' <= Debt(i) + 1
    /\ attempts'[i] = attempts[i] /\ aborts' = aborts
    /\ ~Accounted(i) /\ Accounted(i)'

\* An attempt is counted, or a cycle abandoned, for at most one movement.
Pays(i) ==
    /\ attempts'[i] + aborts' = attempts[i] + aborts + 1
    /\ \/ Debt(i)' <= Debt(i)
       \/ Debt(i)' <= Debt(i) + 1 /\ (Accounted(i) => Accounted(i)')

\* The three ways a step can treat i keep it paid for.
LEMMA PaidKept ==
  ASSUME TypeOK, TypeOK', NEW i \in Intents, Paid(i), Rests(i) \/ Reaches(i) \/ Pays(i)
  PROVE  Paid(i)'
<1>1. /\ Debt(i) \in Nat /\ Debt(i)' \in Nat
      /\ attempts[i] \in Nat /\ attempts'[i] \in Nat
      /\ aborts \in Nat /\ aborts' \in Nat
  BY BoundsAssumption DEF TypeOK, Debt
<1>2. CASE Rests(i)
  BY <1>1, <1>2 DEF Paid, Rests
<1>3. CASE Reaches(i)
  BY <1>1, <1>3 DEF Paid, Reaches
<1>4. CASE Pays(i)
  BY <1>1, <1>4 DEF Paid, Pays
<1> QED BY <1>2, <1>3, <1>4

\* A step that moves no money and counts nothing lets i rest if it forgets
\* neither a receipt nor a worker past the rail.
LEMMA RestsIf ==
  ASSUME TypeOK, NEW i \in Intents,
         UNCHANGED <<attempts, moved, aborts>>, stray' \subseteq stray,
         receipt[i] => receipt'[i],
         \A w \in Workers : current[w] = i /\ pc[w] \in PastRail => Accounted(i)'
  PROVE  Rests(i)
<1>1. Debt(i)' <= Debt(i)
  BY DEF Debt, TypeOK
<1>2. Accounted(i) => Accounted(i)'
  <2>1. CASE receipt[i]
    BY <2>1 DEF Accounted
  <2>2. CASE \E w \in Workers : current[w] = i /\ pc[w] \in PastRail
    BY <2>2
  <2> QED BY <2>1, <2>2 DEF Accounted
<1> QED BY <1>1, <1>2 DEF Rests

\* A landing transfer of i moves one more time what i is owed, at most.
LEMMA Landing ==
  ASSUME TypeOK, NEW i \in Intents, Transfer(i), NEW j \in Intents
  PROVE  /\ j # i => Debt(j)' <= Debt(j)
         /\ Debt(i)' <= Debt(i) + 1
         /\ i \in stray => Debt(i)' <= Debt(i)
  BY DEF TypeOK, Transfer, Debt

\* Every step of timely workers lets i rest, reaches it or pays for it.
LEMMA PaidStep ==
  ASSUME TimelyInv, TypeOK', Next, NEW i \in Intents
  PROVE  Rests(i) \/ Reaches(i) \/ Pays(i)
<1> USE DEF TimelyInv, MoneyInv, BooksInv
<1>n. NoIntent \notin Intents
  BY ActorsAssumption
<1>a. \A w \in Workers : pc[w] # "idle" => current[w] \in Intents
  BY DEF TypeOK
<1>1. CASE Request
  <2>1. UNCHANGED <<attempts, receipt, moved, stray, pc, current, aborts>>
    BY <1>1 DEF Request, Gate, Handoff, HandoffAborts, Pause, Reject, ResumeGate, Resume,
                HaltAgent, RestoreAgent
  <2> QED BY <2>1, RestsIf DEF Accounted
<1>2. ASSUME NEW j \in Intents, StrayLands(j) PROVE Rests(i)
  <2>1. Debt(i)' <= Debt(i)
    BY <1>2, Landing DEF StrayLands
  <2>2. UNCHANGED <<attempts, receipt, pc, current, aborts>>
    BY <1>2 DEF StrayLands
  <2> QED BY <2>1, <2>2 DEF Rests, Accounted
<1>3. ASSUME NEW j \in Intents, StrayIsDropped(j) PROVE Rests(i)
  <2>1. UNCHANGED <<attempts, receipt, moved, pc, current, aborts>> /\ stray' \subseteq stray
    BY <1>3 DEF StrayIsDropped
  <2> QED BY <2>1, RestsIf DEF Accounted
<1>4. ASSUME NEW w \in Workers, WorkerStep(w) \/ Abort(w)
      PROVE  Rests(i) \/ Reaches(i) \/ Pays(i)
  <2> USE DEF Goto
  <2>1. CASE RailAccepts(w)
    <3>1. /\ pc[w] = "calling" /\ current[w] \in Intents /\ Transfer(current[w])
          /\ UNCHANGED <<attempts, receipt, current, aborts>>
          /\ \E l \in {"received", "park"} : pc' = [pc EXCEPT ![w] = l]
      BY <2>1, <1>a DEF RailAccepts, LeaveCall
    <3>2. CASE i # current[w]
      <4>1. Debt(i)' <= Debt(i)
        BY <3>1, <3>2, Landing
      <4>2. Accounted(i) => Accounted(i)'
        BY <3>1, <3>2 DEF Accounted, TypeOK, PastRail
      <4> QED BY <3>1, <4>1, <4>2 DEF Rests
    <3>3. CASE i = current[w]
      <4>1. Debt(i)' <= Debt(i) + 1
        BY <3>1, <3>3, Landing
      <4>2. \A v \in Workers \ {w} : current[v] # i
        BY <3>1, <3>3, OwnRow
      <4>3. ~receipt[i]
        BY <3>1, <3>3 DEF ClaimInv, FreshSnapshots
      <4>4. ~Accounted(i) /\ Accounted(i)'
        BY <3>1, <3>3, <4>2, <4>3 DEF Accounted, TypeOK, PastRail
      <4> QED BY <3>1, <4>1, <4>4 DEF Reaches
    <3> QED BY <3>2, <3>3
  <2>2. CASE RailTimesOut(w)
    <3>1. /\ pc[w] = "calling" /\ current[w] \in Intents
          /\ stray' = stray \cup {current[w]}
          /\ UNCHANGED <<attempts, receipt, moved, current, aborts>>
          /\ pc' = [pc EXCEPT ![w] = "retry"]
      BY <2>2, <1>a DEF RailTimesOut, LeaveCall, LeaveStray
    <3>2. CASE i # current[w]
      <4>1. Debt(i)' <= Debt(i)
        BY <3>1, <3>2 DEF Debt, TypeOK
      <4>2. Accounted(i) => Accounted(i)'
        BY <3>1, <3>2 DEF Accounted, TypeOK, PastRail
      <4> QED BY <3>1, <4>1, <4>2 DEF Rests
    <3>3. CASE i = current[w]
      <4>1. Debt(i)' <= Debt(i) + 1
        BY <3>1, <3>3 DEF Debt, TypeOK
      <4>2. \A v \in Workers \ {w} : current[v] # i
        BY <3>1, <3>3, OwnRow
      <4>3. ~receipt[i]
        BY <3>1, <3>3 DEF ClaimInv, FreshSnapshots
      <4>4. ~Accounted(i) /\ Accounted(i)'
        BY <3>1, <3>3, <4>2, <4>3 DEF Accounted, TypeOK, PastRail
      <4> QED BY <3>1, <4>1, <4>4 DEF Reaches
    <3> QED BY <3>2, <3>3
  <2>3. CASE \/ RailDeclines(w) \/ RailReverts(w) \/ Dispatch(w) \/ Record(w) \/ Settle(w)
             \/ SettleAgain(w) \/ SettleThrows(w) \/ FailIntent(w) \/ FailIntentThrows(w)
    <3>1. /\ UNCHANGED <<attempts, moved, stray, current, aborts>>
          /\ receipt[i] => receipt'[i]
          /\ \E l \in Steps : /\ pc' = [pc EXCEPT ![w] = l]
                              /\ pc[w] \in PastRail => l \in PastRail
      BY <2>3 DEF RailDeclines, RailReverts, Dispatch, Record, Settle, SettleAgain, SettleThrows,
                  FailIntent, FailIntentThrows, LeaveCall, PastRail, Steps, TypeOK
    <3>2. \A v \in Workers : current[v] = i /\ pc[v] \in PastRail => Accounted(i)'
      BY <3>1 DEF Accounted, TypeOK
    <3> QED BY <3>1, <3>2, RestsIf
  <2>4. CASE MarkSettled(w)
    <3>1. /\ UNCHANGED <<attempts, receipt, moved, stray, aborts>>
          /\ pc' = [pc EXCEPT ![w] = "idle"]
          /\ current' = [current EXCEPT ![w] = NoIntent]
      BY <2>4 DEF MarkSettled, Finish
    <3>2. current[w] = i => receipt[i]
      BY <2>4 DEF MarkSettled, ClaimInv, RowsMatchIntents, NoPaymentWithoutMoney
    <3>3. \A v \in Workers : current[v] = i /\ pc[v] \in PastRail => Accounted(i)'
      BY <3>1, <3>2 DEF Accounted, TypeOK
    <3> QED BY <3>1, <3>3, RestsIf
  <2>5. CASE Retry(w) \/ Park(w) \/ MarkFailed(w)
    <3>1. pc[w] # "idle" /\ current[w] \in Intents
      BY <2>5, <1>a DEF Retry, Park, MarkFailed
    <3>2. /\ UNCHANGED <<receipt, moved, stray, aborts>>
          /\ attempts' = [attempts EXCEPT ![current[w]] = @ + 1]
      BY <2>5 DEF Retry, Park, MarkFailed, CountAttempt
    <3>3. /\ \E l \in {"idle", "announce"} : pc' = [pc EXCEPT ![w] = l]
          /\ \A v \in Workers \ {w} : current'[v] = current[v]
      BY <2>5 DEF Retry, Park, MarkFailed, GiveUpOrFinish, Finish, TypeOK
    <3>4. Debt(i)' <= Debt(i)
      BY <3>2 DEF Debt, TypeOK
    <3>5. CASE i = current[w]
      <4>1. attempts'[i] + aborts' = attempts[i] + aborts + 1
        BY <3>1, <3>2, <3>5, BoundsAssumption DEF TypeOK
      <4> QED BY <3>4, <4>1 DEF Pays
    <3>6. CASE i # current[w]
      <4>1. attempts'[i] = attempts[i]
        BY <3>2, <3>6 DEF TypeOK
      <4>2. Accounted(i) => Accounted(i)'
        BY <3>2, <3>3, <3>6 DEF Accounted, TypeOK
      <4> QED BY <3>2, <3>4, <4>1, <4>2 DEF Rests
    <3> QED BY <3>5, <3>6
  <2>6. CASE Announce(w)
    <3>1. /\ UNCHANGED <<attempts, receipt, moved, stray, aborts>>
          /\ pc[w] = "announce"
          /\ pc' = [pc EXCEPT ![w] = "idle"]
          /\ current' = [current EXCEPT ![w] = NoIntent]
      BY <2>6 DEF Announce, Finish
    <3>2. \A v \in Workers : current[v] = i /\ pc[v] \in PastRail => Accounted(i)'
      BY <3>1 DEF Accounted, TypeOK, PastRail
    <3> QED BY <3>1, <3>2, RestsIf
  <2>7. CASE Abort(w)
    <3>1. /\ UNCHANGED <<attempts, receipt, moved>>
          /\ aborts' = aborts + 1
          /\ pc' = [pc EXCEPT ![w] = "idle"]
          /\ current' = [current EXCEPT ![w] = NoIntent]
          /\ \/ stray' = stray
             \/ pc[w] = "calling" /\ stray' = stray \cup {current[w]}
      BY <2>7 DEF Abort, LeaveCall, LeaveStray
    <3>2. attempts'[i] + aborts' = attempts[i] + aborts + 1
      BY <3>1, BoundsAssumption DEF TypeOK
    <3>3. CASE stray' = stray
      BY <3>1, <3>2, <3>3 DEF Pays, Debt, TypeOK
    <3>4. CASE pc[w] = "calling" /\ stray' = stray \cup {current[w]}
      <4>1. Debt(i)' <= Debt(i) + 1
        BY <3>1, <3>4 DEF Debt, TypeOK
      <4>2. Accounted(i) => Accounted(i)'
        BY <3>1, <3>4 DEF Accounted, TypeOK, PastRail
      <4> QED BY <3>2, <4>1, <4>2 DEF Pays
    <3> QED BY <3>1, <3>3, <3>4
  <2>8. ASSUME NEW j \in Intents, Start(w, j) PROVE Rests(i)
    <3>1. /\ UNCHANGED <<attempts, receipt, moved, stray, aborts>>
          /\ pc[w] = "idle"
          /\ \E l \in Steps : pc' = [pc EXCEPT ![w] = l]
          /\ current' = [current EXCEPT ![w] = j]
      BY <2>8 DEF Start, Steps
    <3>2. \A v \in Workers : current[v] = i /\ pc[v] \in PastRail => Accounted(i)'
      BY <3>1 DEF Accounted, TypeOK, PastRail
    <3> QED BY <3>1, <3>2, RestsIf
  <2>9. ASSUME Claim(w) \/ \E j \in Intents : Reclaim(w, j) PROVE Rests(i)
    <3>1. UNCHANGED <<attempts, receipt, moved, stray, pc, current, aborts>>
      BY <2>9 DEF Claim, Reclaim
    <3> QED BY <3>1, RestsIf DEF Accounted
  <2> QED BY <1>4, <2>1, <2>2, <2>3, <2>4, <2>5, <2>6, <2>7, <2>8, <2>9 DEF WorkerStep
<1> QED BY <1>1, <1>2, <1>3, <1>4 DEF Next, Chain

\* With timely workers every movement of money but one is paid for by a counted
\* attempt or an abandoned cycle, for any rails, faults and number of crashes.
THEOREM MovesArePaidFor == ASSUME SlowWorkers = {} PROVE Spec => []MovesPaidFor
<1>1. MovesPaidFor <=> \A i \in Intents : Paid(i)
  BY DEF MovesPaidFor, Paid, Debt, Accounted
<1>2. Init => \A i \in Intents : Paid(i)
  BY DEF Init, Paid, Debt
<1>3. TimelyInv /\ TypeOK' /\ [Next]_vars /\ (\A i \in Intents : Paid(i))
        => (\A i \in Intents : Paid(i))'
  <2> SUFFICES ASSUME TimelyInv, TypeOK', [Next]_vars, NEW i \in Intents, Paid(i)
               PROVE  Paid(i)'
    OBVIOUS
  <2>1. CASE Next
    BY <2>1, PaidStep, PaidKept DEF TimelyInv, MoneyInv, BooksInv
  <2>2. CASE UNCHANGED vars
    BY <2>2 DEF vars, Paid, Debt, Accounted
  <2> QED BY <2>1, <2>2
<1> QED BY <1>1, <1>2, <1>3, TimelyInvariant, TypeCorrect, PTL DEF Spec

----------------------------------------------------------------------------
(* The announcement of a row that ran out of attempts.                     *)

\* The row of i is parked at the attempt ceiling.
AtCeiling(i) == rowStatus[i] = "reconciling" /\ attempts[i] >= MaxTotalAttempts

\* ExhaustedOnce for i, and that an announced row rests with nobody: no worker
\* comes back to announce it again.
Told(i) ==
    /\ exhausted[i] <= 1
    /\ exhausted[i] = 1 => AtCeiling(i) /\ \A w \in Workers : ~Holds(w, i)
    /\ AtCeiling(i) => exhausted[i] = 1 \/ aborts > 0 \/ \E w \in Workers : Announcing(w, i)

\* The row of i is as it was, and so are its announcement and those under way.
Undisturbed(i) ==
    /\ rowStatus'[i] = rowStatus[i] /\ attempts'[i] = attempts[i]
    /\ exhausted'[i] = exhausted[i]
    /\ \A w \in Workers : Holds(w, i)' => Holds(w, i)
    /\ \/ aborts' > 0
       \/ aborts' = aborts /\ \A w \in Workers : Announcing(w, i) => Announcing(w, i)'

\* A row not announced yet is worked on; at the ceiling its worker announces it.
InHand(i) ==
    /\ exhausted[i] # 1 /\ exhausted'[i] = exhausted[i]
    /\ ~AtCeiling(i)' \/ \E w \in Workers : Announcing(w, i)'

\* Both keep Told.
LEMMA ToldKept ==
  ASSUME TypeOK, TypeOK', NEW i \in Intents, Told(i), Undisturbed(i) \/ InHand(i)
  PROVE  Told(i)'
<1>1. CASE Undisturbed(i)
  BY <1>1 DEF Told, Undisturbed, AtCeiling
<1>2. CASE InHand(i)
  BY <1>2 DEF Told, InHand, AtCeiling
<1> QED BY <1>1, <1>2

\* A held row has not been announced.
LEMMA HeldIsUntold ==
  ASSUME NEW i \in Intents, Told(i), NEW w \in Workers, current[w] = i
  PROVE  exhausted[i] # 1
  BY DEF Told, Holds

\* Every step of timely workers keeps Told.
LEMMA ToldStep ==
  ASSUME TimelyInv, TypeOK', Next, NEW i \in Intents, Told(i)
  PROVE  Told(i)'
<1> USE DEF TimelyInv, MoneyInv, BooksInv
<1>n. NoIntent \notin Intents
  BY ActorsAssumption
<1>a. \A w \in Workers : pc[w] # "idle" => current[w] \in Intents
  BY DEF TypeOK
<1>b. /\ attempts[i] \in Nat /\ attempts'[i] \in Nat /\ MaxTotalAttempts \in Nat
      /\ MaxDispatchAttempts \in Nat /\ MaxDispatchAttempts <= MaxTotalAttempts
      /\ aborts \in Nat
  BY BoundsAssumption DEF TypeOK
<1>1. CASE Request \/ Chain
  <2>1. \/ UNCHANGED <<rowStatus, attempts, workerVars, opsVars>>
        \/ \E j \in Intents : Handoff(j)
    BY <1>1 DEF Request, Gate, Handoff, HandoffAborts, Pause, Reject, ResumeGate, Resume,
                HaltAgent, RestoreAgent, Chain, StrayLands, StrayIsDropped
  <2>2. CASE UNCHANGED <<rowStatus, attempts, workerVars, opsVars>>
    BY <2>2, ToldKept DEF Undisturbed, Holds, Announcing
  <2>3. ASSUME NEW j \in Intents, Handoff(j) PROVE Told(i)'
    <3>1. /\ status[j] = "approved"
          /\ rowStatus' = [rowStatus EXCEPT ![j] = "pending"]
          /\ UNCHANGED <<attempts, workerVars, opsVars>>
      BY <2>3 DEF Handoff
    <3>2. CASE i = j
      <4>1. rowStatus[i] = "absent"
        BY <3>1, <3>2 DEF LedgerConsistent, HandedOff
      <4> QED BY <3>1, <3>2, <4>1, ToldKept DEF Told, AtCeiling, InHand, TypeOK
    <3>3. CASE i # j
      BY <3>1, <3>3, ToldKept DEF Undisturbed, Holds, Announcing, TypeOK
    <3> QED BY <3>2, <3>3
  <2> QED BY <2>1, <2>2, <2>3
<1>2. ASSUME NEW w \in Workers, WorkerStep(w) \/ Abort(w) PROVE Told(i)'
  <2> USE DEF Goto
  <2>1. CASE \/ Dispatch(w) \/ RailAccepts(w) \/ RailDeclines(w) \/ RailTimesOut(w)
             \/ RailReverts(w) \/ Settle(w) \/ SettleAgain(w) \/ SettleThrows(w)
             \/ FailIntent(w) \/ FailIntentThrows(w)
    <3>1. /\ UNCHANGED <<rowStatus, attempts, current, batch, opsVars>>
          /\ pc[w] # "announce"
          /\ \E l \in Steps : pc' = [pc EXCEPT ![w] = l]
      BY <2>1 DEF Dispatch, RailAccepts, RailDeclines, RailTimesOut, RailReverts, Settle,
                  SettleAgain, SettleThrows, FailIntent, FailIntentThrows, LeaveCall, Steps
    <3>2. Undisturbed(i)
      BY <3>1 DEF Undisturbed, Holds, Announcing, TypeOK
    <3> QED BY <3>2, ToldKept
  <2>2. CASE Record(w) \/ MarkSettled(w) \/ MarkFailed(w)
    <3>1. /\ pc[w] \notin {"idle", "announce"}
          /\ \E s \in {"dispatched", "settled", "failed"} :
               rowStatus' = [rowStatus EXCEPT ![current[w]] = s]
          /\ \A j \in Intents : j # current[w] => attempts'[j] = attempts[j]
          /\ UNCHANGED <<batch, opsVars>>
          /\ \E l \in {"idle", "settle"} : pc' = [pc EXCEPT ![w] = l]
          /\ \A v \in Workers : current'[v] \in {current[v], NoIntent}
          /\ \A v \in Workers \ {w} : current'[v] = current[v]
      BY <2>2 DEF Record, MarkSettled, MarkFailed, CountAttempt, Finish, TypeOK
    <3>2. CASE i = current[w]
      <4>1. exhausted[i] # 1
        BY <3>2, HeldIsUntold
      <4> QED BY <3>1, <3>2, <4>1, ToldKept DEF InHand, AtCeiling, TypeOK
    <3>3. CASE i # current[w]
      <4>1. Undisturbed(i)
        BY <3>1, <3>3, <1>n DEF Undisturbed, Holds, Announcing, TypeOK
      <4> QED BY <4>1, ToldKept
    <3> QED BY <3>2, <3>3
  <2>3. CASE Retry(w) \/ Park(w)
    <3>1. /\ pc[w] \notin {"idle", "announce"} /\ current[w] \in Intents
          /\ \E s \in RowStatuses : rowStatus' = [rowStatus EXCEPT ![current[w]] = s]
          /\ attempts' = [attempts EXCEPT ![current[w]] = @ + 1]
          /\ UNCHANGED <<batch, opsVars>>
          /\ GiveUpOrFinish(w)
      BY <2>3, <1>a DEF Retry, Park, CountAttempt, RowStatuses
    <3>2. CASE i = current[w]
      <4>1. exhausted[i] # 1
        BY <3>2, HeldIsUntold
      <4>2. attempts'[i] = attempts[i] + 1
        BY <3>1, <3>2 DEF TypeOK
      <4>3. CASE attempts[i] + 1 >= MaxTotalAttempts
        <5>1. pc' = [pc EXCEPT ![w] = "announce"] /\ current' = current
          BY <3>1, <3>2, <4>3 DEF GiveUpOrFinish
        <5>2. Announcing(w, i)'
          BY <3>2, <5>1 DEF Announcing, TypeOK
        <5> QED BY <3>1, <4>1, <5>2, ToldKept DEF InHand
      <4>4. CASE ~(attempts[i] + 1 >= MaxTotalAttempts)
        BY <3>1, <4>1, <4>2, <4>4, ToldKept DEF InHand, AtCeiling
      <4> QED BY <4>3, <4>4
    <3>3. CASE i # current[w]
      <4>1. rowStatus'[i] = rowStatus[i] /\ attempts'[i] = attempts[i]
        BY <3>1, <3>3 DEF TypeOK
      <4>2. /\ \A v \in Workers : current'[v] \in {current[v], NoIntent}
            /\ \A v \in Workers \ {w} : current'[v] = current[v] /\ pc'[v] = pc[v]
        BY <3>1 DEF GiveUpOrFinish, Finish, TypeOK
      <4>3. Undisturbed(i)
        BY <3>1, <3>3, <4>1, <4>2, <1>n DEF Undisturbed, Holds, Announcing
      <4> QED BY <4>3, ToldKept
    <3> QED BY <3>2, <3>3
  <2>4. CASE Announce(w)
    <3>1. /\ UNCHANGED <<rowStatus, attempts, batch, aborts>>
          /\ pc[w] = "announce" /\ current[w] \in Intents
          /\ exhausted' = [exhausted EXCEPT ![current[w]] = @ + 1]
          /\ pc' = [pc EXCEPT ![w] = "idle"]
          /\ current' = [current EXCEPT ![w] = NoIntent]
      BY <2>4, <1>a DEF Announce, Finish
    <3>2. CASE i = current[w]
      <4>1. exhausted[i] # 1
        BY <3>2, HeldIsUntold
      <4>2. exhausted'[i] = 1
        <5>1. exhausted[i] \in Nat /\ exhausted[i] <= 1
          BY DEF Told, TypeOK
        <5>2. exhausted[i] = 0
          BY <4>1, <5>1
        <5> QED BY <3>1, <3>2, <5>2 DEF TypeOK
      <4>3. AtCeiling(i)'
        BY <3>1, <3>2 DEF ClaimInv, RowsMatchIntents, AtCeiling
      <4>4. /\ \A v \in Workers : i \notin batch[v]
            /\ \A v \in Workers \ {w} : current[v] # i
        BY <3>1, <3>2, OwnRow
      <4>5. \A v \in Workers : ~Holds(v, i)'
        BY <3>1, <4>4, <1>n DEF Holds, TypeOK
      <4> QED BY <4>2, <4>3, <4>5 DEF Told
    <3>3. CASE i # current[w]
      <4>1. Undisturbed(i)
        BY <3>1, <3>3, <1>n DEF Undisturbed, Holds, Announcing, TypeOK
      <4> QED BY <4>1, ToldKept
    <3> QED BY <3>2, <3>3
  <2>5. CASE Abort(w)
    <3>1. /\ UNCHANGED <<rowStatus, attempts, exhausted>>
          /\ aborts' = aborts + 1
          /\ current' = [current EXCEPT ![w] = NoIntent]
          /\ batch' = [batch EXCEPT ![w] = {}]
      BY <2>5 DEF Abort
    <3>2. aborts' > 0
      BY <3>1, <1>b
    <3>3. \A v \in Workers : Holds(v, i)' => Holds(v, i)
      BY <3>1, <1>n DEF Holds, TypeOK
    <3> QED BY <3>1, <3>2, <3>3, ToldKept DEF Undisturbed
  <2>6. ASSUME NEW j \in Intents, Start(w, j) PROVE Told(i)'
    <3>1. /\ UNCHANGED <<rowStatus, attempts, opsVars>>
          /\ j \in batch[w] /\ pc[w] = "idle"
          /\ batch' = [batch EXCEPT ![w] = @ \ {j}]
          /\ current' = [current EXCEPT ![w] = j]
          /\ \E l \in Steps : pc' = [pc EXCEPT ![w] = l]
      BY <2>6 DEF Start, Steps
    <3>2. Undisturbed(i)
      BY <3>1 DEF Undisturbed, Holds, Announcing, TypeOK
    <3> QED BY <3>2, ToldKept
  <2>7. ASSUME NEW j \in Intents, Reclaim(w, j) PROVE Told(i)'
    <3>1. /\ InFlight(j)
          /\ rowStatus' = [rowStatus EXCEPT ![j] = "pending"]
          /\ UNCHANGED <<attempts, workerVars, opsVars>>
      BY <2>7 DEF Reclaim
    <3>2. CASE i = j
      BY <3>1, <3>2, ToldKept DEF Told, AtCeiling, InHand, InFlight, TypeOK
    <3>3. CASE i # j
      BY <3>1, <3>3, ToldKept DEF Undisturbed, Holds, Announcing, TypeOK
    <3> QED BY <3>2, <3>3
  <2>8. CASE Claim(w)
    <3>1. PICK S \in SUBSET {j \in Intents : Claimable(j)} :
            /\ rowStatus' = [j \in Intents |-> IF j \in S THEN "dispatching" ELSE rowStatus[j]]
            /\ batch' = [batch EXCEPT ![w] = S]
      BY <2>8 DEF Claim
    <3>2. UNCHANGED <<attempts, pc, current, opsVars>>
      BY <2>8 DEF Claim
    <3>3. CASE i \in S
      <4>1. ~(attempts[i] >= MaxTotalAttempts)
        BY <3>1, <3>3, <1>b DEF Claimable
      <4>2. rowStatus'[i] = "dispatching"
        BY <3>1, <3>3
      <4> QED BY <3>2, <4>1, <4>2, ToldKept DEF Told, AtCeiling, InHand
    <3>4. CASE i \notin S
      <4>1. Undisturbed(i)
        BY <3>1, <3>2, <3>4 DEF Undisturbed, Holds, Announcing, TypeOK
      <4> QED BY <4>1, ToldKept
    <3> QED BY <3>3, <3>4
  <2> QED BY <1>2, <2>1, <2>2, <2>3, <2>4, <2>5, <2>6, <2>7, <2>8 DEF WorkerStep
<1> QED BY <1>1, <1>2 DEF Next

\* With timely workers a row parked at the ceiling is announced exactly once, is
\* about to be, or lost its announcement to an abandoned cycle.
THEOREM ExhaustionIsAnnouncedOnce == ASSUME SlowWorkers = {} PROVE Spec => []ExhaustedOnce
<1>1. (\A i \in Intents : Told(i)) => ExhaustedOnce
  BY DEF Told, AtCeiling, ExhaustedOnce
<1>2. Init => \A i \in Intents : Told(i)
  BY BoundsAssumption DEF Init, Told, AtCeiling
<1>3. TimelyInv /\ TypeOK' /\ [Next]_vars /\ (\A i \in Intents : Told(i))
        => (\A i \in Intents : Told(i))'
  <2> SUFFICES ASSUME TimelyInv, TypeOK', [Next]_vars, NEW i \in Intents, Told(i)
               PROVE  Told(i)'
    OBVIOUS
  <2>1. CASE Next
    BY <2>1, ToldStep
  <2>2. CASE UNCHANGED vars
    BY <2>2 DEF vars, Told, AtCeiling, Holds, Announcing
  <2> QED BY <2>1, <2>2
<1> QED BY <1>1, <1>2, <1>3, TimelyInvariant, TypeCorrect, PTL DEF Spec

=============================================================================
