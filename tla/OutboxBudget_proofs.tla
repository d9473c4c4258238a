------------------------ MODULE OutboxBudget_proofs ------------------------
(***************************************************************************)
(* What one payment can cost, and that none is stranded.  The first part   *)
(* assumes nothing of the workers' speed, the second one timely workers;   *)
(* the last shows under which conditions the two promises that the         *)
(* documentation makes without any are kept.                               *)
(***************************************************************************)
EXTENDS ExecutionOutbox_proofs, FiniteSetTheorems

USE DEF ledgerVars, requestVars, rowVars, chainVars, workerVars, opsVars

----------------------------------------------------------------------------
(* Slow workers.  Several may hold one row, each in one role.               *)

\* The worker may still count an attempt of i.
IsWorking(w, i) == Holds(w, i) /\ ~Announcing(w, i)

\* It may still move the money of i.
IsSending(w, i) == \/ i \in batch[w] /\ i \notin resumed[w]
                   \/ current[w] = i /\ pc[w] \in {"guarded", "calling"}

\* Its rail call for i is over.
IsSent(w, i) == current[w] = i /\ pc[w] \in PastRail

Working(i) == {w \in Workers : IsWorking(w, i)}
Sending(i) == {w \in Workers : IsSending(w, i)}
Sent(i)    == {w \in Workers : IsSent(w, i)}

\* A worker has a row once, and marks it settled only with a receipt.
OneRole ==
    \A w \in Workers :
        /\ pc[w] = "mark_settled" => receipt[current[w]]
        /\ \A i \in batch[w] : i # current[w]

SlowInv == MoneyInv /\ OneRole

\* Receipts are never cleared.
LEMMA ReceiptStays ==
  ASSUME TypeOK, Next, NEW i \in Intents, receipt[i]
  PROVE  receipt'[i]
<1>1. CASE Request \/ Chain
  BY <1>1 DEF Request, Gate, Handoff, HandoffAborts, Pause, Reject, ResumeGate, Resume, Move,
              HaltAgent, RestoreAgent, Chain, StrayLands, StrayIsDropped
<1>2. ASSUME NEW w \in Workers, WorkerStep(w) \/ Abort(w) PROVE receipt'[i]
  BY <1>2 DEF TypeOK, WorkerStep, Reclaim, Start, Claim, Dispatch, RailAccepts, RailDeclines,
         RailTimesOut, RailReverts, Record, Settle, SettleAgain, SettleThrows, MarkSettled,
         FailIntent, FailIntentThrows, Move, MarkFailed, Retry, Park, Announce, Abort
<1> QED BY <1>1, <1>2 DEF Next

\* Every step keeps a worker's rows apart.
LEMMA OneRoleStep == ASSUME SlowInv, TypeOK', Next PROVE OneRole'
<1> USE DEF SlowInv, MoneyInv, BooksInv
<1>n. NoIntent \notin Intents
  BY ActorsAssumption
<1>a. \A w \in Workers : pc[w] # "idle" => current[w] \in Intents
  BY DEF TypeOK
<1>r. \A i \in Intents : receipt[i] => receipt'[i]
  BY ReceiptStays
<1>1. CASE Request \/ Chain
  <2>1. UNCHANGED workerVars
    BY <1>1 DEF Request, Gate, Handoff, HandoffAborts, Pause, Reject, ResumeGate, Resume,
                HaltAgent, RestoreAgent, Chain, StrayLands, StrayIsDropped
  <2> QED BY <2>1, <1>r, <1>a DEF OneRole
<1>2. ASSUME NEW w \in Workers, WorkerStep(w) \/ Abort(w) PROVE OneRole'
  <2> USE DEF Goto
  <2>1. CASE \/ Dispatch(w) \/ RailAccepts(w) \/ RailDeclines(w) \/ RailTimesOut(w)
             \/ RailReverts(w) \/ Record(w) \/ SettleThrows(w)
             \/ FailIntent(w) \/ FailIntentThrows(w)
    <3>1. /\ UNCHANGED <<current, batch>>
          /\ \E l \in Steps \ {"mark_settled"} : pc' = [pc EXCEPT ![w] = l]
      BY <2>1 DEF Dispatch, RailAccepts, RailDeclines, RailTimesOut, RailReverts, Record,
                  SettleThrows, FailIntent, FailIntentThrows, LeaveCall, Steps
    <3> QED BY <3>1, <1>r, <1>a DEF OneRole, TypeOK
  <2>2. CASE Settle(w) \/ SettleAgain(w)
    <3>1. /\ UNCHANGED <<current, batch, receipt>>
          /\ pc[w] = "settle"
          /\ \E l \in {"mark_settled", "retry"} : pc' = [pc EXCEPT ![w] = l]
      BY <2>2 DEF Settle, SettleAgain
    <3>2. receipt[current[w]]
      BY <3>1 DEF MoneyTrail
    <3> QED BY <3>1, <3>2, <1>a DEF OneRole, TypeOK
  <2>3. CASE MarkSettled(w) \/ Retry(w) \/ Park(w) \/ MarkFailed(w) \/ Announce(w)
    <3>1. /\ UNCHANGED <<batch, receipt>>
          /\ \E l \in {"idle", "announce"} : pc' = [pc EXCEPT ![w] = l]
          /\ \/ current' = current
             \/ current' = [current EXCEPT ![w] = NoIntent]
      BY <2>3 DEF MarkSettled, Retry, Park, MarkFailed, Announce, GiveUpOrFinish, Finish
    <3>2. \A v \in Workers : batch[v] \subseteq Intents
      BY DEF TypeOK
    <3> QED BY <3>1, <3>2, <1>n, <1>a DEF OneRole, TypeOK
  <2>4. CASE Abort(w)
    <3>1. /\ receipt' = receipt
          /\ batch' = [batch EXCEPT ![w] = {}]
          /\ pc' = [pc EXCEPT ![w] = "idle"]
          /\ current' = [current EXCEPT ![w] = NoIntent]
      BY <2>4 DEF Abort, LeaveCall
    <3> QED BY <3>1, <1>a DEF OneRole, TypeOK
  <2>5. ASSUME NEW j \in Intents, Start(w, j) PROVE OneRole'
    <3>1. /\ receipt' = receipt
          /\ batch' = [batch EXCEPT ![w] = @ \ {j}]
          /\ current' = [current EXCEPT ![w] = j]
          /\ \E l \in {"settle", "guarded", "park"} : pc' = [pc EXCEPT ![w] = l]
      BY <2>5 DEF Start
    <3> QED BY <3>1, <1>a DEF OneRole, TypeOK
  <2>6. ASSUME NEW j \in Intents, Reclaim(w, j) PROVE OneRole'
    BY <2>6, <1>a DEF Reclaim, OneRole
  <2>7. CASE Claim(w)
    <3>1. PICK S \in SUBSET Intents : batch' = [batch EXCEPT ![w] = S]
      BY <2>7 DEF Claim
    <3>2. UNCHANGED <<receipt, pc, current>> /\ pc[w] = "idle"
      BY <2>7 DEF Claim
    <3> QED BY <3>1, <3>2, <1>n, <1>a DEF OneRole, TypeOK
  <2> QED BY <1>2, <2>1, <2>2, <2>3, <2>4, <2>5, <2>6, <2>7 DEF WorkerStep
<1> QED BY <1>1, <1>2 DEF Next

\* However slow the workers, each has a row once and settles it with a receipt.
LEMMA SlowInvariant == Spec => []SlowInv
<1>1. Init /\ MoneyInv => SlowInv
  BY DEF Init, SlowInv, OneRole
<1>2. SlowInv /\ [Next]_vars /\ MoneyInv' => SlowInv'
  <2>1. SlowInv /\ Next /\ MoneyInv' => OneRole'
    BY OneRoleStep DEF MoneyInv, BooksInv
  <2>2. SlowInv /\ UNCHANGED vars => OneRole'
    BY DEF SlowInv, OneRole, vars
  <2> QED BY <2>1, <2>2 DEF SlowInv
<1> QED BY <1>1, <1>2, MoneyInvariant, PTL DEF Spec

----------------------------------------------------------------------------
(* Attempts.  A claim is made below the ceiling, when every worker may be   *)
(* working on the row; each counted attempt ends one worker's turn.         *)

AttemptsPaid(i) ==
    attempts[i] + Cardinality(Working(i)) < MaxTotalAttempts + Cardinality(Workers)

\* No worker takes the row up, and no attempt is counted.
KeepsAttempts(i) == attempts'[i] = attempts[i] /\ Working(i)' \subseteq Working(i)

\* A worker takes the row up below the ceiling.
TakesUp(i) == attempts'[i] = attempts[i] /\ attempts[i] < MaxTotalAttempts

\* A worker counts its attempt and lets the row go.
Counts(i) ==
    /\ attempts'[i] = attempts[i] + 1
    /\ \E w \in Working(i) : Working(i)' \subseteq Working(i) \ {w}

\* Subsets of the workers are finite and no larger.
LEMMA WorkerSets ==
  ASSUME IsFiniteSet(Workers), NEW S, S \subseteq Workers
  PROVE  /\ IsFiniteSet(S)
         /\ Cardinality(S) \in Nat /\ Cardinality(Workers) \in Nat
         /\ Cardinality(S) <= Cardinality(Workers)
<1>1. IsFiniteSet(S) /\ Cardinality(S) <= Cardinality(Workers)
  BY FS_Subset
<1> QED BY <1>1, FS_CardinalityType

\* A subset of a set of workers is no larger than it, and smaller without one of
\* its members.
LEMMA SmallerSets ==
  ASSUME IsFiniteSet(Workers), NEW S, NEW T, S \subseteq Workers, T \subseteq S
  PROVE  /\ Cardinality(T) <= Cardinality(S)
         /\ \A w \in S : w \notin T => Cardinality(T) <= Cardinality(S) - 1
<1>1. IsFiniteSet(S) /\ IsFiniteSet(T) /\ Cardinality(T) <= Cardinality(S)
  BY WorkerSets, FS_Subset
<1>2. ASSUME NEW w \in S, w \notin T PROVE Cardinality(T) <= Cardinality(S) - 1
  <2>1. IsFiniteSet(S \ {w}) /\ Cardinality(S \ {w}) = Cardinality(S) - 1
    BY <1>1, FS_RemoveElement
  <2>2. T \in SUBSET (S \ {w})
    BY <1>2
  <2>3. Cardinality(T) <= Cardinality(S \ {w})
    BY <2>1, <2>2, FS_Subset
  <2> QED BY <2>1, <2>3
<1> QED BY <1>1, <1>2

\* The three ways a step can treat i keep its attempts paid for.
LEMMA AttemptsKept ==
  ASSUME IsFiniteSet(Workers), TypeOK, TypeOK', NEW i \in Intents, AttemptsPaid(i),
         KeepsAttempts(i) \/ TakesUp(i) \/ Counts(i)
  PROVE  AttemptsPaid(i)'
<1>1. /\ attempts[i] \in Nat /\ attempts'[i] \in Nat /\ MaxTotalAttempts \in Nat
      /\ Working(i) \subseteq Workers /\ Working(i)' \subseteq Workers
  BY BoundsAssumption DEF TypeOK, Working
<1>2. /\ Cardinality(Working(i)) \in Nat /\ Cardinality(Working(i)') \in Nat
      /\ Cardinality(Workers) \in Nat
      /\ Cardinality(Working(i)') <= Cardinality(Workers)
  BY <1>1, WorkerSets
<1>3. CASE KeepsAttempts(i)
  <2>1. Cardinality(Working(i)') <= Cardinality(Working(i))
    BY <1>1, <1>3, SmallerSets DEF KeepsAttempts
  <2> QED BY <1>1, <1>2, <1>3, <2>1 DEF KeepsAttempts, AttemptsPaid
<1>4. CASE TakesUp(i)
  BY <1>1, <1>2, <1>4 DEF TakesUp, AttemptsPaid
<1>5. CASE Counts(i)
  <2>1. PICK w \in Working(i) : Working(i)' \subseteq Working(i) \ {w}
    BY <1>5 DEF Counts
  <2>2. Cardinality(Working(i)') <= Cardinality(Working(i)) - 1
    BY <1>1, <2>1, SmallerSets
  <2> QED BY <1>1, <1>2, <1>5, <2>2 DEF Counts, AttemptsPaid
<1> QED BY <1>3, <1>4, <1>5

\* Every step treats i in one of the three ways, slow workers included.
LEMMA AttemptsStep ==
  ASSUME SlowInv, TypeOK', Next, NEW i \in Intents
  PROVE  KeepsAttempts(i) \/ TakesUp(i) \/ Counts(i)
<1> USE DEF SlowInv, MoneyInv, BooksInv, Working, IsWorking
<1>n. NoIntent \notin Intents
  BY ActorsAssumption
<1>a. \A w \in Workers : pc[w] # "idle" => current[w] \in Intents
  BY DEF TypeOK
<1>1. CASE Request \/ Chain
  <2>1. UNCHANGED <<attempts, workerVars>>
    BY <1>1 DEF Request, Gate, Handoff, HandoffAborts, Pause, Reject, ResumeGate, Resume,
                HaltAgent, RestoreAgent, Chain, StrayLands, StrayIsDropped
  <2> QED BY <2>1 DEF KeepsAttempts, Holds, Announcing
<1>2. ASSUME NEW w \in Workers, WorkerStep(w) \/ Abort(w)
      PROVE  KeepsAttempts(i) \/ TakesUp(i) \/ Counts(i)
  <2> USE DEF Goto
  <2>1. CASE \/ Dispatch(w) \/ RailAccepts(w) \/ RailDeclines(w) \/ RailTimesOut(w)
             \/ RailReverts(w) \/ Record(w) \/ Settle(w) \/ SettleAgain(w) \/ SettleThrows(w)
             \/ FailIntent(w) \/ FailIntentThrows(w)
    <3>1. /\ UNCHANGED <<attempts, current, batch>>
          /\ pc[w] # "announce"
          /\ \E l \in Steps : pc' = [pc EXCEPT ![w] = l]
      BY <2>1 DEF Dispatch, RailAccepts, RailDeclines, RailTimesOut, RailReverts, Record, Settle,
                  SettleAgain, SettleThrows, FailIntent, FailIntentThrows, LeaveCall, Steps
    <3> QED BY <3>1 DEF KeepsAttempts, Holds, Announcing, TypeOK
  <2>2. CASE MarkSettled(w) \/ Announce(w)
    <3>1. /\ UNCHANGED <<attempts, batch>>
          /\ pc' = [pc EXCEPT ![w] = "idle"]
          /\ current' = [current EXCEPT ![w] = NoIntent]
          /\ pc[w] # "idle"
      BY <2>2 DEF MarkSettled, Announce, Finish
    <3>2. \A v \in Workers : Holds(v, i)' => Holds(v, i)
      BY <3>1, <1>n DEF Holds, TypeOK
    <3>3. \A v \in Workers \ {w} : Announcing(v, i)' <=> Announcing(v, i)
      BY <3>1 DEF Announcing, TypeOK
    <3>4. Announcing(w, i) => ~Holds(w, i)'
      BY <3>1, <1>n DEF OneRole, Announcing, Holds, TypeOK
    <3> QED BY <3>1, <3>2, <3>3, <3>4 DEF KeepsAttempts
  <2>3. CASE Retry(w) \/ Park(w) \/ MarkFailed(w)
    <3>1. /\ attempts' = [attempts EXCEPT ![current[w]] = @ + 1]
          /\ current[w] \in Intents
          /\ batch' = batch
          /\ pc[w] \notin {"idle", "announce"}
          /\ \/ pc' = [pc EXCEPT ![w] = "announce"] /\ current' = current
             \/ /\ pc' = [pc EXCEPT ![w] = "idle"]
                /\ current' = [current EXCEPT ![w] = NoIntent]
      BY <2>3, <1>a DEF Retry, Park, MarkFailed, CountAttempt, GiveUpOrFinish, Finish
    <3>2. \A v \in Workers : v # w => (Holds(v, i)' <=> Holds(v, i))
                                      /\ (Announcing(v, i)' <=> Announcing(v, i))
      BY <3>1 DEF Holds, Announcing, TypeOK
    <3>3. CASE i = current[w]
      <4>1. w \in Working(i)
        BY <3>1, <3>3 DEF Holds, Announcing
      <4>2. ~IsWorking(w, i)'
        BY <3>1, <3>3, <1>n DEF OneRole, Holds, Announcing, TypeOK
      <4>3. attempts'[i] = attempts[i] + 1
        BY <3>1, <3>3 DEF TypeOK
      <4> QED BY <3>2, <4>1, <4>2, <4>3 DEF Counts
    <3>4. CASE i # current[w]
      <4>1. IsWorking(w, i)' => IsWorking(w, i)
        BY <3>1, <3>4, <1>n DEF Holds, Announcing, TypeOK
      <4>2. attempts'[i] = attempts[i]
        BY <3>1, <3>4 DEF TypeOK
      <4> QED BY <3>2, <4>1, <4>2 DEF KeepsAttempts
    <3> QED BY <3>3, <3>4
  <2>4. CASE Abort(w)
    <3>1. /\ UNCHANGED attempts
          /\ batch' = [batch EXCEPT ![w] = {}]
          /\ pc' = [pc EXCEPT ![w] = "idle"]
          /\ current' = [current EXCEPT ![w] = NoIntent]
      BY <2>4 DEF Abort, LeaveCall
    <3> QED BY <3>1, <1>n DEF KeepsAttempts, Holds, Announcing, TypeOK
  <2>5. ASSUME NEW j \in Intents, Start(w, j) PROVE KeepsAttempts(i)
    <3>1. /\ UNCHANGED attempts
          /\ j \in batch[w] /\ pc[w] = "idle"
          /\ batch' = [batch EXCEPT ![w] = @ \ {j}]
          /\ current' = [current EXCEPT ![w] = j]
          /\ \E l \in Steps : pc' = [pc EXCEPT ![w] = l]
      BY <2>5 DEF Start, Steps
    <3> QED BY <3>1 DEF KeepsAttempts, Holds, Announcing, TypeOK
  <2>6. ASSUME NEW j \in Intents, Reclaim(w, j) PROVE KeepsAttempts(i)
    BY <2>6 DEF Reclaim, KeepsAttempts, Holds, Announcing
  <2>7. CASE Claim(w)
    <3>1. PICK S \in SUBSET {j \in Intents : Claimable(j)} : batch' = [batch EXCEPT ![w] = S]
      BY <2>7 DEF Claim
    <3>2. UNCHANGED <<attempts, pc, current>>
      BY <2>7 DEF Claim
    <3>3. CASE i \in S
      BY <3>1, <3>2, <3>3 DEF TakesUp, Claimable
    <3>4. CASE i \notin S
      BY <3>1, <3>2, <3>4 DEF KeepsAttempts, Holds, Announcing, TypeOK
    <3> QED BY <3>3, <3>4
  <2> QED BY <1>2, <2>1, <2>2, <2>3, <2>4, <2>5, <2>6, <2>7 DEF WorkerStep
<1> QED BY <1>1, <1>2 DEF Next

----------------------------------------------------------------------------
(* Movements.  Before the first receipt each worker past the rail accounts  *)
(* for one movement.  Once a receipt is stored nobody starts sending: the   *)
(* workers that still may are those that started in the dark.               *)

Price(i) == attempts[i] + aborts

MovesAfforded(i) ==
    IF receipt[i]
      THEN Debt(i) + Cardinality(Sending(i)) <= Price(i) + Cardinality(Workers)
      ELSE Debt(i) <= Price(i) + Cardinality(Sent(i))

\* With a receipt nobody begins to send; without one nobody past the rail is lost.
RolesKept(i) ==
    /\ receipt'[i] = receipt[i]
    /\ receipt[i] => Sending(i)' \subseteq Sending(i)
    /\ ~receipt[i] => Sent(i) \subseteq Sent(i)'

\* No money moves.
Idles(i) == RolesKept(i) /\ Price(i)' = Price(i) /\ Debt(i)' <= Debt(i)

\* A worker that was sending is past the rail.
Sends(i) ==
    /\ RolesKept(i)
    /\ Price(i)' = Price(i) /\ Debt(i)' <= Debt(i) + 1
    /\ \E w \in Sending(i) : w \notin Sending(i)' /\ w \notin Sent(i) /\ w \in Sent(i)'

\* The first receipt is stored.
Receipts(i) ==
    /\ ~receipt[i] /\ receipt'[i]
    /\ Price(i)' = Price(i) /\ Debt(i)' <= Debt(i)
    /\ Sending(i)' \subseteq Sending(i)

\* A worker pays with an attempt or its cycle and is no longer past the rail.
PaysForSent(i) ==
    /\ Price(i)' = Price(i) + 1 /\ Debt(i)' <= Debt(i)
    /\ receipt'[i] = receipt[i]
    /\ Sending(i)' \subseteq Sending(i)
    /\ \E w \in Workers : Sent(i) \ {w} \subseteq Sent(i)'

\* A cycle is abandoned in the rail call.
PaysForSending(i) ==
    /\ RolesKept(i)
    /\ Price(i)' = Price(i) + 1 /\ Debt(i)' <= Debt(i) + 1

\* The five ways a step can treat i keep its movements afforded.
LEMMA MovesKept ==
  ASSUME IsFiniteSet(Workers), TypeOK, TypeOK', OneRole, NEW i \in Intents, MovesAfforded(i),
         Idles(i) \/ Sends(i) \/ Receipts(i) \/ PaysForSent(i) \/ PaysForSending(i)
  PROVE  MovesAfforded(i)'
<1>1. /\ Debt(i) \in Nat /\ Debt(i)' \in Nat /\ Price(i) \in Nat /\ Price(i)' \in Nat
      /\ receipt[i] \in BOOLEAN /\ receipt'[i] \in BOOLEAN
  BY BoundsAssumption DEF TypeOK, Debt, Price
<1>2. /\ Sending(i) \subseteq Workers /\ Sending(i)' \subseteq Workers
      /\ Sent(i) \subseteq Workers /\ Sent(i)' \subseteq Workers
  BY DEF Sending, Sent
<1>3. /\ Cardinality(Sending(i)) \in Nat /\ Cardinality(Sending(i)') \in Nat
      /\ Cardinality(Sent(i)) \in Nat /\ Cardinality(Sent(i)') \in Nat
      /\ Cardinality(Workers) \in Nat
      /\ IsFiniteSet(Sending(i)) /\ IsFiniteSet(Sent(i)) /\ IsFiniteSet(Sent(i)')
  BY <1>2, WorkerSets
<1>4. Sending(i)' \subseteq Sending(i) => Cardinality(Sending(i)') <= Cardinality(Sending(i))
  BY <1>2, SmallerSets
<1>5. Sent(i) \subseteq Sent(i)' => Cardinality(Sent(i)) <= Cardinality(Sent(i)')
  BY <1>2, SmallerSets
<1>6. CASE Idles(i)
  BY <1>1, <1>3, <1>4, <1>5, <1>6 DEF Idles, RolesKept, MovesAfforded
<1>7. CASE Sends(i)
  <2>1. PICK w \in Sending(i) : w \notin Sending(i)' /\ w \notin Sent(i) /\ w \in Sent(i)'
    BY <1>7 DEF Sends
  <2>2. CASE receipt[i]
    <3>1. Cardinality(Sending(i)') <= Cardinality(Sending(i)) - 1
      BY <1>2, <1>7, <2>1, <2>2, SmallerSets DEF Sends, RolesKept
    <3> QED BY <1>1, <1>3, <1>7, <2>2, <3>1 DEF Sends, RolesKept, MovesAfforded
  <2>3. CASE ~receipt[i]
    <3>1. Cardinality(Sent(i)) <= Cardinality(Sent(i)') - 1
      BY <1>2, <1>7, <2>1, <2>3, SmallerSets DEF Sends, RolesKept
    <3> QED BY <1>1, <1>3, <1>7, <2>3, <3>1 DEF Sends, RolesKept, MovesAfforded
  <2> QED BY <2>2, <2>3
<1>8. CASE Receipts(i)
  <2>1. Sending(i) \cap Sent(i) = {}
    BY DEF OneRole, Sending, IsSending, Sent, IsSent, PastRail, TypeOK
  <2>2. Cardinality(Sending(i) \cup Sent(i)) = Cardinality(Sending(i)) + Cardinality(Sent(i))
    <3>1. Cardinality(Sending(i) \cup Sent(i)) =
            Cardinality(Sending(i)) + Cardinality(Sent(i)) - Cardinality(Sending(i) \cap Sent(i))
      BY <1>3, FS_Union
    <3>2. Cardinality(Sending(i) \cap Sent(i)) = 0
      BY <2>1, FS_EmptySet
    <3> QED BY <1>3, <3>1, <3>2
  <2>3. Cardinality(Sending(i) \cup Sent(i)) <= Cardinality(Workers)
    BY <1>2, WorkerSets
  <2> QED BY <1>1, <1>3, <1>4, <1>8, <2>2, <2>3 DEF Receipts, MovesAfforded
<1>9. CASE PaysForSent(i)
  <2>1. PICK w \in Workers : Sent(i) \ {w} \subseteq Sent(i)'
    BY <1>9 DEF PaysForSent
  <2>2. Cardinality(Sent(i)) <= Cardinality(Sent(i)') + 1
    <3>1. /\ IsFiniteSet(Sent(i)' \cup {w})
          /\ Cardinality(Sent(i)' \cup {w}) \in {Cardinality(Sent(i)'), Cardinality(Sent(i)') + 1}
      BY <1>3, FS_AddElement
    <3>2. Sent(i) \in SUBSET (Sent(i)' \cup {w})
      BY <2>1
    <3>3. Cardinality(Sent(i)) <= Cardinality(Sent(i)' \cup {w})
      BY <3>1, <3>2, FS_Subset
    <3> QED BY <1>3, <3>1, <3>3
  <2> QED BY <1>1, <1>3, <1>4, <1>9, <2>2 DEF PaysForSent, MovesAfforded
<1>10. CASE PaysForSending(i)
  BY <1>1, <1>3, <1>4, <1>5, <1>10 DEF PaysForSending, RolesKept, MovesAfforded
<1> QED BY <1>6, <1>7, <1>8, <1>9, <1>10

\* Every step treats i in one of the five ways, slow workers included.
LEMMA MovesStep ==
  ASSUME SlowInv, TypeOK', Next, NEW i \in Intents
  PROVE  Idles(i) \/ Sends(i) \/ Receipts(i) \/ PaysForSent(i) \/ PaysForSending(i)
<1> USE DEF SlowInv, MoneyInv, BooksInv
<1>n. NoIntent \notin Intents
  BY ActorsAssumption
<1>a. \A w \in Workers : pc[w] # "idle" => current[w] \in Intents
  BY DEF TypeOK
<1>b. attempts[i] \in Nat /\ aborts \in Nat /\ receipt[i] \in BOOLEAN
  BY BoundsAssumption DEF TypeOK
<1>r. receipt[i] => receipt'[i]
  BY ReceiptStays
<1>s. \A v \in Workers :
         /\ v \in Sending(i) <=> IsSending(v, i)
         /\ v \in Sending(i)' <=> IsSending(v, i)'
         /\ v \in Sent(i) <=> IsSent(v, i)
         /\ v \in Sent(i)' <=> IsSent(v, i)'
  BY DEF Sending, Sent
<1>u. /\ Sending(i) \subseteq Workers /\ Sending(i)' \subseteq Workers
      /\ Sent(i) \subseteq Workers /\ Sent(i)' \subseteq Workers
  BY DEF Sending, Sent
<1>1. CASE Request \/ Chain
  <2>1. UNCHANGED <<attempts, receipt, aborts, workerVars>>
    BY <1>1 DEF Request, Gate, Handoff, HandoffAborts, Pause, Reject, ResumeGate, Resume,
                HaltAgent, RestoreAgent, Chain, StrayLands, StrayIsDropped
  <2>2. Debt(i)' <= Debt(i)
    <3>1. CASE Request
      BY <3>1 DEF Request, Gate, Handoff, HandoffAborts, Pause, Reject, ResumeGate, Resume,
                  HaltAgent, RestoreAgent, Debt, TypeOK
    <3>2. ASSUME NEW j \in Intents, StrayLands(j) PROVE Debt(i)' <= Debt(i)
      BY <3>2, Landing DEF StrayLands
    <3>3. ASSUME NEW j \in Intents, StrayIsDropped(j) PROVE Debt(i)' <= Debt(i)
      BY <3>3 DEF StrayIsDropped, Debt, TypeOK
    <3> QED BY <1>1, <3>1, <3>2, <3>3 DEF Chain
  <2> QED BY <2>1, <2>2 DEF Idles, RolesKept, Price, Sending, IsSending, Sent, IsSent
<1>2. ASSUME NEW w \in Workers, WorkerStep(w) \/ Abort(w)
      PROVE  Idles(i) \/ Sends(i) \/ Receipts(i) \/ PaysForSent(i) \/ PaysForSending(i)
  <2> USE DEF Goto
  <2>1. CASE RailAccepts(w) \/ RailTimesOut(w)
    <3>1. /\ pc[w] = "calling" /\ current[w] \in Intents
          /\ UNCHANGED <<attempts, receipt, current, batch, resumed, aborts>>
          /\ \E l \in {"received", "park", "retry"} : pc' = [pc EXCEPT ![w] = l]
          /\ \/ Transfer(current[w])
             \/ moved' = moved /\ stray' = stray \cup {current[w]}
      BY <2>1, <1>a DEF RailAccepts, RailTimesOut, LeaveCall, LeaveStray
    <3>2. /\ current[w] # i => Debt(i)' <= Debt(i)
          /\ Debt(i)' <= Debt(i) + 1
      <4>1. CASE Transfer(current[w])
        <5>1. Debt(i) \in Nat /\ Debt(i)' \in Nat
          BY DEF Debt, TypeOK
        <5> QED BY <3>1, <4>1, <5>1, Landing
      <4>2. CASE moved' = moved /\ stray' = stray \cup {current[w]}
        BY <3>1, <4>2 DEF Debt, TypeOK
      <4> QED BY <3>1, <4>1, <4>2
    <3>3. /\ Price(i)' = Price(i)
          /\ \A v \in Workers : /\ IsSending(v, i)' => IsSending(v, i)
                                /\ IsSent(v, i) => IsSent(v, i)'
      BY <3>1 DEF Price, IsSending, IsSent, PastRail, TypeOK
    <3>4. RolesKept(i)
      BY <3>1, <3>3, <1>s, <1>u DEF RolesKept
    <3>5. CASE current[w] # i
      BY <3>2, <3>3, <3>4, <3>5 DEF Idles
    <3>6. CASE current[w] = i
      <4>1. IsSending(w, i) /\ ~IsSending(w, i)' /\ ~IsSent(w, i) /\ IsSent(w, i)'
        BY <3>1, <3>6 DEF IsSending, IsSent, PastRail, OneRole, TypeOK
      <4> QED BY <3>2, <3>3, <3>4, <4>1, <1>s DEF Sends
    <3> QED BY <3>5, <3>6
  <2>2. CASE \/ Dispatch(w) \/ RailDeclines(w) \/ RailReverts(w) \/ Settle(w) \/ SettleAgain(w)
             \/ SettleThrows(w) \/ FailIntent(w) \/ FailIntentThrows(w)
    <3>1. /\ UNCHANGED <<attempts, receipt, moved, stray, current, batch, resumed, aborts>>
          /\ \E l \in Steps : /\ pc' = [pc EXCEPT ![w] = l]
                              /\ pc[w] \in PastRail => l \in PastRail
                              /\ l \in {"guarded", "calling"} => pc[w] = "guarded"
      BY <2>2 DEF Dispatch, RailDeclines, RailReverts, Settle, SettleAgain, SettleThrows,
                  FailIntent, FailIntentThrows, LeaveCall, PastRail, Steps
    <3>2. \A v \in Workers : /\ IsSending(v, i)' => IsSending(v, i)
                             /\ IsSent(v, i) => IsSent(v, i)'
      BY <3>1 DEF IsSending, IsSent, TypeOK
    <3>3. Debt(i)' <= Debt(i)
      BY <3>1 DEF Debt, TypeOK
    <3> QED BY <3>1, <3>2, <3>3, <1>s, <1>u DEF Idles, RolesKept, Price
  <2>3. CASE Record(w)
    <3>1. /\ UNCHANGED <<attempts, moved, stray, current, batch, resumed, aborts>>
          /\ pc[w] = "received" /\ pc' = [pc EXCEPT ![w] = "settle"]
          /\ receipt' = [receipt EXCEPT ![current[w]] = TRUE]
      BY <2>3 DEF Record
    <3>2. \A v \in Workers : /\ IsSending(v, i)' => IsSending(v, i)
                             /\ IsSent(v, i) => IsSent(v, i)'
      BY <3>1 DEF IsSending, IsSent, PastRail, TypeOK
    <3>3. Debt(i)' <= Debt(i) /\ Price(i)' = Price(i)
      BY <3>1 DEF Debt, Price, TypeOK
    <3>4. CASE receipt'[i] = receipt[i]
      BY <3>2, <3>3, <3>4, <1>s, <1>u DEF Idles, RolesKept
    <3>5. CASE receipt'[i] # receipt[i]
      <4>1. ~receipt[i] /\ receipt'[i]
        BY <3>1, <3>5 DEF TypeOK
      <4> QED BY <3>2, <3>3, <4>1, <1>s, <1>u DEF Receipts
    <3> QED BY <3>4, <3>5
  <2>4. CASE MarkSettled(w) \/ Announce(w)
    <3>1. /\ UNCHANGED <<attempts, receipt, moved, stray, batch, aborts>>
          /\ pc[w] \in {"mark_settled", "announce"}
          /\ pc' = [pc EXCEPT ![w] = "idle"]
          /\ current' = [current EXCEPT ![w] = NoIntent]
          /\ resumed' = [resumed EXCEPT ![w] = @ \ {current[w]}]
      BY <2>4 DEF MarkSettled, Announce, Finish
    <3>2. \A v \in Workers : IsSending(v, i)' => IsSending(v, i)
      BY <3>1, <1>n DEF IsSending, OneRole, TypeOK
    <3>3. ASSUME ~receipt[i], NEW v \in Workers, IsSent(v, i) PROVE IsSent(v, i)'
      BY <3>1, <3>3 DEF IsSent, OneRole, PastRail, TypeOK
    <3>4. Debt(i)' <= Debt(i) /\ Price(i)' = Price(i)
      BY <3>1 DEF Debt, Price, TypeOK
    <3> QED BY <3>1, <3>2, <3>3, <3>4, <1>s, <1>u DEF Idles, RolesKept
  <2>5. CASE Retry(w) \/ Park(w) \/ MarkFailed(w)
    <3>1. /\ UNCHANGED <<receipt, moved, stray, batch, aborts>>
          /\ current[w] \in Intents
          /\ pc[w] \in {"retry", "park", "mark_failed"}
          /\ attempts' = [attempts EXCEPT ![current[w]] = @ + 1]
      BY <2>5, <1>a DEF Retry, Park, MarkFailed, CountAttempt
    <3>2. \/ /\ pc' = [pc EXCEPT ![w] = "announce"]
             /\ UNCHANGED <<current, resumed>>
          \/ /\ pc' = [pc EXCEPT ![w] = "idle"]
             /\ current' = [current EXCEPT ![w] = NoIntent]
             /\ resumed' = [resumed EXCEPT ![w] = @ \ {current[w]}]
      BY <2>5 DEF Retry, Park, MarkFailed, GiveUpOrFinish, Finish
    <3>3. \A v \in Workers : IsSending(v, i)' => IsSending(v, i)
      <4>1. /\ \A v \in Workers : v # w => pc'[v] = pc[v] /\ current'[v] = current[v]
                                        /\ resumed'[v] = resumed[v]
            /\ pc'[w] \notin {"guarded", "calling"}
            /\ resumed[w] \subseteq resumed'[w] \cup {current[w]}
        BY <3>2 DEF TypeOK
      <4>2. batch' = batch /\ \A v \in Workers : current[v] \notin batch[v]
        BY <2>5 DEF Retry, Park, MarkFailed, OneRole
      <4> QED BY <4>1, <4>2 DEF IsSending
    <3>4. \A v \in Workers : v # w => (IsSent(v, i) => IsSent(v, i)')
      BY <3>2 DEF IsSent, TypeOK
    <3>5. Debt(i)' <= Debt(i)
      BY <3>1 DEF Debt, TypeOK
    <3>6. CASE current[w] = i
      <4>1. Price(i)' = Price(i) + 1
        BY <3>1, <3>6, <1>b DEF Price, TypeOK
      <4>2. Sending(i)' \subseteq Sending(i)
        BY <3>3, <1>s, <1>u
      <4>3. Sent(i) \ {w} \subseteq Sent(i)'
        BY <3>4, <1>s, <1>u
      <4> QED BY <3>1, <3>5, <4>1, <4>2, <4>3 DEF PaysForSent
    <3>7. CASE current[w] # i
      <4>1. Price(i)' = Price(i)
        BY <3>1, <3>7 DEF Price, TypeOK
      <4>2. IsSent(w, i) => IsSent(w, i)'
        BY <3>7 DEF IsSent
      <4> QED BY <3>1, <3>3, <3>4, <3>5, <4>1, <4>2, <1>s, <1>u DEF Idles, RolesKept
    <3> QED BY <3>6, <3>7
  <2>6. CASE Abort(w)
    <3>1. /\ UNCHANGED <<attempts, receipt, moved>>
          /\ aborts' = aborts + 1
          /\ batch' = [batch EXCEPT ![w] = {}]
          /\ pc' = [pc EXCEPT ![w] = "idle"]
          /\ current' = [current EXCEPT ![w] = NoIntent]
          /\ resumed' = [resumed EXCEPT ![w] = {}]
          /\ \/ stray' = stray
             \/ pc[w] = "calling" /\ stray' = stray \cup {current[w]}
      BY <2>6 DEF Abort, LeaveCall, LeaveStray
    <3>2. Price(i)' = Price(i) + 1
      BY <3>1, <1>b DEF Price
    <3>3. \A v \in Workers : IsSending(v, i)' => IsSending(v, i)
      BY <3>1, <1>n DEF IsSending, TypeOK
    <3>4. \A v \in Workers : v # w => (IsSent(v, i) => IsSent(v, i)')
      BY <3>1 DEF IsSent, TypeOK
    <3>5. CASE stray' = stray
      <4>1. Debt(i)' <= Debt(i)
        BY <3>1, <3>5 DEF Debt, TypeOK
      <4> QED BY <3>1, <3>2, <3>3, <3>4, <4>1, <1>s, <1>u DEF PaysForSent
    <3>6. CASE pc[w] = "calling" /\ stray' = stray \cup {current[w]}
      <4>1. Debt(i)' <= Debt(i) + 1
        BY <3>1, <3>6 DEF Debt, TypeOK
      <4>2. ~IsSent(w, i)
        BY <3>6 DEF IsSent, PastRail
      <4> QED BY <3>1, <3>2, <3>3, <3>4, <4>1, <4>2, <1>s, <1>u DEF PaysForSending, RolesKept
    <3> QED BY <3>1, <3>5, <3>6
  <2>7. ASSUME NEW j \in Intents, Start(w, j) PROVE Idles(i)
    <3>1. /\ UNCHANGED <<attempts, receipt, moved, stray, resumed, aborts>>
          /\ j \in batch[w] /\ pc[w] = "idle"
          /\ batch' = [batch EXCEPT ![w] = @ \ {j}]
          /\ current' = [current EXCEPT ![w] = j]
          /\ \E l \in Steps : /\ pc' = [pc EXCEPT ![w] = l]
                              /\ l \in {"guarded", "calling"} => j \notin resumed[w]
      BY <2>7 DEF Start, Steps
    <3>2. \A v \in Workers : IsSending(v, i)' => IsSending(v, i)
      BY <3>1 DEF IsSending, TypeOK
    <3>3. \A v \in Workers : IsSent(v, i) => IsSent(v, i)'
      BY <3>1 DEF IsSent, PastRail, TypeOK
    <3>4. Debt(i)' <= Debt(i) /\ Price(i)' = Price(i)
      BY <3>1 DEF Debt, Price, TypeOK
    <3> QED BY <3>1, <3>2, <3>3, <3>4, <1>s, <1>u DEF Idles, RolesKept
  <2>8. ASSUME NEW j \in Intents, Reclaim(w, j) PROVE Idles(i)
    <3>1. UNCHANGED <<attempts, receipt, moved, stray, workerVars, aborts>>
      BY <2>8 DEF Reclaim
    <3>2. Debt(i)' <= Debt(i) /\ Price(i)' = Price(i)
      BY <3>1 DEF Debt, Price, TypeOK
    <3> QED BY <3>1, <3>2 DEF Idles, RolesKept, Sending, IsSending, Sent, IsSent
  <2>9. CASE Claim(w)
    <3>1. PICK S \in SUBSET Intents :
            /\ batch' = [batch EXCEPT ![w] = S]
            /\ resumed' = [resumed EXCEPT ![w] = {j \in S : receipt[j]}]
      BY <2>9 DEF Claim
    <3>2. UNCHANGED <<attempts, receipt, moved, stray, pc, current, aborts>>
      BY <2>9 DEF Claim
    <3>3. ASSUME receipt[i], NEW v \in Workers, IsSending(v, i)' PROVE IsSending(v, i)
      BY <3>1, <3>2, <3>3 DEF IsSending, TypeOK
    <3>4. Debt(i)' <= Debt(i) /\ Price(i)' = Price(i)
      BY <3>2 DEF Debt, Price, TypeOK
    <3>5. \A v \in Workers : IsSent(v, i) => IsSent(v, i)'
      BY <3>2 DEF IsSent
    <3> QED BY <3>2, <3>3, <3>4, <3>5, <1>s, <1>u DEF Idles, RolesKept
  <2> QED BY <1>2, <2>1, <2>2, <2>3, <2>4, <2>5, <2>6, <2>7, <2>8, <2>9 DEF WorkerStep
<1> QED BY <1>1, <1>2 DEF Next

\* However slow the workers, whatever fails and however often they crash: attempts
\* pass the ceiling by fewer than there are workers, and money moves at most once
\* per attempt, per abandoned cycle and per worker.
THEOREM SpendingIsBounded ==
  ASSUME IsFiniteSet(Workers) PROVE Spec => []SpendingBounded
<1> DEFINE Budget == \A i \in Intents : AttemptsPaid(i) /\ MovesAfforded(i)
<1>1. TypeOK /\ Budget => SpendingBounded
  <2> SUFFICES ASSUME TypeOK, Budget, NEW i \in Intents
               PROVE  /\ attempts[i] < MaxTotalAttempts + Cardinality(Workers)
                      /\ Debt(i) <= Price(i) + Cardinality(Workers)
    BY DEF SpendingBounded, Debt, Price
  <2>1. /\ Working(i) \subseteq Workers /\ Sending(i) \subseteq Workers
        /\ Sent(i) \subseteq Workers
    BY DEF Working, Sending, Sent
  <2>2. /\ Cardinality(Working(i)) \in Nat /\ Cardinality(Sending(i)) \in Nat
        /\ Cardinality(Sent(i)) \in Nat /\ Cardinality(Workers) \in Nat
        /\ Cardinality(Sent(i)) <= Cardinality(Workers)
    BY <2>1, WorkerSets
  <2>3. Debt(i) \in Nat /\ Price(i) \in Nat /\ attempts[i] \in Nat /\ MaxTotalAttempts \in Nat
    BY BoundsAssumption DEF TypeOK, Debt, Price
  <2> QED BY <2>2, <2>3 DEF AttemptsPaid, MovesAfforded
<1>2. Init => Budget
  <2> SUFFICES ASSUME Init, NEW i \in Intents PROVE AttemptsPaid(i) /\ MovesAfforded(i)
    OBVIOUS
  <2>1. /\ Working(i) = {} /\ Sent(i) = {} /\ attempts[i] = 0 /\ Debt(i) = 0 /\ ~receipt[i]
        /\ Price(i) = 0
    BY ActorsAssumption
    DEF Init, Working, IsWorking, Holds, Sent, IsSent, Debt, Price
  <2>2. Cardinality({}) = 0 /\ Cardinality(Workers) \in Nat /\ MaxTotalAttempts \in Nat \ {0}
    BY FS_EmptySet, FS_CardinalityType, BoundsAssumption
  <2> QED BY <2>1, <2>2 DEF AttemptsPaid, MovesAfforded
<1>3. SlowInv /\ TypeOK' /\ [Next]_vars /\ Budget => Budget'
  <2> SUFFICES ASSUME SlowInv, TypeOK', [Next]_vars, NEW i \in Intents,
                      AttemptsPaid(i), MovesAfforded(i)
               PROVE  AttemptsPaid(i)' /\ MovesAfforded(i)'
    OBVIOUS
  <2>1. CASE Next
    BY <2>1, AttemptsStep, AttemptsKept, MovesStep, MovesKept DEF SlowInv, MoneyInv, BooksInv
  <2>2. CASE UNCHANGED vars
    BY <2>2 DEF vars, AttemptsPaid, MovesAfforded, Working, IsWorking, Holds, Announcing,
                Sending, IsSending, Sent, IsSent, Debt, Price
  <2> QED BY <2>1, <2>2
<1> HIDE DEF Budget
<1> QED BY <1>1, <1>2, <1>3, SlowInvariant, TypeCorrect, PTL DEF Spec

----------------------------------------------------------------------------
(* Timely workers.  One worker at a time works on a row, so the ceiling is  *)
(* met exactly, and MovesPaidFor becomes a bound in the constants.          *)

\* The ceiling is not passed, nor reached while a worker may still count.
Capped(i) ==
    /\ attempts[i] <= MaxTotalAttempts
    /\ Working(i) # {} => attempts[i] < MaxTotalAttempts

\* With timely workers no row passes the attempt ceiling.
LEMMA CeilingHolds == ASSUME SlowWorkers = {} PROVE Spec => [](\A i \in Intents : Capped(i))
<1>1. Init => \A i \in Intents : Capped(i)
  BY BoundsAssumption, ActorsAssumption DEF Init, Capped, Working, IsWorking, Holds
<1>2. TimelyInv /\ SlowInv /\ TypeOK' /\ [Next]_vars /\ (\A i \in Intents : Capped(i))
        => (\A i \in Intents : Capped(i))'
  <2> SUFFICES ASSUME TimelyInv, SlowInv, TypeOK', [Next]_vars, NEW i \in Intents, Capped(i)
               PROVE  Capped(i)'
    OBVIOUS
  <2>1. attempts[i] \in Nat /\ attempts'[i] \in Nat /\ MaxTotalAttempts \in Nat
    BY BoundsAssumption DEF TypeOK, TimelyInv, MoneyInv, BooksInv
  <2>2. CASE KeepsAttempts(i)
    BY <2>2 DEF KeepsAttempts, Capped
  <2>3. CASE TakesUp(i)
    BY <2>1, <2>3 DEF TakesUp, Capped
  <2>4. CASE Counts(i)
    <3>1. \A v, w \in Working(i) : v = w
      BY DEF Working, IsWorking, TimelyInv, ClaimInv, ExclusiveClaim
    <3>2. Working(i) # {} /\ Working(i)' = {}
      BY <2>4, <3>1 DEF Counts
    <3> QED BY <2>1, <2>4, <3>2 DEF Counts, Capped
  <2>5. CASE UNCHANGED vars
    BY <2>5 DEF vars, Capped, Working, IsWorking, Holds, Announcing
  <2> QED BY <2>2, <2>3, <2>4, <2>5, AttemptsStep
<1> QED BY <1>1, <1>2, TimelyInvariant, SlowInvariant, TypeCorrect, PTL DEF Spec

\* A row that is not parked or finished is below the ceiling.
BelowCeiling(i) ==
    rowStatus[i] \in {"absent", "pending", "dispatching", "dispatched"}
        => attempts[i] < MaxTotalAttempts

\* Every step of timely workers parks or finishes a row that meets the ceiling.
LEMMA BelowCeilingStep ==
  ASSUME TimelyInv, TypeOK', Next, NEW i \in Intents, Capped(i), BelowCeiling(i)
  PROVE  BelowCeiling(i)'
<1> USE DEF TimelyInv, MoneyInv, BooksInv
<1>a. \A w \in Workers : pc[w] # "idle" => current[w] \in Intents
  BY DEF TypeOK
<1>b. attempts[i] \in Nat /\ MaxTotalAttempts \in Nat /\ MaxDispatchAttempts \in Nat
      /\ MaxDispatchAttempts <= MaxTotalAttempts
  BY BoundsAssumption DEF TypeOK
<1>1. CASE Request \/ Chain
  <2>1. /\ UNCHANGED attempts
        /\ rowStatus'[i] # rowStatus[i] => status[i] = "approved"
    BY <1>1 DEF Request, Gate, Handoff, HandoffAborts, Pause, Reject, ResumeGate, Resume,
                HaltAgent, RestoreAgent, Chain, StrayLands, StrayIsDropped, TypeOK
  <2>2. status[i] = "approved" => rowStatus[i] = "absent"
    BY DEF LedgerConsistent, HandedOff
  <2> QED BY <2>1, <2>2 DEF BelowCeiling
<1>2. ASSUME NEW w \in Workers, WorkerStep(w) \/ Abort(w)
      PROVE  BelowCeiling(i)'
  <2>1. CASE \/ Dispatch(w) \/ RailAccepts(w) \/ RailDeclines(w) \/ RailTimesOut(w)
             \/ RailReverts(w) \/ Settle(w) \/ SettleAgain(w) \/ SettleThrows(w)
             \/ FailIntent(w) \/ FailIntentThrows(w) \/ Announce(w) \/ Abort(w)
             \/ \E j \in Intents : Start(w, j)
    <3>1. UNCHANGED <<rowStatus, attempts>>
      BY <2>1 DEF Dispatch, RailAccepts, RailDeclines, RailTimesOut, RailReverts, Settle,
                  SettleAgain, SettleThrows, FailIntent, FailIntentThrows, Announce, Abort, Start
    <3> QED BY <3>1 DEF BelowCeiling
  <2>2. CASE Record(w)
    <3>1. /\ UNCHANGED attempts
          /\ pc[w] = "received"
          /\ current[w] \in Intents
          /\ rowStatus' = [rowStatus EXCEPT ![current[w]] = "dispatched"]
      BY <2>2, <1>a DEF Record
    <3>2. CASE i = current[w]
      <4>1. w \in Working(i)
        BY <3>1, <3>2 DEF Working, IsWorking, Holds, Announcing
      <4> QED BY <3>1, <4>1 DEF Capped, BelowCeiling
    <3>3. CASE i # current[w]
      BY <3>1, <3>3 DEF BelowCeiling, TypeOK
    <3> QED BY <3>2, <3>3
  <2>3. CASE MarkSettled(w)
    BY <2>3, <1>a DEF MarkSettled, BelowCeiling, TypeOK
  <2>4. CASE Retry(w) \/ Park(w) \/ MarkFailed(w)
    <3>1. /\ current[w] \in Intents
          /\ attempts' = [attempts EXCEPT ![current[w]] = @ + 1]
          /\ \E s \in {"pending", "reconciling", "failed"} :
                /\ rowStatus' = [rowStatus EXCEPT ![current[w]] = s]
                /\ s = "pending" => ~(attempts[current[w]] + 1 >= MaxDispatchAttempts)
      BY <2>4, <1>a DEF Retry, Park, MarkFailed, CountAttempt
    <3>2. CASE i = current[w]
      BY <3>1, <3>2, <1>b DEF BelowCeiling, TypeOK
    <3>3. CASE i # current[w]
      BY <3>1, <3>3 DEF BelowCeiling, TypeOK
    <3> QED BY <3>2, <3>3
  <2>5. ASSUME NEW j \in Intents, Reclaim(w, j) PROVE BelowCeiling(i)'
    <3>1. /\ InFlight(j) /\ UNCHANGED attempts
          /\ rowStatus' = [rowStatus EXCEPT ![j] = "pending"]
      BY <2>5 DEF Reclaim
    <3> QED BY <3>1 DEF InFlight, BelowCeiling, TypeOK
  <2>6. CASE Claim(w)
    <3>1. PICK S \in SUBSET {j \in Intents : Claimable(j)} :
             rowStatus' = [j \in Intents |-> IF j \in S THEN "dispatching" ELSE rowStatus[j]]
      BY <2>6 DEF Claim
    <3>2. UNCHANGED attempts
      BY <2>6 DEF Claim
    <3> QED BY <3>1, <3>2 DEF Claimable, BelowCeiling
  <2> QED BY <1>2, <2>1, <2>2, <2>3, <2>4, <2>5, <2>6 DEF WorkerStep
<1> QED BY <1>1, <1>2 DEF Next

\* No dispatching intent is left with a row that nobody can claim or reclaim and that
\* is not parked for operators.
THEOREM RowsAreRecoverable == ASSUME SlowWorkers = {} PROVE Spec => []RowRecoverable
<1> DEFINE Below == \A i \in Intents : BelowCeiling(i)
           Cap == \A i \in Intents : Capped(i)
<1>1. Init => Below
  BY BoundsAssumption DEF Init, BelowCeiling
<1>2. TimelyInv /\ TypeOK' /\ [Next]_vars /\ Cap /\ Below => Below'
  <2>1. CASE UNCHANGED vars
    BY <2>1 DEF vars, BelowCeiling
  <2> QED BY <2>1, BelowCeilingStep
<1>3. TimelyInv /\ Below => RowRecoverable
  <2> SUFFICES ASSUME TimelyInv, NEW i \in Intents, BelowCeiling(i), status[i] = "dispatching"
               PROVE  \/ Claimable(i)
                      \/ rowStatus[i] = "reconciling" /\ attempts[i] >= MaxTotalAttempts
                      \/ InFlight(i)
    BY DEF RowRecoverable, TimelyInv, ClaimInv, LocksVisible
  <2>1. rowStatus[i] \in {"pending", "dispatching", "dispatched", "reconciling"}
    BY DEF TimelyInv, MoneyInv, BooksInv, TypeOK, RowStatuses, LedgerConsistent, HandedOff,
           ClaimInv, LocksVisible
  <2>2. attempts[i] \in Nat /\ MaxTotalAttempts \in Nat
    BY BoundsAssumption DEF TimelyInv, MoneyInv, BooksInv, TypeOK
  <2> QED BY <2>1, <2>2 DEF BelowCeiling, Claimable, InFlight
<1> HIDE DEF Below, Cap
<1>4. Spec => []Cap
  BY CeilingHolds DEF Cap
<1> QED BY <1>1, <1>2, <1>3, <1>4, TimelyInvariant, TypeCorrect, PTL DEF Spec

\* With timely workers a row is tried at most MaxTotalAttempts times, and the money
\* of an intent moves at most once more than attempts and abandoned cycles allow.
THEOREM TimelySpendingIsBounded ==
  ASSUME SlowWorkers = {}
  PROVE  Spec => [](\A i \in Intents : /\ attempts[i] <= MaxTotalAttempts
                                       /\ moved[i] <= MaxTotalAttempts + MaxAborts + 1)
<1>1. TypeOK /\ MovesPaidFor /\ (\A i \in Intents : Capped(i))
        => \A i \in Intents : /\ attempts[i] <= MaxTotalAttempts
                              /\ moved[i] <= MaxTotalAttempts + MaxAborts + 1
  <2> SUFFICES ASSUME TypeOK, MovesPaidFor, NEW i \in Intents, Capped(i)
               PROVE  /\ attempts[i] <= MaxTotalAttempts
                      /\ moved[i] <= MaxTotalAttempts + MaxAborts + 1
    OBVIOUS
  <2>1. /\ moved[i] \in Nat /\ attempts[i] \in Nat /\ aborts \in 0 .. MaxAborts
        /\ MaxAborts \in Nat /\ MaxTotalAttempts \in Nat
    BY BoundsAssumption DEF TypeOK
  <2>2. moved[i] <= attempts[i] + aborts + 1
    BY <2>1 DEF MovesPaidFor
  <2> QED BY <2>1, <2>2 DEF Capped
<1> QED BY <1>1, CeilingHolds, MovesArePaidFor, TypeCorrect, PTL

----------------------------------------------------------------------------
(* Exactly once.  Where workers are timely, no cycle is abandoned and no    *)
(* rail call is given up, both promises of the documentation are kept; the  *)
(* second needs the audit writes to succeed as well.                        *)

\* Locks never expire under a worker, no cycle is abandoned, and no rail call is given up.
Calm == SlowWorkers = {} /\ MaxAborts = 0 /\ "timeout" \notin Faults

\* The rail has answered for i.
Answered(i) == receipt[i] \/ \E w \in Workers : current[w] = i /\ pc[w] = "received"

\* Money that moved by session key has been answered for; the bank moves it once.
Once(i) ==
    /\ moved[i] <= 1
    /\ RailOf(i) \in SessionKeyRails /\ moved[i] > 0 => Answered(i)

OnceInv == stray = {} /\ \A i \in Intents : Once(i)

\* The answer of a session-key rail is always accepted as a receipt.
LEMMA SessionKeyReceipts ==
  ASSUME NEW i \in Intents, RailOf(i) \in SessionKeyRails
  PROVE  ReceiptOk(i)
<1>1. ActionOf[i] \in ActionTypes
  BY ActorsAssumption
<1>2. RailOf(i) = CASE ActionOf[i] = "onchain_transfer" -> "onchain_base"
                    [] ActionOf[i] = "x402_settle"      -> "x402_base"
                    [] ActionOf[i] = "escrow_release"   -> "escrow_base"
                    [] ActionOf[i] = "erp_writeback"    -> "erp_writeback"
                    [] OTHER                            -> "bank_ach"
  BY <1>1 DEF RailOf, railFor
<1>3. CASE ActionOf[i] = "onchain_transfer"
  <2>1. RailOf(i) = "onchain_base"
    BY <1>2, <1>3
  <2> QED BY <1>3, <2>1 DEF ReceiptOk, DemandedFields, ReceiptFields
<1>4. CASE ActionOf[i] # "onchain_transfer"
  <2>1. ActionOf[i] \in {"x402_settle", "escrow_release"}
    BY <1>1, <1>2, <1>4 DEF SessionKeyRails, ActionTypes
  <2>2. DemandedFields(ActionOf[i]) = {}
    BY <2>1 DEF DemandedFields
  <2> QED BY <2>2 DEF ReceiptOk
<1> QED BY <1>3, <1>4

\* Every step of an undisturbed system keeps the money of i moved at most once.
LEMMA OnceStep ==
  ASSUME Calm, TimelyInv, TypeOK', Next, OnceInv
  PROVE  OnceInv'
<1> USE DEF TimelyInv, MoneyInv, BooksInv
<1>n. NoIntent \notin Intents
  BY ActorsAssumption
<1>a. \A w \in Workers : pc[w] # "idle" => current[w] \in Intents
  BY DEF TypeOK
<1>r. \A i \in Intents : receipt[i] => receipt'[i]
  BY ReceiptStays
<1>k. ASSUME UNCHANGED <<moved, stray>>,
             \A i \in Intents : \A w \in Workers :
                current[w] = i /\ pc[w] = "received" => Answered(i)'
      PROVE  OnceInv'
  BY <1>k, <1>r DEF OnceInv, Once, Answered
<1>1. CASE Request
  <2>1. UNCHANGED <<moved, stray, pc, current>>
    BY <1>1 DEF Request, Gate, Handoff, HandoffAborts, Pause, Reject, ResumeGate, Resume,
                HaltAgent, RestoreAgent
  <2> QED BY <2>1, <1>k DEF Answered
<1>2. ~Chain
  BY DEF Chain, StrayLands, StrayIsDropped, OnceInv
<1>3. ASSUME NEW w \in Workers, WorkerStep(w) \/ Abort(w)
      PROVE  OnceInv'
  <2> USE DEF Goto
  <2>1. CASE RailAccepts(w)
    <3>1. /\ pc[w] = "calling" /\ current[w] \in Intents /\ Transfer(current[w])
          /\ UNCHANGED <<attempts, receipt, current>>
          /\ pc' = [pc EXCEPT ![w] = IF ReceiptOk(current[w]) THEN "received" ELSE "park"]
      BY <2>1, <1>a DEF RailAccepts, LeaveCall
    <3>2. stray' = {}
      BY <3>1 DEF Transfer, OnceInv
    <3>3. ASSUME NEW i \in Intents, i # current[w] PROVE Once(i)'
      <4>1. moved'[i] = moved[i]
        BY <3>1, <3>3 DEF Transfer, TypeOK
      <4>2. Answered(i) => Answered(i)'
        BY <3>1, <3>3 DEF Answered, TypeOK
      <4> QED BY <4>1, <4>2 DEF Once, OnceInv
    <3>4. ASSUME NEW i \in Intents, i = current[w] PROVE Once(i)'
      <4>1. CASE RailOf(i) \in SessionKeyRails
        <5>1. ~receipt[i]
          BY <3>1, <3>4 DEF ClaimInv, FreshSnapshots
        <5>2. \A v \in Workers \ {w} : current[v] # i
          BY <3>1, <3>4, OwnRow
        <5>3. moved[i] = 0
          BY <3>1, <3>4, <4>1, <5>1, <5>2 DEF OnceInv, Once, Answered, TypeOK
        <5>4. moved'[i] = 1
          BY <3>1, <3>4, <4>1, <5>3 DEF Transfer, TypeOK
        <5>5. Answered(i)'
          BY <3>1, <3>4, <4>1, SessionKeyReceipts DEF Answered, TypeOK
        <5> QED BY <5>4, <5>5 DEF Once
      <4>2. CASE RailOf(i) \notin SessionKeyRails
        <5>1. moved'[i] = 1
          BY <3>1, <3>4, <4>2 DEF Transfer, TypeOK
        <5> QED BY <4>2, <5>1 DEF Once
      <4> QED BY <4>1, <4>2
    <3> QED BY <3>2, <3>3, <3>4 DEF OnceInv
  <2>2. CASE Record(w)
    <3>1. /\ UNCHANGED <<moved, stray, current>>
          /\ current[w] \in Intents
          /\ receipt' = [receipt EXCEPT ![current[w]] = TRUE]
          /\ pc' = [pc EXCEPT ![w] = "settle"]
      BY <2>2, <1>a DEF Record
    <3>2. ASSUME NEW i \in Intents, NEW v \in Workers, current[v] = i, pc[v] = "received"
          PROVE  Answered(i)'
      BY <3>1, <3>2 DEF Answered, TypeOK
    <3> QED BY <3>1, <3>2, <1>k
  <2>3. CASE \/ Dispatch(w) \/ RailDeclines(w) \/ RailReverts(w) \/ Settle(w) \/ SettleAgain(w)
             \/ SettleThrows(w) \/ MarkSettled(w) \/ FailIntent(w) \/ FailIntentThrows(w)
             \/ MarkFailed(w) \/ Retry(w) \/ Park(w) \/ Announce(w)
             \/ \E j \in Intents : Start(w, j)
    <3>1. /\ UNCHANGED <<moved, stray>>
          /\ pc[w] # "received"
          /\ \A v \in Workers : v # w => pc'[v] = pc[v] /\ current'[v] = current[v]
      BY <2>3 DEF Dispatch, RailDeclines, RailReverts, Settle, SettleAgain, SettleThrows,
                  MarkSettled, FailIntent, FailIntentThrows, MarkFailed, Retry, Park, Announce,
                  Start, LeaveCall, GiveUpOrFinish, Finish, TypeOK
    <3> QED BY <3>1, <1>k DEF Answered
  <2>4. CASE Claim(w) \/ \E j \in Intents : Reclaim(w, j)
    <3>1. UNCHANGED <<moved, stray, pc, current>>
      BY <2>4 DEF Claim, Reclaim
    <3> QED BY <3>1, <1>k DEF Answered
  <2>5. ~RailTimesOut(w) /\ ~Abort(w)
    BY DEF Calm, RailTimesOut, Abort, TypeOK
  <2> QED BY <1>3, <2>1, <2>2, <2>3, <2>4, <2>5 DEF WorkerStep
<1> QED BY <1>1, <1>2, <1>3 DEF Next

\* With timely workers, no abandoned cycle and no rail call that times out, money
\* moves at most once, whatever rails decline or revert and whatever settlement or
\* audit write fails in between.
THEOREM UndisturbedMovesOnce == ASSUME Calm PROVE Spec => []MovesAtMostOnce
<1>1. Init => OnceInv
  BY DEF Init, OnceInv, Once
<1>2. TimelyInv /\ TypeOK' /\ [Next]_vars /\ OnceInv => OnceInv'
  <2>1. CASE UNCHANGED vars
    BY <2>1 DEF vars, OnceInv, Once, Answered
  <2> QED BY <2>1, OnceStep
<1>3. OnceInv => MovesAtMostOnce
  BY DEF OnceInv, Once, MovesAtMostOnce
<1>4. SlowWorkers = {}
  BY DEF Calm
<1> QED BY <1>1, <1>2, <1>3, <1>4, TimelyInvariant, TypeCorrect, PTL DEF Spec

\* A failed intent never moved, and no worker is left to move it: its row is final
\* or about to be.
FailedInv ==
    /\ \A w \in Workers : pc[w] = "fail_intent" => moved[current[w]] = 0
    /\ \A i \in Intents : status[i] = "failed" =>
          /\ moved[i] = 0
          /\ \/ rowStatus[i] = "failed"
             \/ \E w \in Workers : current[w] = i /\ pc[w] = "mark_failed"

\* The row of a failed intent is not taken up, and only marked failed.
LEMMA FailedIsFinal ==
  ASSUME TimelyInv, FailedInv, NEW i \in Intents, status[i] = "failed"
  PROVE  /\ ~Claimable(i)
         /\ \A w \in Workers : i \notin batch[w] /\ (current[w] = i => pc[w] = "mark_failed")
<1> USE DEF TimelyInv, MoneyInv, BooksInv
<1>1. CASE rowStatus[i] = "failed"
  <2>1. \A w \in Workers : ~Holds(w, i) \/ Announcing(w, i)
    BY <1>1 DEF ClaimInv, ExclusiveClaim, InFlight
  <2>2. \A w \in Workers : ~Announcing(w, i)
    BY <1>1 DEF ClaimInv, RowsMatchIntents, Announcing
  <2> QED BY <1>1, <2>1, <2>2 DEF Holds, Claimable
<1>2. CASE \E w \in Workers : current[w] = i /\ pc[w] = "mark_failed"
  <2>1. PICK w \in Workers : current[w] = i /\ pc[w] = "mark_failed"
    BY <1>2
  <2>2. /\ \A v \in Workers : i \notin batch[v]
        /\ \A v \in Workers \ {w} : current[v] # i
        /\ InFlight(i)
    BY <2>1, OwnRow
  <2> QED BY <2>1, <2>2 DEF InFlight, Claimable
<1> QED BY <1>1, <1>2 DEF FailedInv

\* Every step of an undisturbed system that never loses an audit write keeps failed
\* intents unpaid.
LEMMA FailedStep ==
  ASSUME Calm, "audit" \notin Faults, TimelyInv, TypeOK', Next, OnceInv, FailedInv
  PROVE  FailedInv'
<1> USE DEF TimelyInv, MoneyInv, BooksInv
<1>n. NoIntent \notin Intents
  BY ActorsAssumption
<1>a. \A w \in Workers : pc[w] # "idle" => current[w] \in Intents
  BY DEF TypeOK
<1>f. \A i \in Intents : status[i] = "failed" =>
         /\ ~Claimable(i)
         /\ \A w \in Workers : i \notin batch[w] /\ (current[w] = i => pc[w] = "mark_failed")
  BY FailedIsFinal
<1>1. CASE Request
  <2>1. /\ UNCHANGED <<moved, pc, current>>
        /\ \A i \in Intents : status'[i] = "failed" => status[i] = "failed"
        /\ \A i \in Intents : status[i] = "failed" => rowStatus'[i] = rowStatus[i]
    BY <1>1 DEF Request, Gate, Handoff, HandoffAborts, Pause, Reject, ResumeGate, Resume, Move,
                HaltAgent, RestoreAgent, TypeOK
  <2> QED BY <2>1 DEF FailedInv
<1>2. ~Chain
  BY DEF Chain, StrayLands, StrayIsDropped, OnceInv
<1>3. ASSUME NEW w \in Workers, WorkerStep(w) \/ Abort(w)
      PROVE  FailedInv'
  <2> USE DEF Goto
  <2>1. CASE RailAccepts(w)
    <3>1. /\ pc[w] = "calling" /\ current[w] \in Intents
          /\ UNCHANGED <<status, rowStatus, current>>
          /\ \E l \in {"received", "park"} : pc' = [pc EXCEPT ![w] = l]
          /\ Transfer(current[w])
      BY <2>1, <1>a DEF RailAccepts, LeaveCall
    <3>2. \A v \in Workers \ {w} : current[v] # current[w]
      BY <3>1, OwnRow
    <3>3. \A i \in Intents : status[i] = "failed" => i # current[w]
      BY <3>1, <1>f
    <3>4. \A i \in Intents : i # current[w] => moved'[i] = moved[i]
      BY <3>1 DEF Transfer, TypeOK
    <3>5. ASSUME NEW v \in Workers, pc'[v] = "fail_intent" PROVE moved'[current'[v]] = 0
      BY <3>1, <3>2, <3>4, <3>5, <1>a DEF FailedInv, TypeOK
    <3> QED BY <3>1, <3>3, <3>4, <3>5 DEF FailedInv, TypeOK
  <2>2. CASE RailReverts(w)
    <3>1. /\ pc[w] = "calling" /\ current[w] \in Intents /\ RailOf(current[w]) = "onchain_base"
          /\ UNCHANGED <<status, rowStatus, moved, current>>
          /\ pc' = [pc EXCEPT ![w] = "fail_intent"]
      BY <2>2, <1>a DEF RailReverts, LeaveCall
    <3>2. /\ ~receipt[current[w]]
          /\ \A v \in Workers \ {w} : current[v] # current[w]
      BY <3>1, OwnRow DEF ClaimInv, FreshSnapshots
    <3>3. ~Answered(current[w])
      BY <3>1, <3>2 DEF Answered
    <3>4. moved[current[w]] = 0
      BY <3>1, <3>3 DEF OnceInv, Once, SessionKeyRails, TypeOK
    <3> QED BY <3>1, <3>4 DEF FailedInv, TypeOK
  <2>3. CASE FailIntent(w)
    <3>1. /\ pc[w] = "fail_intent" /\ current[w] \in Intents
          /\ status' = [status EXCEPT ![current[w]] = "failed"]
          /\ UNCHANGED <<rowStatus, moved, current>>
          /\ pc' = [pc EXCEPT ![w] = "mark_failed"]
      BY <2>3, <1>a DEF FailIntent, Move
    <3> QED BY <3>1 DEF FailedInv, TypeOK
  <2>4. CASE MarkFailed(w)
    <3>1. /\ pc[w] = "mark_failed" /\ current[w] \in Intents
          /\ rowStatus' = [rowStatus EXCEPT ![current[w]] = "failed"]
          /\ UNCHANGED <<status, moved>>
          /\ pc' = [pc EXCEPT ![w] = "idle"]
          /\ \A v \in Workers : v # w => current'[v] = current[v]
      BY <2>4, <1>a DEF MarkFailed, Finish, TypeOK
    <3>2. ASSUME NEW v \in Workers, pc'[v] = "fail_intent" PROVE moved'[current'[v]] = 0
      BY <3>1, <3>2 DEF FailedInv, TypeOK
    <3>3. ASSUME NEW i \in Intents, status[i] = "failed"
          PROVE  \/ rowStatus'[i] = "failed"
                 \/ \E v \in Workers : current'[v] = i /\ pc'[v] = "mark_failed"
      <4>1. CASE i = current[w]
        BY <3>1, <4>1 DEF TypeOK
      <4>2. CASE i # current[w] /\ rowStatus[i] = "failed"
        BY <3>1, <4>2 DEF TypeOK
      <4>3. CASE i # current[w] /\ \E v \in Workers : current[v] = i /\ pc[v] = "mark_failed"
        BY <3>1, <4>3 DEF TypeOK
      <4> QED BY <3>3, <4>1, <4>2, <4>3 DEF FailedInv
    <3> QED BY <3>1, <3>2, <3>3 DEF FailedInv
  <2>5. CASE \/ Record(w) \/ MarkSettled(w) \/ Retry(w) \/ Park(w)
    <3>1. /\ pc[w] \notin {"mark_failed", "fail_intent"} /\ current[w] \in Intents
          /\ \E s \in RowStatuses : rowStatus' = [rowStatus EXCEPT ![current[w]] = s]
          /\ UNCHANGED <<status, moved>>
          /\ pc'[w] \notin {"fail_intent", "mark_failed"}
          /\ \A v \in Workers : v # w => pc'[v] = pc[v] /\ current'[v] = current[v]
      BY <2>5, <1>a DEF Record, MarkSettled, Retry, Park, GiveUpOrFinish, Finish, TypeOK,
                        RowStatuses
    <3>2. \A i \in Intents : status[i] = "failed" => i # current[w]
      BY <3>1, <1>f
    <3>3. \A v \in Workers : pc'[v] = "fail_intent" => moved'[current'[v]] = 0
      BY <3>1 DEF FailedInv
    <3>4. ASSUME NEW i \in Intents, status[i] = "failed"
          PROVE  \/ rowStatus'[i] = "failed"
                 \/ \E v \in Workers : current'[v] = i /\ pc'[v] = "mark_failed"
      <4>1. rowStatus'[i] = rowStatus[i]
        BY <3>1, <3>2, <3>4 DEF TypeOK
      <4>2. \A v \in Workers : pc[v] = "mark_failed" => pc'[v] = pc[v] /\ current'[v] = current[v]
        BY <3>1
      <4> QED BY <3>4, <4>1, <4>2 DEF FailedInv
    <3> QED BY <3>1, <3>3, <3>4 DEF FailedInv
  <2>6. CASE \/ Dispatch(w) \/ RailDeclines(w) \/ Settle(w) \/ SettleAgain(w) \/ SettleThrows(w)
             \/ FailIntentThrows(w) \/ Announce(w) \/ \E j \in Intents : Start(w, j)
    <3>1. /\ pc[w] # "mark_failed"
          /\ UNCHANGED <<rowStatus, moved>>
          /\ pc'[w] \notin {"fail_intent", "mark_failed"}
          /\ \A v \in Workers : v # w => pc'[v] = pc[v] /\ current'[v] = current[v]
          /\ \A i \in Intents : status'[i] = "failed" => status[i] = "failed"
      BY <2>6, <1>a DEF Dispatch, RailDeclines, Settle, SettleAgain, SettleThrows, Move,
                  FailIntentThrows, Announce, Start, LeaveCall, Finish, TypeOK
    <3> QED BY <3>1 DEF FailedInv
  <2>7. ASSUME NEW j \in Intents, Reclaim(w, j) PROVE FailedInv'
    <3>1. /\ InFlight(j) /\ LockStale(j)
          /\ rowStatus' = [rowStatus EXCEPT ![j] = "pending"]
          /\ UNCHANGED <<status, moved, pc, current>>
      BY <2>7 DEF Reclaim
    <3>2. ASSUME status[j] = "failed" PROVE FALSE
      <4>1. rowStatus[j] # "failed"
        BY <3>1 DEF InFlight
      <4>2. PICK v \in Workers : current[v] = j /\ pc[v] = "mark_failed"
        BY <3>2, <4>1 DEF FailedInv
      <4>3. lockedBy[j] = v /\ Holds(v, j)
        BY <4>2, OwnRow DEF Holds
      <4> QED BY <3>1, <4>3 DEF LockStale, Calm
    <3> QED BY <3>1, <3>2 DEF FailedInv, TypeOK
  <2>8. CASE Claim(w)
    <3>1. PICK S \in SUBSET {i \in Intents : Claimable(i)} :
             rowStatus' = [i \in Intents |-> IF i \in S THEN "dispatching" ELSE rowStatus[i]]
      BY <2>8 DEF Claim
    <3>2. UNCHANGED <<status, moved, pc, current>>
      BY <2>8 DEF Claim
    <3> QED BY <3>1, <3>2, <1>f DEF FailedInv
  <2>9. ~RailTimesOut(w) /\ ~Abort(w)
    BY DEF Calm, RailTimesOut, Abort, TypeOK
  <2> QED BY <1>3, <2>1, <2>2, <2>3, <2>4, <2>5, <2>6, <2>7, <2>8, <2>9 DEF WorkerStep
<1> QED BY <1>1, <1>2, <1>3 DEF Next

\* When, besides, the audit write after failExecution never throws, an intent is
\* failed only if its money did not move and never will.
THEOREM UndisturbedFailsUnpaid ==
  ASSUME Calm, "audit" \notin Faults PROVE Spec => []FailedMeansNothingMoved
<1>1. Init => OnceInv /\ FailedInv
  BY DEF Init, OnceInv, Once, FailedInv
<1>2. TimelyInv /\ TypeOK' /\ [Next]_vars /\ OnceInv /\ FailedInv => OnceInv' /\ FailedInv'
  <2>1. CASE UNCHANGED vars
    BY <2>1 DEF vars, OnceInv, Once, Answered, FailedInv
  <2> QED BY <2>1, OnceStep, FailedStep
<1>3. FailedInv => FailedMeansNothingMoved
  BY DEF FailedInv, FailedMeansNothingMoved
<1>4. SlowWorkers = {}
  BY DEF Calm
<1> QED BY <1>1, <1>2, <1>3, <1>4, TimelyInvariant, TypeCorrect, PTL DEF Spec

=============================================================================
