----------------------- MODULE WebhookDelivery_proofs -----------------------
(***************************************************************************)
(* Proofs about WebhookDelivery, for any endpoints, events, replicas,      *)
(* replay calls and attempt cap.                                           *)
(*                                                                         *)
(* The inductive invariant says what a sender's snapshot still tells: its  *)
(* outcomes are of pairs it has listed, a listed dead letter that has not  *)
(* been deleted has at least the attempts that were listed, and the        *)
(* attempts beyond the cap are paid for by senders that are no longer busy *)
(* with the pair.                                                          *)
(***************************************************************************)
EXTENDS WebhookDelivery, FiniteSetTheorems, TLAPS

\* An event is dispatched, listed or counted only once it is committed.
Begun ==
    /\ \A e \in Events : pc[e] # "off" => e \in log
    /\ \A x \in Wanted : rows[x] > 0 => x[2] \in log
    /\ \A s \in Listers, x \in Wanted : list[s][x] > 0 => x[2] \in log

\* Whoever runs a cycle holds the lease, until one is lost.
Leased == losses = 0 => \A w \in Workers : pc[w] # "off" => lease = w

\* Outcomes are of pairs the sender has taken up, and successes happened.
Outcomes ==
    /\ \A s \in Senders : ok[s] \cap failed[s] = {} /\ ok[s] \subseteq delivered
    /\ \A s \in Listers : \A x \in ok[s] \cup failed[s] : list[s][x] > 0
    /\ \A w \in Workers : \A x, y \in ok[w] \cup failed[w] : x = y
    /\ \A e \in Events : \A x \in ok[e] \cup failed[e] : x[2] = e

RowPlaces == {"retry", "retried", "announce", "replay", "replayed"}

\* A listed row that still exists has not lost attempts.
RowsLive ==
    \A s \in Listers, x \in Wanted :
        pc[s] \in RowPlaces /\ list[s][x] > 0 /\ x \notin stale[s] => list[s][x] <= rows[x]

\* Senders that may yet count an attempt of x.
Busy(x) == {s \in Listers : list[s][x] > 0} \cup {e \in Events : e = x[2] /\ pc[e] # "off"}

Bound == MaxAttempts + Cardinality(Workers) + Cardinality(Replays)

PaidFor == \A x \in Wanted : rows[x] < MaxAttempts \/ rows[x] + Cardinality(Busy(x)) <= Bound

IInv == TypeOK /\ Begun /\ Leased /\ Outcomes /\ RowsLive /\ PaidFor

----------------------------------------------------------------------------
(* Types. *)

\* Who is what.
LEMMA Roles ==
    /\ Workers \subseteq Listers /\ Replays \subseteq Listers
    /\ Listers \subseteq Senders /\ Events \subseteq Senders
    /\ Workers \cap Replays = {} /\ Listers \cap Events = {}
    /\ NoWorker \notin Workers
    /\ \A x \in Wanted : x[1] \in Endpoints /\ x[2] \in Events
BY DeliveryAssumption DEF Listers, Senders

\* The bounds are natural numbers.
LEMMA Bounds ==
    /\ MaxAttempts \in Nat \ {0} /\ MaxCrashes \in Nat /\ MaxLosses \in Nat
BY DeliveryAssumption

\* Every step keeps the types.
LEMMA TypeStep == TypeOK /\ Begun /\ Next => TypeOK'
<1> SUFFICES ASSUME TypeOK, Begun, Next PROVE TypeOK'
  OBVIOUS
<1> USE Roles, Bounds DEF Places, endpointVars, eventVars, dbVars, senderVars, faultVars
<1>1. ASSUME NEW n \in Endpoints, Register(n)
      PROVE  TypeOK'
  BY <1>1 DEF TypeOK, Begun, Register
<1>2. ASSUME NEW n \in Endpoints, DeleteEndpoint(n)
      PROVE  TypeOK'
  BY <1>2 DEF TypeOK, Begun, DeleteEndpoint
<1>3. ASSUME NEW e \in Events, Emit(e)
      PROVE  TypeOK'
  BY <1>3 DEF TypeOK, Begun, Emit, Goto
<1>4. ASSUME NEW e \in Events, Dispatch(e)
      PROVE  TypeOK'
  BY <1>4 DEF TypeOK, Begun, Dispatch, Send, Goto, Targets
<1>5. ASSUME NEW e \in Events, RecordOutcomes(e)
      PROVE  TypeOK'
  BY <1>5 DEF TypeOK, Begun, RecordOutcomes, Write, Unlisted, Recorded, Goto
<1>6. ASSUME NEW e \in Events, DispatchLost(e)
      PROVE  TypeOK'
  BY <1>6 DEF TypeOK, Begun, DispatchLost, Recorded, Goto
<1>7. ASSUME NEW e \in Events, GraceOver(e)
      PROVE  TypeOK'
  BY <1>7 DEF TypeOK, Begun, GraceOver
<1>8. ASSUME NEW x \in Wanted, BackoffOver(x)
      PROVE  TypeOK'
  BY <1>8 DEF TypeOK, Begun, BackoffOver
<1>9. ASSUME NEW w \in Workers, StartCycle(w)
      PROVE  TypeOK'
  BY <1>9 DEF TypeOK, Begun, StartCycle, Due, Goto, Only, Visible, Retryable
<1>10. ASSUME NEW w \in Workers, Retry(w)
      PROVE  TypeOK'
  BY <1>10 DEF TypeOK, Begun, Retry, Send, Goto, Listed
<1>11. ASSUME NEW w \in Workers, DropUnaddressed(w)
      PROVE  TypeOK'
  BY <1>11 DEF TypeOK, Begun, DropUnaddressed, Done, Write, Unlisted, Listed
<1>12. ASSUME NEW w \in Workers, RetrySucceeds(w)
      PROVE  TypeOK'
  BY <1>12 DEF TypeOK, Begun, RetrySucceeds, Done, Write, Unlisted, Recorded, Goto
<1>13. ASSUME NEW w \in Workers, RetryFails(w)
      PROVE  TypeOK'
  BY <1>13 DEF TypeOK, Begun, RetryFails, Done, Write, Unlisted, Recorded, Goto
<1>14. ASSUME NEW w \in Workers, Announce(w)
      PROVE  TypeOK'
  BY <1>14 DEF TypeOK, Begun, Announce, Goto
<1>15. ASSUME NEW w \in Workers, ScanMissed(w)
      PROVE  TypeOK'
  BY <1>15 DEF TypeOK, Begun, ScanMissed, Goto, Visible, Missed, Listed
<1>16. ASSUME NEW w \in Workers, Redeliver(w)
      PROVE  TypeOK'
  BY <1>16 DEF TypeOK, Begun, Redeliver, Send, Goto, Listed
<1>17. ASSUME NEW w \in Workers, RecordMissed(w)
      PROVE  TypeOK'
  BY <1>17 DEF TypeOK, Begun, RecordMissed, Done, Write, Unlisted, Recorded, Goto
<1>18. ASSUME NEW w \in Workers, EndCycle(w)
      PROVE  TypeOK'
  BY <1>18 DEF TypeOK, Begun, EndCycle, Goto, Release, Listed
<1>19. ASSUME NEW w \in Workers, Crash(w)
      PROVE  TypeOK'
  BY <1>19 DEF TypeOK, Begun, Crash, Forgotten, Recorded, Goto, Release, Empty
<1>20. ASSUME NEW w \in Workers, LoseLease(w)
      PROVE  TypeOK'
  BY <1>20 DEF TypeOK, Begun, LoseLease
<1>21. ASSUME NEW r \in Replays, NEW n \in Endpoints, StartReplay(r, n)
      PROVE  TypeOK'
  BY <1>21 DEF TypeOK, Begun, StartReplay, Goto, Only, Retryable
<1>22. ASSUME NEW r \in Replays, Replay(r)
      PROVE  TypeOK'
  BY <1>22 DEF TypeOK, Begun, Replay, Send, Goto, Listed
<1>23. ASSUME NEW r \in Replays, ReplayCommits(r)
      PROVE  TypeOK'
  BY <1>23 DEF TypeOK, Begun, ReplayCommits, Write, Unlisted, Recorded, Goto, Empty
<1>24. ASSUME NEW r \in Replays, ReplayLost(r)
      PROVE  TypeOK'
  BY <1>24 DEF TypeOK, Begun, ReplayLost, Forgotten, Recorded, Goto, Empty
<1> QED
  BY <1>1, <1>2, <1>3, <1>4, <1>5, <1>6, <1>7, <1>8, <1>9, <1>10, <1>11, <1>12, <1>13, <1>14, <1>15, <1>16, <1>17, <1>18, <1>19, <1>20, <1>21, <1>22, <1>23, <1>24 DEF Next, Cycle

----------------------------------------------------------------------------
(* The inductive invariant. *)

\* Only committed events are taken up.
LEMMA BegunStep == TypeOK /\ Begun /\ Outcomes /\ Next => Begun'
<1> SUFFICES ASSUME TypeOK, Begun, Outcomes, Next PROVE Begun'
  OBVIOUS
<1> USE Roles, Bounds DEF Places, endpointVars, eventVars, dbVars, senderVars, faultVars
<1>1. ASSUME NEW n \in Endpoints, Register(n)
      PROVE  Begun'
  BY <1>1 DEF TypeOK, Begun, Outcomes, Register
<1>2. ASSUME NEW n \in Endpoints, DeleteEndpoint(n)
      PROVE  Begun'
  BY <1>2 DEF TypeOK, Begun, Outcomes, DeleteEndpoint
<1>3. ASSUME NEW e \in Events, Emit(e)
      PROVE  Begun'
  BY <1>3 DEF TypeOK, Begun, Outcomes, Emit, Goto
<1>4. ASSUME NEW e \in Events, Dispatch(e)
      PROVE  Begun'
  BY <1>4 DEF TypeOK, Begun, Outcomes, Dispatch, Send, Goto, Targets
<1>5. ASSUME NEW e \in Events, RecordOutcomes(e)
      PROVE  Begun'
  BY <1>5 DEF TypeOK, Begun, Outcomes, RecordOutcomes, Write, Unlisted, Recorded, Goto
<1>6. ASSUME NEW e \in Events, DispatchLost(e)
      PROVE  Begun'
  BY <1>6 DEF TypeOK, Begun, Outcomes, DispatchLost, Recorded, Goto
<1>7. ASSUME NEW e \in Events, GraceOver(e)
      PROVE  Begun'
  BY <1>7 DEF TypeOK, Begun, Outcomes, GraceOver
<1>8. ASSUME NEW x \in Wanted, BackoffOver(x)
      PROVE  Begun'
  BY <1>8 DEF TypeOK, Begun, Outcomes, BackoffOver
<1>9. ASSUME NEW w \in Workers, StartCycle(w)
      PROVE  Begun'
  BY <1>9 DEF TypeOK, Begun, Outcomes, StartCycle, Due, Goto, Only, Visible, Retryable
<1>10. ASSUME NEW w \in Workers, Retry(w)
      PROVE  Begun'
  BY <1>10 DEF TypeOK, Begun, Outcomes, Retry, Send, Goto, Listed
<1>11. ASSUME NEW w \in Workers, DropUnaddressed(w)
      PROVE  Begun'
  BY <1>11 DEF TypeOK, Begun, Outcomes, DropUnaddressed, Done, Write, Unlisted, Listed
<1>12. ASSUME NEW w \in Workers, RetrySucceeds(w)
      PROVE  Begun'
  BY <1>12 DEF TypeOK, Begun, Outcomes, RetrySucceeds, Done, Write, Unlisted, Recorded, Goto
<1>13. ASSUME NEW w \in Workers, RetryFails(w)
      PROVE  Begun'
  BY <1>13 DEF TypeOK, Begun, Outcomes, RetryFails, Done, Write, Unlisted, Recorded, Goto
<1>14. ASSUME NEW w \in Workers, Announce(w)
      PROVE  Begun'
  BY <1>14 DEF TypeOK, Begun, Outcomes, Announce, Goto
<1>15. ASSUME NEW w \in Workers, ScanMissed(w)
      PROVE  Begun'
  BY <1>15 DEF TypeOK, Begun, Outcomes, ScanMissed, Goto, Visible, Missed, Listed
<1>16. ASSUME NEW w \in Workers, Redeliver(w)
      PROVE  Begun'
  BY <1>16 DEF TypeOK, Begun, Outcomes, Redeliver, Send, Goto, Listed
<1>17. ASSUME NEW w \in Workers, RecordMissed(w)
      PROVE  Begun'
  BY <1>17 DEF TypeOK, Begun, Outcomes, RecordMissed, Done, Write, Unlisted, Recorded, Goto
<1>18. ASSUME NEW w \in Workers, EndCycle(w)
      PROVE  Begun'
  BY <1>18 DEF TypeOK, Begun, Outcomes, EndCycle, Goto, Release, Listed
<1>19. ASSUME NEW w \in Workers, Crash(w)
      PROVE  Begun'
  BY <1>19 DEF TypeOK, Begun, Outcomes, Crash, Forgotten, Recorded, Goto, Release, Empty
<1>20. ASSUME NEW w \in Workers, LoseLease(w)
      PROVE  Begun'
  BY <1>20 DEF TypeOK, Begun, Outcomes, LoseLease
<1>21. ASSUME NEW r \in Replays, NEW n \in Endpoints, StartReplay(r, n)
      PROVE  Begun'
  BY <1>21 DEF TypeOK, Begun, Outcomes, StartReplay, Goto, Only, Retryable
<1>22. ASSUME NEW r \in Replays, Replay(r)
      PROVE  Begun'
  BY <1>22 DEF TypeOK, Begun, Outcomes, Replay, Send, Goto, Listed
<1>23. ASSUME NEW r \in Replays, ReplayCommits(r)
      PROVE  Begun'
  BY <1>23 DEF TypeOK, Begun, Outcomes, ReplayCommits, Write, Unlisted, Recorded, Goto, Empty
<1>24. ASSUME NEW r \in Replays, ReplayLost(r)
      PROVE  Begun'
  BY <1>24 DEF TypeOK, Begun, Outcomes, ReplayLost, Forgotten, Recorded, Goto, Empty
<1> QED
  BY <1>1, <1>2, <1>3, <1>4, <1>5, <1>6, <1>7, <1>8, <1>9, <1>10, <1>11, <1>12, <1>13, <1>14, <1>15, <1>16, <1>17, <1>18, <1>19, <1>20, <1>21, <1>22, <1>23, <1>24 DEF Next, Cycle


\* A cycle starts with the lease and gives it back when it ends.
LEMMA LeasedStep == TypeOK /\ Leased /\ Next => Leased'
<1> SUFFICES ASSUME TypeOK, Leased, Next PROVE Leased'
  OBVIOUS
<1> USE Roles, Bounds DEF Places, endpointVars, eventVars, dbVars, senderVars, faultVars
<1>1. ASSUME NEW n \in Endpoints, Register(n)
      PROVE  Leased'
  BY <1>1 DEF TypeOK, Leased, Register
<1>2. ASSUME NEW n \in Endpoints, DeleteEndpoint(n)
      PROVE  Leased'
  BY <1>2 DEF TypeOK, Leased, DeleteEndpoint
<1>3. ASSUME NEW e \in Events, Emit(e)
      PROVE  Leased'
  BY <1>3 DEF TypeOK, Leased, Emit, Goto
<1>4. ASSUME NEW e \in Events, Dispatch(e)
      PROVE  Leased'
  BY <1>4 DEF TypeOK, Leased, Dispatch, Send, Goto, Targets
<1>5. ASSUME NEW e \in Events, RecordOutcomes(e)
      PROVE  Leased'
  BY <1>5 DEF TypeOK, Leased, RecordOutcomes, Write, Unlisted, Recorded, Goto
<1>6. ASSUME NEW e \in Events, DispatchLost(e)
      PROVE  Leased'
  BY <1>6 DEF TypeOK, Leased, DispatchLost, Recorded, Goto
<1>7. ASSUME NEW e \in Events, GraceOver(e)
      PROVE  Leased'
  BY <1>7 DEF TypeOK, Leased, GraceOver
<1>8. ASSUME NEW x \in Wanted, BackoffOver(x)
      PROVE  Leased'
  BY <1>8 DEF TypeOK, Leased, BackoffOver
<1>9. ASSUME NEW w \in Workers, StartCycle(w)
      PROVE  Leased'
  BY <1>9 DEF TypeOK, Leased, StartCycle, Due, Goto, Only, Visible, Retryable
<1>10. ASSUME NEW w \in Workers, Retry(w)
      PROVE  Leased'
  BY <1>10 DEF TypeOK, Leased, Retry, Send, Goto, Listed
<1>11. ASSUME NEW w \in Workers, DropUnaddressed(w)
      PROVE  Leased'
  BY <1>11 DEF TypeOK, Leased, DropUnaddressed, Done, Write, Unlisted, Listed
<1>12. ASSUME NEW w \in Workers, RetrySucceeds(w)
      PROVE  Leased'
  BY <1>12 DEF TypeOK, Leased, RetrySucceeds, Done, Write, Unlisted, Recorded, Goto
<1>13. ASSUME NEW w \in Workers, RetryFails(w)
      PROVE  Leased'
  BY <1>13 DEF TypeOK, Leased, RetryFails, Done, Write, Unlisted, Recorded, Goto
<1>14. ASSUME NEW w \in Workers, Announce(w)
      PROVE  Leased'
  BY <1>14 DEF TypeOK, Leased, Announce, Goto
<1>15. ASSUME NEW w \in Workers, ScanMissed(w)
      PROVE  Leased'
  BY <1>15 DEF TypeOK, Leased, ScanMissed, Goto, Visible, Missed, Listed
<1>16. ASSUME NEW w \in Workers, Redeliver(w)
      PROVE  Leased'
  BY <1>16 DEF TypeOK, Leased, Redeliver, Send, Goto, Listed
<1>17. ASSUME NEW w \in Workers, RecordMissed(w)
      PROVE  Leased'
  BY <1>17 DEF TypeOK, Leased, RecordMissed, Done, Write, Unlisted, Recorded, Goto
<1>18. ASSUME NEW w \in Workers, EndCycle(w)
      PROVE  Leased'
  BY <1>18 DEF TypeOK, Leased, EndCycle, Goto, Release, Listed
<1>19. ASSUME NEW w \in Workers, Crash(w)
      PROVE  Leased'
  BY <1>19 DEF TypeOK, Leased, Crash, Forgotten, Recorded, Goto, Release, Empty
<1>20. ASSUME NEW w \in Workers, LoseLease(w)
      PROVE  Leased'
  BY <1>20 DEF TypeOK, Leased, LoseLease
<1>21. ASSUME NEW r \in Replays, NEW n \in Endpoints, StartReplay(r, n)
      PROVE  Leased'
  BY <1>21 DEF TypeOK, Leased, StartReplay, Goto, Only, Retryable
<1>22. ASSUME NEW r \in Replays, Replay(r)
      PROVE  Leased'
  BY <1>22 DEF TypeOK, Leased, Replay, Send, Goto, Listed
<1>23. ASSUME NEW r \in Replays, ReplayCommits(r)
      PROVE  Leased'
  BY <1>23 DEF TypeOK, Leased, ReplayCommits, Write, Unlisted, Recorded, Goto, Empty
<1>24. ASSUME NEW r \in Replays, ReplayLost(r)
      PROVE  Leased'
  BY <1>24 DEF TypeOK, Leased, ReplayLost, Forgotten, Recorded, Goto, Empty
<1> QED
  BY <1>1, <1>2, <1>3, <1>4, <1>5, <1>6, <1>7, <1>8, <1>9, <1>10, <1>11, <1>12, <1>13, <1>14, <1>15, <1>16, <1>17, <1>18, <1>19, <1>20, <1>21, <1>22, <1>23, <1>24 DEF Next, Cycle


\* Outcomes stay with what the sender took up.
LEMMA OutcomesStep == TypeOK /\ Outcomes /\ Next => Outcomes'
<1> SUFFICES ASSUME TypeOK, Outcomes, Next PROVE Outcomes'
  OBVIOUS
<1> USE Roles, Bounds DEF Places, endpointVars, eventVars, dbVars, senderVars, faultVars
<1>1. ASSUME NEW n \in Endpoints, Register(n)
      PROVE  Outcomes'
  BY <1>1 DEF TypeOK, Outcomes, Register
<1>2. ASSUME NEW n \in Endpoints, DeleteEndpoint(n)
      PROVE  Outcomes'
  BY <1>2 DEF TypeOK, Outcomes, DeleteEndpoint
<1>3. ASSUME NEW e \in Events, Emit(e)
      PROVE  Outcomes'
  BY <1>3 DEF TypeOK, Outcomes, Emit, Goto
<1>4. ASSUME NEW e \in Events, Dispatch(e)
      PROVE  Outcomes'
  BY <1>4 DEF TypeOK, Outcomes, Dispatch, Send, Goto, Targets
<1>5. ASSUME NEW e \in Events, RecordOutcomes(e)
      PROVE  Outcomes'
  BY <1>5 DEF TypeOK, Outcomes, RecordOutcomes, Write, Unlisted, Recorded, Goto
<1>6. ASSUME NEW e \in Events, DispatchLost(e)
      PROVE  Outcomes'
  BY <1>6 DEF TypeOK, Outcomes, DispatchLost, Recorded, Goto
<1>7. ASSUME NEW e \in Events, GraceOver(e)
      PROVE  Outcomes'
  BY <1>7 DEF TypeOK, Outcomes, GraceOver
<1>8. ASSUME NEW x \in Wanted, BackoffOver(x)
      PROVE  Outcomes'
  BY <1>8 DEF TypeOK, Outcomes, BackoffOver
<1>9. ASSUME NEW w \in Workers, StartCycle(w)
      PROVE  Outcomes'
  <2>1. ok[w] = {} /\ failed[w] = {}
    BY <1>9 DEF TypeOK, StartCycle
  <2>2. \A s \in Listers : s # w => list'[s] = list[s]
    BY <1>9 DEF TypeOK, StartCycle, Due, Goto, Only, Visible, Retryable
  <2> QED
    BY <1>9, <2>1, <2>2 DEF TypeOK, Outcomes, StartCycle
<1>10. ASSUME NEW w \in Workers, Retry(w)
      PROVE  Outcomes'
  BY <1>10 DEF TypeOK, Outcomes, Retry, Send, Goto, Listed
<1>11. ASSUME NEW w \in Workers, DropUnaddressed(w)
      PROVE  Outcomes'
  <2>1. ok[w] = {} /\ failed[w] = {}
    BY <1>11 DEF TypeOK, DropUnaddressed
  <2>2. \A s \in Listers : s # w => list'[s] = list[s]
    BY <1>11 DEF TypeOK, DropUnaddressed, Done, Write, Unlisted, Listed
  <2> QED
    BY <1>11, <2>1, <2>2 DEF TypeOK, Outcomes, DropUnaddressed
<1>12. ASSUME NEW w \in Workers, RetrySucceeds(w)
      PROVE  Outcomes'
  BY <1>12 DEF TypeOK, Outcomes, RetrySucceeds, Done, Write, Unlisted, Recorded, Goto
<1>13. ASSUME NEW w \in Workers, RetryFails(w)
      PROVE  Outcomes'
  BY <1>13 DEF TypeOK, Outcomes, RetryFails, Done, Write, Unlisted, Recorded, Goto
<1>14. ASSUME NEW w \in Workers, Announce(w)
      PROVE  Outcomes'
  BY <1>14 DEF TypeOK, Outcomes, Announce, Goto
<1>15. ASSUME NEW w \in Workers, ScanMissed(w)
      PROVE  Outcomes'
  BY <1>15 DEF TypeOK, Outcomes, ScanMissed, Goto, Visible, Missed, Listed
<1>16. ASSUME NEW w \in Workers, Redeliver(w)
      PROVE  Outcomes'
  BY <1>16 DEF TypeOK, Outcomes, Redeliver, Send, Goto, Listed
<1>17. ASSUME NEW w \in Workers, RecordMissed(w)
      PROVE  Outcomes'
  BY <1>17 DEF TypeOK, Outcomes, RecordMissed, Done, Write, Unlisted, Recorded, Goto
<1>18. ASSUME NEW w \in Workers, EndCycle(w)
      PROVE  Outcomes'
  BY <1>18 DEF TypeOK, Outcomes, EndCycle, Goto, Release, Listed
<1>19. ASSUME NEW w \in Workers, Crash(w)
      PROVE  Outcomes'
  BY <1>19 DEF TypeOK, Outcomes, Crash, Forgotten, Recorded, Goto, Release, Empty
<1>20. ASSUME NEW w \in Workers, LoseLease(w)
      PROVE  Outcomes'
  BY <1>20 DEF TypeOK, Outcomes, LoseLease
<1>21. ASSUME NEW r \in Replays, NEW n \in Endpoints, StartReplay(r, n)
      PROVE  Outcomes'
  <2>1. ok[r] = {} /\ failed[r] = {}
    BY <1>21 DEF TypeOK, StartReplay
  <2>2. \A s \in Listers : s # r => list'[s] = list[s]
    BY <1>21 DEF TypeOK, StartReplay, Goto, Only, Retryable
  <2> QED
    BY <1>21, <2>1, <2>2 DEF TypeOK, Outcomes, StartReplay
<1>22. ASSUME NEW r \in Replays, Replay(r)
      PROVE  Outcomes'
  BY <1>22 DEF TypeOK, Outcomes, Replay, Send, Goto, Listed
<1>23. ASSUME NEW r \in Replays, ReplayCommits(r)
      PROVE  Outcomes'
  BY <1>23 DEF TypeOK, Outcomes, ReplayCommits, Write, Unlisted, Recorded, Goto, Empty
<1>24. ASSUME NEW r \in Replays, ReplayLost(r)
      PROVE  Outcomes'
  BY <1>24 DEF TypeOK, Outcomes, ReplayLost, Forgotten, Recorded, Goto, Empty
<1> QED
  BY <1>1, <1>2, <1>3, <1>4, <1>5, <1>6, <1>7, <1>8, <1>9, <1>10, <1>11, <1>12, <1>13, <1>14, <1>15, <1>16, <1>17, <1>18, <1>19, <1>20, <1>21, <1>22, <1>23, <1>24 DEF Next, Cycle


\* A row loses attempts only by its deletion, which its listers notice.
LEMMA RowsLiveStep == TypeOK /\ RowsLive /\ Outcomes /\ Next => RowsLive'
<1> SUFFICES ASSUME TypeOK, RowsLive, Outcomes, Next PROVE RowsLive'
  OBVIOUS
<1> USE Roles, Bounds DEF Places, endpointVars, eventVars, dbVars, senderVars, faultVars
<1>1. ASSUME NEW n \in Endpoints, Register(n)
      PROVE  RowsLive'
  BY <1>1 DEF TypeOK, RowsLive, RowPlaces, Outcomes, Register
<1>2. ASSUME NEW n \in Endpoints, DeleteEndpoint(n)
      PROVE  RowsLive'
  BY <1>2 DEF TypeOK, RowsLive, RowPlaces, Outcomes, DeleteEndpoint
<1>3. ASSUME NEW e \in Events, Emit(e)
      PROVE  RowsLive'
  BY <1>3 DEF TypeOK, RowsLive, RowPlaces, Outcomes, Emit, Goto
<1>4. ASSUME NEW e \in Events, Dispatch(e)
      PROVE  RowsLive'
  BY <1>4 DEF TypeOK, RowsLive, RowPlaces, Outcomes, Dispatch, Send, Goto, Targets
<1>5. ASSUME NEW e \in Events, RecordOutcomes(e)
      PROVE  RowsLive'
  BY <1>5 DEF TypeOK, RowsLive, RowPlaces, Outcomes, RecordOutcomes, Write, Unlisted, Recorded, Goto
<1>6. ASSUME NEW e \in Events, DispatchLost(e)
      PROVE  RowsLive'
  BY <1>6 DEF TypeOK, RowsLive, RowPlaces, Outcomes, DispatchLost, Recorded, Goto
<1>7. ASSUME NEW e \in Events, GraceOver(e)
      PROVE  RowsLive'
  BY <1>7 DEF TypeOK, RowsLive, RowPlaces, Outcomes, GraceOver
<1>8. ASSUME NEW x \in Wanted, BackoffOver(x)
      PROVE  RowsLive'
  BY <1>8 DEF TypeOK, RowsLive, RowPlaces, Outcomes, BackoffOver
<1>9. ASSUME NEW w \in Workers, StartCycle(w)
      PROVE  RowsLive'
  BY <1>9 DEF TypeOK, RowsLive, RowPlaces, Outcomes, StartCycle, Due, Goto, Only, Visible, Retryable
<1>10. ASSUME NEW w \in Workers, Retry(w)
      PROVE  RowsLive'
  BY <1>10 DEF TypeOK, RowsLive, RowPlaces, Outcomes, Retry, Send, Goto, Listed
<1>11. ASSUME NEW w \in Workers, DropUnaddressed(w)
      PROVE  RowsLive'
  BY <1>11 DEF TypeOK, RowsLive, RowPlaces, Outcomes, DropUnaddressed, Done, Write, Unlisted, Listed
<1>12. ASSUME NEW w \in Workers, RetrySucceeds(w)
      PROVE  RowsLive'
  BY <1>12 DEF TypeOK, RowsLive, RowPlaces, Outcomes, RetrySucceeds, Done, Write, Unlisted, Recorded, Goto
<1>13. ASSUME NEW w \in Workers, RetryFails(w)
      PROVE  RowsLive'
  BY <1>13 DEF TypeOK, RowsLive, RowPlaces, Outcomes, RetryFails, Done, Write, Unlisted, Recorded, Goto
<1>14. ASSUME NEW w \in Workers, Announce(w)
      PROVE  RowsLive'
  BY <1>14 DEF TypeOK, RowsLive, RowPlaces, Outcomes, Announce, Goto
<1>15. ASSUME NEW w \in Workers, ScanMissed(w)
      PROVE  RowsLive'
  BY <1>15 DEF TypeOK, RowsLive, RowPlaces, Outcomes, ScanMissed, Goto, Visible, Missed, Listed
<1>16. ASSUME NEW w \in Workers, Redeliver(w)
      PROVE  RowsLive'
  BY <1>16 DEF TypeOK, RowsLive, RowPlaces, Outcomes, Redeliver, Send, Goto, Listed
<1>17. ASSUME NEW w \in Workers, RecordMissed(w)
      PROVE  RowsLive'
  BY <1>17 DEF TypeOK, RowsLive, RowPlaces, Outcomes, RecordMissed, Done, Write, Unlisted, Recorded, Goto
<1>18. ASSUME NEW w \in Workers, EndCycle(w)
      PROVE  RowsLive'
  BY <1>18 DEF TypeOK, RowsLive, RowPlaces, Outcomes, EndCycle, Goto, Release, Listed
<1>19. ASSUME NEW w \in Workers, Crash(w)
      PROVE  RowsLive'
  BY <1>19 DEF TypeOK, RowsLive, RowPlaces, Outcomes, Crash, Forgotten, Recorded, Goto, Release, Empty
<1>20. ASSUME NEW w \in Workers, LoseLease(w)
      PROVE  RowsLive'
  BY <1>20 DEF TypeOK, RowsLive, RowPlaces, Outcomes, LoseLease
<1>21. ASSUME NEW r \in Replays, NEW n \in Endpoints, StartReplay(r, n)
      PROVE  RowsLive'
  BY <1>21 DEF TypeOK, RowsLive, RowPlaces, Outcomes, StartReplay, Goto, Only, Retryable
<1>22. ASSUME NEW r \in Replays, Replay(r)
      PROVE  RowsLive'
  BY <1>22 DEF TypeOK, RowsLive, RowPlaces, Outcomes, Replay, Send, Goto, Listed
<1>23. ASSUME NEW r \in Replays, ReplayCommits(r)
      PROVE  RowsLive'
  BY <1>23 DEF TypeOK, RowsLive, RowPlaces, Outcomes, ReplayCommits, Write, Unlisted, Recorded, Goto, Empty
<1>24. ASSUME NEW r \in Replays, ReplayLost(r)
      PROVE  RowsLive'
  BY <1>24 DEF TypeOK, RowsLive, RowPlaces, Outcomes, ReplayLost, Forgotten, Recorded, Goto, Empty
<1> QED
  BY <1>1, <1>2, <1>3, <1>4, <1>5, <1>6, <1>7, <1>8, <1>9, <1>10, <1>11, <1>12, <1>13, <1>14, <1>15, <1>16, <1>17, <1>18, <1>19, <1>20, <1>21, <1>22, <1>23, <1>24 DEF Next, Cycle

\* What a step does to a pair: it has few attempts, nothing is counted and nobody
\* takes it up, or an attempt is counted by a sender that is then done with it.
Few(x) == rows'[x] < MaxAttempts
Stays(x) == rows'[x] = rows[x] /\ Busy(x)' \subseteq Busy(x)
Counts(x) == \E s \in Busy(x) : rows'[x] = rows[x] + 1 /\ Busy(x)' \subseteq Busy(x) \ {s}

\* These are all the possibilities.
LEMMA BusyStep ==
    ASSUME NEW x \in Wanted, TypeOK, Begun, Outcomes, Next
    PROVE  Few(x) \/ Stays(x) \/ Counts(x)
<1> USE Roles, Bounds DEF Places, endpointVars, eventVars, dbVars, senderVars, faultVars
<1>1. ASSUME NEW n \in Endpoints, Register(n)
      PROVE  Few(x) \/ Stays(x) \/ Counts(x)
  BY <1>1 DEF TypeOK, Begun, Outcomes, Few, Stays, Counts, Busy, Register
<1>2. ASSUME NEW n \in Endpoints, DeleteEndpoint(n)
      PROVE  Few(x) \/ Stays(x) \/ Counts(x)
  BY <1>2 DEF TypeOK, Begun, Outcomes, Few, Stays, Counts, Busy, DeleteEndpoint
<1>3. ASSUME NEW e \in Events, Emit(e)
      PROVE  Few(x) \/ Stays(x) \/ Counts(x)
  BY <1>3 DEF TypeOK, Begun, Outcomes, Few, Stays, Counts, Busy, Emit, Goto
<1>4. ASSUME NEW e \in Events, Dispatch(e)
      PROVE  Few(x) \/ Stays(x) \/ Counts(x)
  BY <1>4 DEF TypeOK, Begun, Outcomes, Few, Stays, Counts, Busy, Dispatch, Send, Goto, Targets
<1>5. ASSUME NEW e \in Events, RecordOutcomes(e)
      PROVE  Few(x) \/ Stays(x) \/ Counts(x)
  BY <1>5 DEF TypeOK, Begun, Outcomes, Few, Stays, Counts, Busy, RecordOutcomes, Write, Unlisted, Recorded, Goto
<1>6. ASSUME NEW e \in Events, DispatchLost(e)
      PROVE  Few(x) \/ Stays(x) \/ Counts(x)
  BY <1>6 DEF TypeOK, Begun, Outcomes, Few, Stays, Counts, Busy, DispatchLost, Recorded, Goto
<1>7. ASSUME NEW e \in Events, GraceOver(e)
      PROVE  Few(x) \/ Stays(x) \/ Counts(x)
  BY <1>7 DEF TypeOK, Begun, Outcomes, Few, Stays, Counts, Busy, GraceOver
<1>8. ASSUME NEW y \in Wanted, BackoffOver(y)
      PROVE  Few(x) \/ Stays(x) \/ Counts(x)
  BY <1>8 DEF TypeOK, Begun, Outcomes, Few, Stays, Counts, Busy, BackoffOver
<1>9. ASSUME NEW w \in Workers, StartCycle(w)
      PROVE  Few(x) \/ Stays(x) \/ Counts(x)
  BY <1>9 DEF TypeOK, Begun, Outcomes, Few, Stays, Counts, Busy, StartCycle, Due, Goto, Only, Visible, Retryable
<1>10. ASSUME NEW w \in Workers, Retry(w)
      PROVE  Few(x) \/ Stays(x) \/ Counts(x)
  BY <1>10 DEF TypeOK, Begun, Outcomes, Few, Stays, Counts, Busy, Retry, Send, Goto, Listed
<1>11. ASSUME NEW w \in Workers, DropUnaddressed(w)
      PROVE  Few(x) \/ Stays(x) \/ Counts(x)
  BY <1>11 DEF TypeOK, Begun, Outcomes, Few, Stays, Counts, Busy, DropUnaddressed, Done, Write, Unlisted, Listed
<1>12. ASSUME NEW w \in Workers, RetrySucceeds(w)
      PROVE  Few(x) \/ Stays(x) \/ Counts(x)
  BY <1>12 DEF TypeOK, Begun, Outcomes, Few, Stays, Counts, Busy, RetrySucceeds, Done, Write, Unlisted, Recorded, Goto
<1>13. ASSUME NEW w \in Workers, RetryFails(w)
      PROVE  Few(x) \/ Stays(x) \/ Counts(x)
  BY <1>13 DEF TypeOK, Begun, Outcomes, Few, Stays, Counts, Busy, RetryFails, Done, Write, Unlisted, Recorded, Goto
<1>14. ASSUME NEW w \in Workers, Announce(w)
      PROVE  Few(x) \/ Stays(x) \/ Counts(x)
  BY <1>14 DEF TypeOK, Begun, Outcomes, Few, Stays, Counts, Busy, Announce, Goto
<1>15. ASSUME NEW w \in Workers, ScanMissed(w)
      PROVE  Few(x) \/ Stays(x) \/ Counts(x)
  BY <1>15 DEF TypeOK, Begun, Outcomes, Few, Stays, Counts, Busy, ScanMissed, Goto, Visible, Missed, Listed
<1>16. ASSUME NEW w \in Workers, Redeliver(w)
      PROVE  Few(x) \/ Stays(x) \/ Counts(x)
  BY <1>16 DEF TypeOK, Begun, Outcomes, Few, Stays, Counts, Busy, Redeliver, Send, Goto, Listed
<1>17. ASSUME NEW w \in Workers, RecordMissed(w)
      PROVE  Few(x) \/ Stays(x) \/ Counts(x)
  BY <1>17 DEF TypeOK, Begun, Outcomes, Few, Stays, Counts, Busy, RecordMissed, Done, Write, Unlisted, Recorded, Goto
<1>18. ASSUME NEW w \in Workers, EndCycle(w)
      PROVE  Few(x) \/ Stays(x) \/ Counts(x)
  BY <1>18 DEF TypeOK, Begun, Outcomes, Few, Stays, Counts, Busy, EndCycle, Goto, Release, Listed
<1>19. ASSUME NEW w \in Workers, Crash(w)
      PROVE  Few(x) \/ Stays(x) \/ Counts(x)
  BY <1>19 DEF TypeOK, Begun, Outcomes, Few, Stays, Counts, Busy, Crash, Forgotten, Recorded, Goto, Release, Empty
<1>20. ASSUME NEW w \in Workers, LoseLease(w)
      PROVE  Few(x) \/ Stays(x) \/ Counts(x)
  BY <1>20 DEF TypeOK, Begun, Outcomes, Few, Stays, Counts, Busy, LoseLease
<1>21. ASSUME NEW r \in Replays, NEW n \in Endpoints, StartReplay(r, n)
      PROVE  Few(x) \/ Stays(x) \/ Counts(x)
  BY <1>21 DEF TypeOK, Begun, Outcomes, Few, Stays, Counts, Busy, StartReplay, Goto, Only, Retryable
<1>22. ASSUME NEW r \in Replays, Replay(r)
      PROVE  Few(x) \/ Stays(x) \/ Counts(x)
  BY <1>22 DEF TypeOK, Begun, Outcomes, Few, Stays, Counts, Busy, Replay, Send, Goto, Listed
<1>23. ASSUME NEW r \in Replays, ReplayCommits(r)
      PROVE  Few(x) \/ Stays(x) \/ Counts(x)
  <2>1. /\ list' = [list EXCEPT ![r] = [y \in Wanted |-> 0]]
        /\ pc' = [pc EXCEPT ![r] = "off"]
        /\ rows'[x] = IF x \in ok[r] \ stale[r] THEN 0
                      ELSE IF x \in failed[r] \ stale[r] THEN rows[x] + 1 ELSE rows[x]
    BY <1>23 DEF TypeOK, ReplayCommits, Write, Goto, Empty
  <2>2. Busy(x)' \subseteq Busy(x) \ {r}
    BY <2>1 DEF TypeOK, Busy
  <2>3. CASE x \in ok[r] \ stale[r]
    BY <2>1, <2>3 DEF Few
  <2>4. CASE x \notin ok[r] \ stale[r] /\ x \in failed[r] \ stale[r]
    <3>1. r \in Busy(x)
      BY <2>4 DEF TypeOK, Outcomes, Busy
    <3> QED
      BY <2>1, <2>2, <2>4, <3>1 DEF Counts
  <2>5. CASE x \notin ok[r] \ stale[r] /\ x \notin failed[r] \ stale[r]
    BY <2>1, <2>2, <2>5 DEF Stays
  <2> QED
    BY <2>3, <2>4, <2>5
<1>24. ASSUME NEW r \in Replays, ReplayLost(r)
      PROVE  Few(x) \/ Stays(x) \/ Counts(x)
  BY <1>24 DEF TypeOK, Begun, Outcomes, Few, Stays, Counts, Busy, ReplayLost, Forgotten, Recorded, Goto, Empty
<1> QED
  BY <1>1, <1>2, <1>3, <1>4, <1>5, <1>6, <1>7, <1>8, <1>9, <1>10, <1>11, <1>12, <1>13, <1>14, <1>15, <1>16, <1>17, <1>18, <1>19, <1>20, <1>21, <1>22, <1>23, <1>24 DEF Next, Cycle

\* At most all listers and the pair's own dispatch are busy with it.
LEMMA BusyFinite ==
    ASSUME NEW x \in Wanted
    PROVE  /\ IsFiniteSet(Listers \cup {x[2]})
           /\ Cardinality(Listers \cup {x[2]}) = Cardinality(Workers) + Cardinality(Replays) + 1
           /\ Busy(x) \subseteq Listers \cup {x[2]}
           /\ Cardinality(Workers) \in Nat /\ Cardinality(Replays) \in Nat
<1>1. IsFiniteSet(Workers) /\ IsFiniteSet(Replays) /\ Workers \cap Replays = {}
  BY DeliveryAssumption
<1>2. Cardinality(Workers) \in Nat /\ Cardinality(Replays) \in Nat
  BY <1>1, FS_CardinalityType
<1>3. /\ IsFiniteSet(Listers)
      /\ Cardinality(Listers) = Cardinality(Workers) + Cardinality(Replays)
  <2>1. Cardinality(Workers \cap Replays) = 0
    BY <1>1, FS_EmptySet
  <2>2. /\ IsFiniteSet(Workers \cup Replays)
        /\ Cardinality(Workers \cup Replays) =
              Cardinality(Workers) + Cardinality(Replays) - Cardinality(Workers \cap Replays)
    BY <1>1, FS_Union, Zenon
  <2> QED
    BY <1>2, <2>1, <2>2 DEF Listers
<1>4. x[2] \notin Listers
  BY Roles
<1>5. /\ IsFiniteSet(Listers \cup {x[2]})
      /\ Cardinality(Listers \cup {x[2]}) = Cardinality(Listers) + 1
  BY <1>3, <1>4, FS_AddElement
<1>6. Busy(x) \subseteq Listers \cup {x[2]}
  BY DEF Busy
<1> QED
  BY <1>2, <1>3, <1>5, <1>6

\* Removing a member makes a finite set smaller.
LEMMA Smaller ==
    ASSUME NEW T, IsFiniteSet(T), NEW s \in T, NEW S \in SUBSET (T \ {s})
    PROVE  /\ Cardinality(T) \in Nat /\ Cardinality(S) \in Nat
           /\ Cardinality(S) <= Cardinality(T) - 1
<1>1. IsFiniteSet(T \ {s}) /\ Cardinality(T \ {s}) = Cardinality(T) - 1
  BY FS_RemoveElement
<1>2. IsFiniteSet(S) /\ Cardinality(S) <= Cardinality(T \ {s})
  BY <1>1, FS_Subset
<1>3. Cardinality(T) \in Nat /\ Cardinality(S) \in Nat
  BY <1>2, FS_CardinalityType
<1> QED
  BY <1>1, <1>2, <1>3

\* Attempts beyond the cap are paid for by senders that were busy before it.
LEMMA PaidForStep ==
    TypeOK /\ Begun /\ Outcomes /\ PaidFor /\ Next => PaidFor'
<1> SUFFICES ASSUME TypeOK, Begun, Outcomes, PaidFor, Next, NEW x \in Wanted
             PROVE  rows'[x] < MaxAttempts \/ rows'[x] + Cardinality(Busy(x)') <= Bound
  BY DEF PaidFor, Bound
<1> DEFINE All == Listers \cup {x[2]}
<1>1. /\ IsFiniteSet(All)
      /\ Cardinality(All) = Cardinality(Workers) + Cardinality(Replays) + 1
      /\ Busy(x) \subseteq All
      /\ Cardinality(Workers) \in Nat /\ Cardinality(Replays) \in Nat
  BY BusyFinite
<1>2. rows[x] \in Nat /\ MaxAttempts \in Nat
  BY Bounds DEF TypeOK
<1>3. IsFiniteSet(Busy(x)) /\ Cardinality(Busy(x)) \in Nat
  BY <1>1, FS_Subset, FS_CardinalityType
<1>4. rows[x] < MaxAttempts \/ rows[x] + Cardinality(Busy(x)) <= Bound
  BY DEF PaidFor
<1>5. CASE Few(x)
  BY <1>5 DEF Few
<1>6. CASE Stays(x)
  <2>1. Cardinality(Busy(x)') \in Nat /\ Cardinality(Busy(x)') <= Cardinality(Busy(x))
    BY <1>3, <1>6, FS_Subset, FS_CardinalityType DEF Stays
  <2> QED
    BY <1>1, <1>2, <1>3, <1>4, <1>6, <2>1 DEF Stays, Bound
<1>7. CASE Counts(x)
  <2>1. PICK s \in Busy(x) : rows'[x] = rows[x] + 1 /\ Busy(x)' \subseteq Busy(x) \ {s}
    BY <1>7 DEF Counts
  <2>2. /\ Cardinality(Busy(x)') \in Nat
        /\ Cardinality(Busy(x)') <= Cardinality(Busy(x)) - 1
    BY <1>3, <2>1, Smaller
  <2>3. /\ s \in All /\ Busy(x)' \subseteq All \ {s}
    BY <1>1, <2>1
  <2>4. Cardinality(Busy(x)') <= Cardinality(All) - 1
    BY <1>1, <2>3, Smaller
  <2> HIDE DEF All
  <2> QED
    BY <1>1, <1>2, <1>3, <1>4, <2>1, <2>2, <2>4 DEF Bound
<1> QED
  BY <1>5, <1>6, <1>7, BusyStep

\* The invariant holds at the start.
LEMMA InitIInv == Init => IInv
<1> SUFFICES ASSUME Init PROVE IInv
  OBVIOUS
<1> USE Roles, Bounds
<1>1. TypeOK
  BY DEF Init, TypeOK, Places, Empty
<1>2. Begun /\ Leased /\ Outcomes /\ RowsLive
  BY DEF Init, Begun, Leased, Outcomes, RowsLive, RowPlaces, Empty
<1>3. PaidFor
  BY DEF Init, PaidFor, Empty
<1> QED
  BY <1>1, <1>2, <1>3 DEF IInv

\* Every step and every stutter keeps it.
LEMMA NextIInv == IInv /\ [Next]_vars => IInv'
<1> SUFFICES ASSUME IInv, [Next]_vars PROVE IInv'
  OBVIOUS
<1>1. CASE Next
  BY <1>1, TypeStep, BegunStep, LeasedStep, OutcomesStep, RowsLiveStep, PaidForStep DEF IInv
<1>2. CASE UNCHANGED vars
  <2>1. TypeOK'
    BY <1>2 DEF IInv, TypeOK, vars, endpointVars, eventVars, dbVars, senderVars, faultVars
  <2>2. Begun' /\ Leased' /\ Outcomes' /\ RowsLive'
    BY <1>2 DEF IInv, Begun, Leased, Outcomes, RowsLive, vars, endpointVars, eventVars, dbVars, senderVars, faultVars
  <2>3. PaidFor'
    BY <1>2 DEF IInv, PaidFor, Busy, vars, endpointVars, eventVars, dbVars, senderVars, faultVars
  <2> QED
    BY <2>1, <2>2, <2>3 DEF IInv
<1> QED
  BY <1>1, <1>2

\* The invariant always holds.
THEOREM DeliveryInvariant == Spec => []IInv
BY InitIInv, NextIInv, PTL DEF Spec

----------------------------------------------------------------------------
(* What follows. *)

\* Every variable keeps its type and outcomes live only between a call and its
\* record, for any endpoints, events and senders.
THEOREM DeliveryTypesCorrect == Spec => []TypeOK
<1>1. IInv => TypeOK
  BY DEF IInv
<1> QED
  BY <1>1, DeliveryInvariant, PTL

\* However the senders interleave, a dead letter counts at most one attempt
\* beyond the cap for each replica and replay call.
THEOREM AttemptsAreBounded == Spec => []AttemptsBounded
<1>1. IInv => AttemptsBounded
  <2> SUFFICES ASSUME IInv, NEW x \in Wanted
               PROVE  rows[x] <= MaxAttempts + Cardinality(Workers) + Cardinality(Replays)
    BY DEF AttemptsBounded
  <2>1. /\ IsFiniteSet(Listers \cup {x[2]}) /\ Busy(x) \subseteq Listers \cup {x[2]}
        /\ Cardinality(Workers) \in Nat /\ Cardinality(Replays) \in Nat
    BY BusyFinite
  <2>2. Cardinality(Busy(x)) \in Nat
    BY <2>1, FS_Subset, FS_CardinalityType
  <2>3. rows[x] \in Nat /\ MaxAttempts \in Nat
    BY Bounds DEF IInv, TypeOK
  <2>4. rows[x] < MaxAttempts \/ rows[x] + Cardinality(Busy(x)) <= Bound
    BY DEF IInv, PaidFor
  <2> QED
    BY <2>1, <2>2, <2>3, <2>4 DEF Bound
<1> QED
  BY <1>1, DeliveryInvariant, PTL

\* One replica at a time runs a cycle as long as no lease is lost, however many
\* replicas there are and however often they crash.
THEOREM OneReplicaAtATime == Spec => []OneReplicaDrains
<1>1. IInv => OneReplicaDrains
  BY DEF IInv, Leased, OneReplicaDrains
<1> QED
  BY <1>1, DeliveryInvariant, PTL

\* A receipt is written and a dead letter deleted only for what was delivered, or
\* with its endpoint, in whatever order the senders commit.
THEOREM NothingWrittenOff == Spec => WrittenOffOnlyIfDelivered
<1> DEFINE Fine == \A x \in Wanted :
                     \/ rows[x] > 0 /\ rows'[x] = 0
                     \/ x \in receipts' \ receipts
                     => x \in delivered \/ x[1] \notin active
<1>1. IInv /\ Next => Fine
  <2> SUFFICES ASSUME IInv, Next PROVE Fine
    OBVIOUS
  <2> USE Roles, Bounds DEF endpointVars, eventVars, dbVars, senderVars, faultVars
  <2>1. ASSUME NEW n \in Endpoints, Register(n)
        PROVE  Fine
    BY <2>1 DEF IInv, TypeOK, Outcomes, Register
  <2>2. ASSUME NEW n \in Endpoints, DeleteEndpoint(n)
        PROVE  Fine
    BY <2>2 DEF IInv, TypeOK, Outcomes, DeleteEndpoint
  <2>3. ASSUME NEW e \in Events, Emit(e)
        PROVE  Fine
    BY <2>3 DEF IInv, TypeOK, Outcomes, Emit, Goto
  <2>4. ASSUME NEW e \in Events, Dispatch(e)
        PROVE  Fine
    BY <2>4 DEF IInv, TypeOK, Outcomes, Dispatch, Send, Goto, Targets
  <2>5. ASSUME NEW e \in Events, RecordOutcomes(e)
        PROVE  Fine
    BY <2>5 DEF IInv, TypeOK, Outcomes, RecordOutcomes, Write, Unlisted, Recorded, Goto
  <2>6. ASSUME NEW e \in Events, DispatchLost(e)
        PROVE  Fine
    BY <2>6 DEF IInv, TypeOK, Outcomes, DispatchLost, Recorded, Goto
  <2>7. ASSUME NEW e \in Events, GraceOver(e)
        PROVE  Fine
    BY <2>7 DEF IInv, TypeOK, Outcomes, GraceOver
  <2>8. ASSUME NEW x \in Wanted, BackoffOver(x)
        PROVE  Fine
    BY <2>8 DEF IInv, TypeOK, Outcomes, BackoffOver
  <2>9. ASSUME NEW w \in Workers, StartCycle(w)
        PROVE  Fine
    BY <2>9 DEF IInv, TypeOK, Outcomes, StartCycle, Due, Goto, Only, Visible, Retryable
  <2>10. ASSUME NEW w \in Workers, Retry(w)
        PROVE  Fine
    BY <2>10 DEF IInv, TypeOK, Outcomes, Retry, Send, Goto, Listed
  <2>11. ASSUME NEW w \in Workers, DropUnaddressed(w)
        PROVE  Fine
    BY <2>11 DEF IInv, TypeOK, Outcomes, DropUnaddressed, Done, Write, Unlisted, Listed
  <2>12. ASSUME NEW w \in Workers, RetrySucceeds(w)
        PROVE  Fine
    BY <2>12 DEF IInv, TypeOK, Outcomes, RetrySucceeds, Done, Write, Unlisted, Recorded, Goto
  <2>13. ASSUME NEW w \in Workers, RetryFails(w)
        PROVE  Fine
    BY <2>13 DEF IInv, TypeOK, Outcomes, RetryFails, Done, Write, Unlisted, Recorded, Goto
  <2>14. ASSUME NEW w \in Workers, Announce(w)
        PROVE  Fine
    BY <2>14 DEF IInv, TypeOK, Outcomes, Announce, Goto
  <2>15. ASSUME NEW w \in Workers, ScanMissed(w)
        PROVE  Fine
    BY <2>15 DEF IInv, TypeOK, Outcomes, ScanMissed, Goto, Visible, Missed, Listed
  <2>16. ASSUME NEW w \in Workers, Redeliver(w)
        PROVE  Fine
    BY <2>16 DEF IInv, TypeOK, Outcomes, Redeliver, Send, Goto, Listed
  <2>17. ASSUME NEW w \in Workers, RecordMissed(w)
        PROVE  Fine
    BY <2>17 DEF IInv, TypeOK, Outcomes, RecordMissed, Done, Write, Unlisted, Recorded, Goto
  <2>18. ASSUME NEW w \in Workers, EndCycle(w)
        PROVE  Fine
    BY <2>18 DEF IInv, TypeOK, Outcomes, EndCycle, Goto, Release, Listed
  <2>19. ASSUME NEW w \in Workers, Crash(w)
        PROVE  Fine
    BY <2>19 DEF IInv, TypeOK, Outcomes, Crash, Forgotten, Recorded, Goto, Release, Empty
  <2>20. ASSUME NEW w \in Workers, LoseLease(w)
        PROVE  Fine
    BY <2>20 DEF IInv, TypeOK, Outcomes, LoseLease
  <2>21. ASSUME NEW r \in Replays, NEW n \in Endpoints, StartReplay(r, n)
        PROVE  Fine
    BY <2>21 DEF IInv, TypeOK, Outcomes, StartReplay, Goto, Only, Retryable
  <2>22. ASSUME NEW r \in Replays, Replay(r)
        PROVE  Fine
    BY <2>22 DEF IInv, TypeOK, Outcomes, Replay, Send, Goto, Listed
  <2>23. ASSUME NEW r \in Replays, ReplayCommits(r)
        PROVE  Fine
    BY <2>23 DEF IInv, TypeOK, Outcomes, ReplayCommits, Write, Unlisted, Recorded, Goto, Empty
  <2>24. ASSUME NEW r \in Replays, ReplayLost(r)
        PROVE  Fine
    BY <2>24 DEF IInv, TypeOK, Outcomes, ReplayLost, Forgotten, Recorded, Goto, Empty
  <2> QED
    BY <2>1, <2>2, <2>3, <2>4, <2>5, <2>6, <2>7, <2>8, <2>9, <2>10, <2>11, <2>12, <2>13, <2>14, <2>15, <2>16, <2>17, <2>18, <2>19, <2>20, <2>21, <2>22, <2>23, <2>24 DEF Next, Cycle
<1>2. IInv /\ [Next]_vars => [Fine]_<<rows, receipts>>
  BY <1>1 DEF vars, dbVars
<1> QED
  BY <1>2, DeliveryInvariant, PTL DEF Spec, WrittenOffOnlyIfDelivered

\* Exhaustion is reported by the replica that reaches the cap unless another
\* sender counted meanwhile, and never before the cap for a row that still exists.
THEOREM ReportsAreExact == Spec => ReportedAtTheCap
<1> DEFINE Fine == \A w \in Workers, x \in Wanted :
             /\ pc[w] = "retried" /\ pc'[w] = "retry" /\ x \in failed[w]
                   => rows'[x] < MaxAttempts \/ list[w][x] # rows[x]
             /\ Reports(w, x) => rows'[x] >= MaxAttempts \/ x \in stale[w]
<1>1. IInv /\ Next => Fine
  <2> SUFFICES ASSUME IInv, Next PROVE Fine
    OBVIOUS
  <2> USE Roles, Bounds DEF endpointVars, eventVars, dbVars, senderVars, faultVars
  <2>1. ASSUME NEW n \in Endpoints, Register(n)
        PROVE  Fine
    BY <2>1 DEF IInv, TypeOK, Outcomes, RowsLive, RowPlaces, Reports, Register
  <2>2. ASSUME NEW n \in Endpoints, DeleteEndpoint(n)
        PROVE  Fine
    BY <2>2 DEF IInv, TypeOK, Outcomes, RowsLive, RowPlaces, Reports, DeleteEndpoint
  <2>3. ASSUME NEW e \in Events, Emit(e)
        PROVE  Fine
    BY <2>3 DEF IInv, TypeOK, Outcomes, RowsLive, RowPlaces, Reports, Emit, Goto
  <2>4. ASSUME NEW e \in Events, Dispatch(e)
        PROVE  Fine
    BY <2>4 DEF IInv, TypeOK, Outcomes, RowsLive, RowPlaces, Reports, Dispatch, Send, Goto, Targets
  <2>5. ASSUME NEW e \in Events, RecordOutcomes(e)
        PROVE  Fine
    BY <2>5 DEF IInv, TypeOK, Outcomes, RowsLive, RowPlaces, Reports, RecordOutcomes, Write, Unlisted, Recorded, Goto
  <2>6. ASSUME NEW e \in Events, DispatchLost(e)
        PROVE  Fine
    BY <2>6 DEF IInv, TypeOK, Outcomes, RowsLive, RowPlaces, Reports, DispatchLost, Recorded, Goto
  <2>7. ASSUME NEW e \in Events, GraceOver(e)
        PROVE  Fine
    BY <2>7 DEF IInv, TypeOK, Outcomes, RowsLive, RowPlaces, Reports, GraceOver
  <2>8. ASSUME NEW x \in Wanted, BackoffOver(x)
        PROVE  Fine
    BY <2>8 DEF IInv, TypeOK, Outcomes, RowsLive, RowPlaces, Reports, BackoffOver
  <2>9. ASSUME NEW w \in Workers, StartCycle(w)
        PROVE  Fine
    BY <2>9 DEF IInv, TypeOK, Outcomes, RowsLive, RowPlaces, Reports, StartCycle, Due, Goto, Only, Visible, Retryable
  <2>10. ASSUME NEW w \in Workers, Retry(w)
        PROVE  Fine
    BY <2>10 DEF IInv, TypeOK, Outcomes, RowsLive, RowPlaces, Reports, Retry, Send, Goto, Listed
  <2>11. ASSUME NEW w \in Workers, DropUnaddressed(w)
        PROVE  Fine
    BY <2>11 DEF IInv, TypeOK, Outcomes, RowsLive, RowPlaces, Reports, DropUnaddressed, Done, Write, Unlisted, Listed
  <2>12. ASSUME NEW w \in Workers, RetrySucceeds(w)
        PROVE  Fine
    BY <2>12 DEF IInv, TypeOK, Outcomes, RowsLive, RowPlaces, Reports, RetrySucceeds, Done, Write, Unlisted, Recorded, Goto
  <2>13. ASSUME NEW w \in Workers, RetryFails(w)
        PROVE  Fine
    BY <2>13 DEF IInv, TypeOK, Outcomes, RowsLive, RowPlaces, Reports, RetryFails, Done, Write, Unlisted, Recorded, Goto
  <2>14. ASSUME NEW w \in Workers, Announce(w)
        PROVE  Fine
    BY <2>14 DEF IInv, TypeOK, Outcomes, RowsLive, RowPlaces, Reports, Announce, Goto
  <2>15. ASSUME NEW w \in Workers, ScanMissed(w)
        PROVE  Fine
    BY <2>15 DEF IInv, TypeOK, Outcomes, RowsLive, RowPlaces, Reports, ScanMissed, Goto, Visible, Missed, Listed
  <2>16. ASSUME NEW w \in Workers, Redeliver(w)
        PROVE  Fine
    BY <2>16 DEF IInv, TypeOK, Outcomes, RowsLive, RowPlaces, Reports, Redeliver, Send, Goto, Listed
  <2>17. ASSUME NEW w \in Workers, RecordMissed(w)
        PROVE  Fine
    BY <2>17 DEF IInv, TypeOK, Outcomes, RowsLive, RowPlaces, Reports, RecordMissed, Done, Write, Unlisted, Recorded, Goto
  <2>18. ASSUME NEW w \in Workers, EndCycle(w)
        PROVE  Fine
    BY <2>18 DEF IInv, TypeOK, Outcomes, RowsLive, RowPlaces, Reports, EndCycle, Goto, Release, Listed
  <2>19. ASSUME NEW w \in Workers, Crash(w)
        PROVE  Fine
    BY <2>19 DEF IInv, TypeOK, Outcomes, RowsLive, RowPlaces, Reports, Crash, Forgotten, Recorded, Goto, Release, Empty
  <2>20. ASSUME NEW w \in Workers, LoseLease(w)
        PROVE  Fine
    BY <2>20 DEF IInv, TypeOK, Outcomes, RowsLive, RowPlaces, Reports, LoseLease
  <2>21. ASSUME NEW r \in Replays, NEW n \in Endpoints, StartReplay(r, n)
        PROVE  Fine
    BY <2>21 DEF IInv, TypeOK, Outcomes, RowsLive, RowPlaces, Reports, StartReplay, Goto, Only, Retryable
  <2>22. ASSUME NEW r \in Replays, Replay(r)
        PROVE  Fine
    BY <2>22 DEF IInv, TypeOK, Outcomes, RowsLive, RowPlaces, Reports, Replay, Send, Goto, Listed
  <2>23. ASSUME NEW r \in Replays, ReplayCommits(r)
        PROVE  Fine
    BY <2>23 DEF IInv, TypeOK, Outcomes, RowsLive, RowPlaces, Reports, ReplayCommits, Write, Unlisted, Recorded, Goto, Empty
  <2>24. ASSUME NEW r \in Replays, ReplayLost(r)
        PROVE  Fine
    BY <2>24 DEF IInv, TypeOK, Outcomes, RowsLive, RowPlaces, Reports, ReplayLost, Forgotten, Recorded, Goto, Empty
  <2> QED
    BY <2>1, <2>2, <2>3, <2>4, <2>5, <2>6, <2>7, <2>8, <2>9, <2>10, <2>11, <2>12, <2>13, <2>14, <2>15, <2>16, <2>17, <2>18, <2>19, <2>20, <2>21, <2>22, <2>23, <2>24 DEF Next, Cycle
<1>2. IInv /\ [Next]_vars => [Fine]_pc
  BY <1>1 DEF vars, senderVars
<1> QED
  BY <1>2, DeliveryInvariant, PTL DEF Spec, ReportedAtTheCap

=============================================================================
