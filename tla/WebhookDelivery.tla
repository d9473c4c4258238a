-------------------------- MODULE WebhookDelivery --------------------------
(***************************************************************************)
(* Outbound webhooks: every forwarded audit event, to every endpoint that  *)
(* wants it.                                                               *)
(*                                                                         *)
(* The first hop is a setImmediate after the emit (WebhookDispatcher); it  *)
(* dies with its process.  A failed delivery leaves a dead letter, which   *)
(* the replicas of the dispatch worker retry under one advisory lease and  *)
(* operators replay by hand; the worker also looks for events with neither *)
(* a receipt nor a dead letter.  All three may be busy with one event at   *)
(* once: none locks what it read while it calls the endpoint.              *)
(*                                                                         *)
(* The database writes of a transaction are one step at its commit: they   *)
(* follow the last call of the endpoint, and the row locks of an earlier   *)
(* one only order the commits.  Left out: the limit of a scan, the seven   *)
(* days the reconcile scan looks back, signatures and the URL guard.       *)
(***************************************************************************)
EXTENDS Integers, FiniteSets

CONSTANTS
    Endpoints, Events,
    Wanted,         \* the pairs <<endpoint, event>> the enabled_events let through
    Workers,        \* replicas of the dispatch worker
    Replays,        \* concurrent calls of POST /webhooks/:endpoint_id/replay
    NoWorker,
    MaxAttempts,    \* MAX_WEBHOOK_DELIVERY_ATTEMPTS
    MaxCrashes,     \* bound of the cycles that end in an error or with their process
    MaxLosses       \* bound of the leases lost with the connection that holds them

ASSUME DeliveryAssumption ==
    /\ Wanted \subseteq Endpoints \X Events
    /\ IsFiniteSet(Workers) /\ IsFiniteSet(Replays)
    /\ Workers \cap Replays = {} /\ Workers \cap Events = {} /\ Replays \cap Events = {}
    /\ NoWorker \notin Workers
    /\ MaxAttempts \in Nat \ {0}
    /\ MaxCrashes \in Nat
    /\ MaxLosses \in Nat

Listers == Workers \cup Replays     \* they work from a list of dead letters
Senders == Listers \cup Events      \* an event stands for its inline dispatch

VARIABLES
    wide,       \* the worker's pool bypasses row security
    active,     \* rows of webhook_endpoints
    deleted,    \* endpoints that are gone
    log,        \* committed events
    young,      \* events within the reconcile scan's grace
    rows,       \* attempt_count of each pair's dead letter, 0 without one
    cooling,    \* dead letters whose backoff has not elapsed
    receipts,   \* webhook_delivery_receipts
    delivered,  \* history: the endpoint has answered with success
    lease,      \* the replica that holds the advisory lock
    pc,         \* where each sender is
    list,       \* what a scan returned: attempt_count of each listed pair
    stale,      \* listed dead letters that were deleted since
    ok, failed, \* the outcomes a sender has not yet recorded
    crashes, losses

dbVars == <<rows, cooling, receipts>>
endpointVars == <<wide, active, deleted>>
eventVars == <<log, young>>
senderVars == <<pc, list, stale, ok, failed>>
faultVars == <<crashes, losses>>
vars == <<endpointVars, eventVars, dbVars, delivered, lease, senderVars, faultVars>>

Retryable == {x \in Wanted : 0 < rows[x] /\ rows[x] < MaxAttempts}

\* Mutant: the grace is compared the wrong way round.
Missed_Reversed == {x \in Wanted :
             /\ x[1] \in active /\ x[2] \in young
             /\ x \notin receipts /\ rows[x] = 0}

\* getUndeliveredWebhookEvents.
Missed == {x \in Wanted :
             /\ x[1] \in active /\ x[2] \in log \ young
             /\ x \notin receipts /\ rows[x] = 0}

\* Pairs that s has listed; a scan's result that no row stands for counts 1.
Listed(s) == {x \in Wanted : list[s][x] > 0}
Empty == [x \in Wanted |-> 0]
Only(S) == [x \in Wanted |-> IF x \in S THEN rows[x] ELSE 0]

Init ==
    /\ wide \in BOOLEAN
    /\ active = {} /\ deleted = {}
    /\ log = {} /\ young = {}
    /\ rows = Empty /\ cooling = {} /\ receipts = {}
    /\ delivered = {}
    /\ lease = NoWorker
    /\ pc = [s \in Senders |-> "off"]
    /\ list = [s \in Listers |-> Empty]
    /\ stale = [s \in Listers |-> {}]
    /\ ok = [s \in Senders |-> {}]
    /\ failed = [s \in Senders |-> {}]
    /\ crashes = 0 /\ losses = 0

----------------------------------------------------------------------------
(* The tables. *)

\* Dead letters deleted in this step may still be listed by id elsewhere.
Unlisted(D) ==
    stale' = [s \in Listers |-> {x \in stale[s] \cup D : list'[s][x] > 0}]

\* One transaction's writes: the pairs of S lose their dead letter, those of B
\* have one more failed attempt.
Write(S, B) ==
    /\ rows' = [x \in Wanted |-> IF x \in S THEN 0 ELSE IF x \in B THEN rows[x] + 1 ELSE rows[x]]
    /\ cooling' = (cooling \ S) \cup B
    /\ Unlisted({x \in S : rows[x] > 0})

Register(n) ==
    /\ n \notin active \cup deleted
    /\ active' = active \cup {n}
    /\ UNCHANGED <<wide, deleted, eventVars, dbVars, delivered, lease, senderVars, faultVars>>

\* Its dead letters stay behind.
DeleteEndpoint(n) ==
    /\ n \in active
    /\ active' = active \ {n}
    /\ deleted' = deleted \cup {n}
    /\ UNCHANGED <<wide, eventVars, dbVars, delivered, lease, senderVars, faultVars>>

GraceOver(e) ==
    /\ e \in young
    /\ young' = young \ {e}
    /\ UNCHANGED <<endpointVars, log, dbVars, delivered, lease, senderVars, faultVars>>

BackoffOver(x) ==
    /\ x \in cooling
    /\ cooling' = cooling \ {x}
    /\ UNCHANGED <<endpointVars, eventVars, rows, receipts, delivered, lease, senderVars, faultVars>>

Goto(s, p) == pc' = [pc EXCEPT ![s] = p]

\* deliverWebhook to every pair of S; s goes on to record the outcomes.
Send(s, S, next) ==
    /\ \E arrived \in SUBSET S :
         /\ delivered' = delivered \cup arrived
         /\ ok' = [ok EXCEPT ![s] = arrived]
         /\ failed' = [failed EXCEPT ![s] = S \ arrived]
    /\ Goto(s, next)

Recorded(s) ==
    /\ ok' = [ok EXCEPT ![s] = {}]
    /\ failed' = [failed EXCEPT ![s] = {}]

----------------------------------------------------------------------------
(* The inline dispatch. *)

\* WebhookAuditEmitter.emit: the event is committed and its dispatch queued.
Emit(e) ==
    /\ e \notin log
    /\ log' = log \cup {e}
    /\ young' = young \cup {e}
    /\ Goto(e, "queued")
    /\ UNCHANGED <<endpointVars, dbVars, delivered, lease, list, stale, ok, failed, faultVars>>

Targets(e) == {x \in Wanted : x[2] = e /\ x[1] \in active}

Dispatch(e) ==
    /\ pc[e] = "queued"
    /\ Send(e, Targets(e), "sent")
    /\ UNCHANGED <<endpointVars, eventVars, dbVars, lease, list, stale, faultVars>>

\* All outcomes in one transaction.
RecordOutcomes(e) ==
    /\ pc[e] = "sent"
    /\ UNCHANGED list
    /\ Write(ok[e], failed[e])
    /\ receipts' = receipts \cup ok[e]
    /\ Recorded(e)
    /\ Goto(e, "off")
    /\ UNCHANGED <<endpointVars, eventVars, delivered, lease, faultVars>>

\* The process ends, or the query or the transaction fails: nobody hears of it.
DispatchLost(e) ==
    /\ pc[e] \in {"queued", "sent"}
    /\ Recorded(e)
    /\ Goto(e, "off")
    /\ UNCHANGED <<endpointVars, eventVars, dbVars, delivered, lease, list, stale, faultVars>>

----------------------------------------------------------------------------
(* The dispatch worker. *)

\* Without BYPASSRLS a scan outside any tenant's scope returns nothing.
Visible(S) == IF wide THEN S ELSE {}

\* getDueDeadLetters.
Due == Visible(Retryable \ cooling)

\* Mutant: the cycle does not ask for the lease.
StartCycle_NoLease(w) ==
    /\ pc[w] = "off"
    /\ lease' = w
    /\ list' = [list EXCEPT ![w] = Only(Due)]
    /\ Goto(w, "retry")
    /\ UNCHANGED <<endpointVars, eventVars, dbVars, delivered, stale, ok, failed, faultVars>>

\* leasedCycle, and the list of what is due.
StartCycle(w) ==
    /\ pc[w] = "off"
    /\ lease = NoWorker
    /\ lease' = w
    /\ list' = [list EXCEPT ![w] = Only(Due)]
    /\ Goto(w, "retry")
    /\ UNCHANGED <<endpointVars, eventVars, dbVars, delivered, stale, ok, failed, faultVars>>

Done(w, x) == list' = [list EXCEPT ![w][x] = 0]

\* One listed dead letter is sent again ...
Retry(w) ==
    /\ pc[w] = "retry"
    /\ \E x \in Listed(w) :
         /\ x[1] \in active
         /\ Send(w, {x}, "retried")
    /\ UNCHANGED <<endpointVars, eventVars, dbVars, lease, list, stale, faultVars>>

\* ... or dropped with its endpoint.
DropUnaddressed(w) ==
    /\ pc[w] = "retry"
    /\ \E x \in Listed(w) :
         /\ x[1] \notin active
         /\ Done(w, x)
         /\ Write({x} \ stale[w], {})
    /\ UNCHANGED <<endpointVars, eventVars, receipts, delivered, lease, pc, ok, failed, faultVars>>

\* Success deletes the dead letter by its id; no receipt is written.
RetrySucceeds(w) ==
    /\ pc[w] = "retried"
    /\ \E x \in ok[w] :
         /\ Done(w, x)
         /\ Write({x} \ stale[w], {})
    /\ Recorded(w)
    /\ Goto(w, "retry")
    /\ UNCHANGED <<endpointVars, eventVars, receipts, delivered, lease, faultVars>>

\* Mutant: the cap is tested before the attempt is counted.
RetryFails_CountsLate(w) ==
    /\ pc[w] = "retried"
    /\ \E x \in failed[w] :
         /\ Done(w, x)
         /\ Write({}, {x} \ stale[w])
         /\ Goto(w, IF list[w][x] >= MaxAttempts THEN "announce" ELSE "retry")
    /\ Recorded(w)
    /\ UNCHANGED <<endpointVars, eventVars, receipts, delivered, lease, faultVars>>

\* A failure counts an attempt; whether it was the last one is told from the
\* count that was listed.
RetryFails(w) ==
    /\ pc[w] = "retried"
    /\ \E x \in failed[w] :
         /\ Done(w, x)
         /\ Write({}, {x} \ stale[w])
         /\ Goto(w, IF list[w][x] + 1 >= MaxAttempts THEN "announce" ELSE "retry")
    /\ Recorded(w)
    /\ UNCHANGED <<endpointVars, eventVars, receipts, delivered, lease, faultVars>>

\* audit.webhook.delivery.exhausted, or an emit that fails.
Announce(w) ==
    /\ pc[w] = "announce"
    /\ Goto(w, "retry")
    /\ UNCHANGED <<endpointVars, eventVars, dbVars, delivered, lease, list, stale, ok, failed, faultVars>>

\* The reconcile scan, after the retries.
ScanMissed(w) ==
    /\ pc[w] = "retry"
    /\ Listed(w) = {}
    /\ list' = [list EXCEPT ![w] = [x \in Wanted |-> IF x \in Visible(Missed) THEN 1 ELSE 0]]
    /\ Goto(w, "missed")
    /\ UNCHANGED <<endpointVars, eventVars, dbVars, delivered, lease, stale, ok, failed, faultVars>>

\* The address is the one the scan returned.
Redeliver(w) ==
    /\ pc[w] = "missed"
    /\ \E x \in Listed(w) : Send(w, {x}, "redelivered")
    /\ UNCHANGED <<endpointVars, eventVars, dbVars, lease, list, stale, faultVars>>

\* Mutant: success leaves no receipt, as it leaves none after a retry.
RecordMissed_NoReceipt(w) ==
    /\ pc[w] = "redelivered"
    /\ \E x \in ok[w] \cup failed[w] :
         /\ Done(w, x)
         /\ Write({}, failed[w])
    /\ Recorded(w)
    /\ Goto(w, "missed")
    /\ UNCHANGED <<endpointVars, eventVars, receipts, delivered, lease, faultVars>>

\* A receipt or a new dead letter; one that appeared meanwhile is counted up.
RecordMissed(w) ==
    /\ pc[w] = "redelivered"
    /\ \E x \in ok[w] \cup failed[w] :
         /\ Done(w, x)
         /\ receipts' = receipts \cup ok[w]
         /\ Write({}, failed[w])
    /\ Recorded(w)
    /\ Goto(w, "missed")
    /\ UNCHANGED <<endpointVars, eventVars, delivered, lease, faultVars>>

Release(w) == lease' = IF lease = w THEN NoWorker ELSE lease

EndCycle(w) ==
    /\ pc[w] = "missed"
    /\ Listed(w) = {}
    /\ Goto(w, "off")
    /\ Release(w)
    /\ UNCHANGED <<endpointVars, eventVars, dbVars, delivered, list, stale, ok, failed, faultVars>>

\* Mutant: the outcomes stay with the sender.
Forgotten_KeepsOutcomes(s) ==
    /\ UNCHANGED <<ok, failed>>
    /\ list' = [list EXCEPT ![s] = Empty]
    /\ stale' = [stale EXCEPT ![s] = {}]
    /\ Goto(s, "off")

\* s stops; nothing it had not recorded survives.
Forgotten(s) ==
    /\ Recorded(s)
    /\ list' = [list EXCEPT ![s] = Empty]
    /\ stale' = [stale EXCEPT ![s] = {}]
    /\ Goto(s, "off")

\* A database error ends the cycle, or the process dies: its session ends and
\* with it the lock.
Crash(w) ==
    /\ pc[w] # "off"
    /\ crashes < MaxCrashes
    /\ crashes' = crashes + 1
    /\ Forgotten(w)
    /\ Release(w)
    /\ UNCHANGED <<endpointVars, eventVars, dbVars, delivered, losses>>

\* The database ends the session that holds the lock; the cycle goes on over its
\* other connections.
LoseLease(w) ==
    /\ lease = w
    /\ losses < MaxLosses
    /\ losses' = losses + 1
    /\ lease' = NoWorker
    /\ UNCHANGED <<endpointVars, eventVars, dbVars, delivered, senderVars, crashes>>

----------------------------------------------------------------------------
(* POST /webhooks/:endpoint_id/replay. *)

\* Mutant: exhausted dead letters are replayed too.
StartReplay_NoCap(r, n) ==
    /\ pc[r] = "off"
    /\ n \in active
    /\ \E x \in Wanted : x[1] = n /\ rows[x] > 0
    /\ list' = [list EXCEPT ![r] = Only({x \in Wanted : x[1] = n})]
    /\ Goto(r, "replay")
    /\ UNCHANGED <<endpointVars, eventVars, dbVars, delivered, lease, stale, ok, failed, faultVars>>

\* getReplayableDeadLetters; with none the call changes nothing.
StartReplay(r, n) ==
    LET replayable == {x \in Retryable : x[1] = n}
    IN  /\ pc[r] = "off"
        /\ n \in active
        /\ replayable # {}
        /\ list' = [list EXCEPT ![r] = Only(replayable)]
        /\ Goto(r, "replay")
        /\ UNCHANGED <<endpointVars, eventVars, dbVars, delivered, lease, stale, ok, failed, faultVars>>

Replay(r) ==
    /\ pc[r] = "replay"
    /\ Send(r, Listed(r), "replayed")
    /\ UNCHANGED <<endpointVars, eventVars, dbVars, lease, list, stale, faultVars>>

\* Mutant: a replayed dead letter is cleared whatever the endpoint answered.
ReplayCommits_ClearsAll(r) ==
    /\ pc[r] = "replayed"
    /\ list' = [list EXCEPT ![r] = Empty]
    /\ Write(Listed(r) \ stale[r], {})
    /\ Recorded(r)
    /\ Goto(r, "off")
    /\ UNCHANGED <<endpointVars, eventVars, receipts, delivered, lease, faultVars>>

ReplayCommits(r) ==
    /\ pc[r] = "replayed"
    /\ list' = [list EXCEPT ![r] = Empty]
    /\ Write(ok[r] \ stale[r], failed[r] \ stale[r])
    /\ Recorded(r)
    /\ Goto(r, "off")
    /\ UNCHANGED <<endpointVars, eventVars, receipts, delivered, lease, faultVars>>

\* The transaction rolls back, whatever has been delivered.
ReplayLost(r) ==
    /\ pc[r] # "off"
    /\ Forgotten(r)
    /\ UNCHANGED <<endpointVars, eventVars, dbVars, delivered, lease, faultVars>>

----------------------------------------------------------------------------

\* What a replica does as long as nothing stops it.
Cycle(w) ==
    \/ StartCycle(w)
    \/ Retry(w) \/ DropUnaddressed(w) \/ RetrySucceeds(w) \/ RetryFails(w) \/ Announce(w)
    \/ ScanMissed(w) \/ Redeliver(w) \/ RecordMissed(w) \/ EndCycle(w)

Next ==
    \/ \E n \in Endpoints : Register(n) \/ DeleteEndpoint(n)
    \/ \E e \in Events :
         Emit(e) \/ Dispatch(e) \/ RecordOutcomes(e) \/ DispatchLost(e) \/ GraceOver(e)
    \/ \E x \in Wanted : BackoffOver(x)
    \/ \E w \in Workers : Cycle(w) \/ Crash(w) \/ LoseLease(w)
    \/ \E r \in Replays :
         \/ \E n \in Endpoints : StartReplay(r, n)
         \/ Replay(r) \/ ReplayCommits(r) \/ ReplayLost(r)

\* The interval loop starts a cycle again and again, and every await of a cycle
\* ends; time passes.  Neither requests nor the inline dispatch are promised.
Fairness ==
    /\ \A w \in Workers : WF_vars(Cycle(w))
    /\ \A e \in Events : WF_vars(GraceOver(e))
    /\ \A x \in Wanted : WF_vars(BackoffOver(x))

Spec == Init /\ [][Next]_vars /\ Fairness

----------------------------------------------------------------------------
(* Properties. *)

Places == {"off", "queued", "sent", "retry", "retried", "announce", "missed", "redelivered",
           "replay", "replayed"}

\* Types, and that a sender has outcomes only between a call and its record.
TypeOK ==
    /\ wide \in BOOLEAN
    /\ active \in SUBSET Endpoints /\ deleted \in SUBSET Endpoints
    /\ log \in SUBSET Events /\ young \in SUBSET Events
    /\ rows \in [Wanted -> Nat]
    /\ cooling \in SUBSET Wanted /\ receipts \in SUBSET Wanted
    /\ delivered \in SUBSET Wanted
    /\ lease \in Workers \cup {NoWorker}
    /\ pc \in [Senders -> Places]
    /\ list \in [Listers -> [Wanted -> Nat]]
    /\ stale \in [Listers -> SUBSET Wanted]
    /\ ok \in [Senders -> SUBSET Wanted] /\ failed \in [Senders -> SUBSET Wanted]
    /\ \A s \in Senders :
         ok[s] \cup failed[s] # {} => pc[s] \in {"sent", "retried", "redelivered", "replayed"}
    /\ crashes \in 0 .. MaxCrashes /\ losses \in 0 .. MaxLosses

\* The cap holds up to the senders that were already under way when it was
\* reached: each replica and each replay call may add one attempt, and the
\* inline dispatch one more (getDueDeadLetters and getReplayableDeadLetters read
\* the count before they call the endpoint, and no row is claimed).
AttemptsBounded ==
    \A x \in Wanted : rows[x] <= MaxAttempts + Cardinality(Workers) + Cardinality(Replays)

\* The lease lets one replica at a time work, as long as no connection that
\* holds it breaks (leasedCycle).
OneReplicaDrains ==
    losses = 0 => \A w, v \in Workers : pc[w] # "off" /\ pc[v] # "off" => w = v

\* Nothing is written off: a receipt is written, and a dead letter goes away,
\* only for an event its endpoint has accepted, or with the endpoint.
WrittenOffOnlyIfDelivered ==
    [][\A x \in Wanted :
          \/ rows[x] > 0 /\ rows'[x] = 0
          \/ x \in receipts' \ receipts
          => x \in delivered \/ x[1] \notin active]_<<rows, receipts>>

\* w reports the dead letter of x as exhausted.
Reports(w, x) == pc[w] = "retried" /\ pc'[w] = "announce" /\ x \in failed[w]

\* An exhaustion is reported by the replica whose attempt reaches the cap unless
\* another sender counted one since the scan, and nothing is reported exhausted
\* before the cap, unless its row was deleted meanwhile (newAttempt).
ReportedAtTheCap ==
    [][\A w \in Workers, x \in Wanted :
         /\ pc[w] = "retried" /\ pc'[w] = "retry" /\ x \in failed[w]
               => rows'[x] < MaxAttempts \/ list[w][x] # rows[x]
         /\ Reports(w, x) => rows'[x] >= MaxAttempts \/ x \in stale[w]]_pc

\* At least once: whatever was lost before the first attempt, if the worker sees
\* all tenants, an event reaches each endpoint that wants it, or exhausts its
\* attempts there, or the endpoint is deleted.
EventuallyHandled ==
    \A x \in Wanted :
        (wide /\ x[1] \in active /\ x[2] \in log) ~>
            (x \in delivered \/ rows[x] >= MaxAttempts \/ x[1] \in deleted)

Settled(x) ==
    \/ rows[x] >= MaxAttempts
    \/ rows[x] = 0 /\ x \notin Missed

CallFails(x) == \E s \in Senders : x \in failed'[s] \ failed[s]

\* Resending ends: an event stops being sent to its endpoint, unless the calls
\* go on failing for ever.  (A success after a dead letter leaves no receipt, so
\* the event is sent at least once more; failing then starts the count anew.)
ResendingEnds ==
    wide => \A x \in Wanted : []<><<CallFails(x)>>_vars \/ <>[]Settled(x)

=============================================================================
