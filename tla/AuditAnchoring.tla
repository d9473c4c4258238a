-------------------------- MODULE AuditAnchoring --------------------------
(***************************************************************************)
(* Anchoring of a tenant's audit log on chain.                             *)
(*                                                                         *)
(* Two kinds of publisher cut the log into windows, store a row of         *)
(* audit_anchors per Merkle root and publish the root: the scheduler, in   *)
(* batches (runAnchor), and POST /audit/anchor/publish, one row at a time. *)
(* Nothing keeps them apart, and nothing but the next cycle repairs what a *)
(* crash, an RPC error or a receipt that does not come leaves behind; the  *)
(* reconciler looks for rows that were published but not marked.           *)
(*                                                                         *)
(* A root stands for the set of its leaves.  Left out: tenants in db_only  *)
(* mode, the batch size, the route's cooldown, gas and funds (an error     *)
(* there is a Stop), the trigger that decides when a cycle starts.         *)
(***************************************************************************)
EXTENDS AuditLog

CONSTANTS
    Cycles,     \* processes that run the scheduler
    Calls,      \* concurrent calls of the publish route
    MaxWindow,  \* MAX_ANCHOR_WINDOW_MS
    Second,     \* the milliseconds of a second
    MaxLoose    \* bound of the transactions that may still be mined unattended

ASSUME AnchoringAssumption ==
    /\ Cycles \cap Calls = {}
    /\ MaxWindow \in Nat
    /\ Second \in Nat \ {0}
    /\ MaxLoose \in Nat

Publishers == Cycles \cup Calls
Roots      == SUBSET Events

VARIABLES
    status,     \* onchain_status of each root's row, "none" without a row
    from,       \* its period_start
    to,         \* its period_end
    txHash,     \* its onchain_tx_hash is set
    published,  \* the roots the contract has recorded
    latest,     \* its latest pointer: a root and its periodEnd, in seconds
    pc,         \* where each publisher is
    retrying,   \* publishers whose broadcast is of rows found pending
    now,        \* the time it took at its start, until it has a window
    span,       \* the window it derived
    work,       \* the root it listed, then the roots it broadcasts
    good,       \* broadcast results: confirmed or already_anchored
    bad,        \* broadcast results: reverted
    loose,      \* transactions in the mempool that no publisher waits for
    orphan,     \* the row the reconciler looks at ({}: none)
    straggler,  \* history: committed behind a listed window or a later event
    passed      \* history: committed behind the window a call is about to list

rowVars == <<status, from, to, txHash>>
chainVars == <<published, latest>>
history == <<straggler, passed>>
pubVars == <<pc, retrying, now, span, work, good, bad>>
anchorVars == <<rowVars, chainVars, pubVars, loose, orphan, history>>
vars == <<logVars, anchorVars>>

Anchors == {r \in Roots : status[r] # "none"}
Live    == {r \in Roots : status[r] \in {"pending", "confirmed"}}
Pending == {r \in Roots : status[r] = "pending" /\ ~txHash[r]}

InWindow(s, t) == {e \in log : s <= at[e] /\ at[e] <= t}

\* Events after covered_to, which is the last period_end of a row that is not
\* reverted.
Uncovered == {e \in log : \A r \in Live : to[r] < at[e]}

NoSpan == <<0, 0>>

Init ==
    /\ LogInit
    /\ status = [r \in Roots |-> "none"]
    /\ from = [r \in Roots |-> 0]
    /\ to = [r \in Roots |-> 0]
    /\ txHash = [r \in Roots |-> FALSE]
    /\ published = {}
    /\ latest = [root |-> {}, end |-> 0]
    /\ pc = [p \in Publishers |-> "idle"]
    /\ retrying = {}
    /\ now = [p \in Publishers |-> 0]
    /\ span = [p \in Publishers |-> NoSpan]
    /\ work = [p \in Publishers |-> {}]
    /\ good = [p \in Publishers |-> {}]
    /\ bad = [p \in Publishers |-> {}]
    /\ loose = {}
    /\ orphan = {}
    /\ straggler = {}
    /\ passed = {}

----------------------------------------------------------------------------
(* The log, seen from its anchors. *)

\* An event that commits behind a window that has been listed, or behind an event
\* already visible, is a straggler.
CommitsLate(e) ==
    \/ \E r \in Anchors : at[e] <= to[r]
    \/ \E p \in Publishers : pc[p] = "insert" /\ at[e] <= span[p][2]
    \/ \E f \in log : at[e] < at[f]

\* A call that found nothing to cover lists from its own time on, whatever
\* commits before it does.
IsPassed(e) == \E p \in Calls : pc[p] = "list" /\ at[e] < span[p][1]

EmitCommits(e) ==
    /\ Commit(e)
    /\ straggler' = IF CommitsLate(e) THEN straggler \cup {e} ELSE straggler
    /\ passed' = IF IsPassed(e) THEN passed \cup {e} ELSE passed
    /\ UNCHANGED <<rowVars, chainVars, pubVars, loose, orphan>>

Emits(e, k) == Emit(e, k) /\ UNCHANGED anchorVars

EmitFails(e) == Rollback(e) /\ UNCHANGED anchorVars

TimePasses == Tick /\ UNCHANGED anchorVars

----------------------------------------------------------------------------
(* Cutting a window. *)

Goto(p, s) == pc' = [pc EXCEPT ![p] = s]

\* runAnchor and POST /audit/anchor/publish: the time is taken, and the scheduler
\* tries the rows still pending again before it anchors anything new.
Start(p) ==
    LET retried == IF p \in Cycles THEN Pending ELSE {}
    IN  /\ pc[p] = "idle"
        /\ now' = [now EXCEPT ![p] = clock]
        /\ work' = [work EXCEPT ![p] = retried]
        /\ retrying' = IF retried = {} THEN retrying \ {p} ELSE retrying \cup {p}
        /\ Goto(p, IF retried = {} THEN "cover" ELSE "check")
        /\ UNCHANGED <<logVars, rowVars, chainVars, span, good, bad, loose, orphan, history>>

SpanFrom(s, t) == <<s, IF t - s > MaxWindow THEN s + MaxWindow ELSE t>>

\* nextAnchorWindow: from the later of the oldest event and covered_to + 1 ms.
TakeWindow(p, oldest) ==
    LET starts == {oldest} \cup {to[r] + 1 : r \in Live}
    IN  \E s \in starts :
          /\ \A x \in starts : x <= s
          /\ span' = [span EXCEPT ![p] = SpanFrom(s, now[p])]
          /\ now' = [now EXCEPT ![p] = 0]
          /\ Goto(p, "list")
          /\ UNCHANGED <<logVars, rowVars, chainVars, retrying, work, good, bad, loose, orphan, history>>

\* The coverage query finds events after covered_to.
Cover(p) ==
    /\ pc[p] = "cover"
    /\ \E e \in Uncovered :
         /\ \A f \in Uncovered : at[e] <= at[f]
         /\ TakeWindow(p, at[e])

\* It finds none: the route goes on with the window of its own time ...
CoverNow(p) ==
    /\ pc[p] = "cover"
    /\ p \in Calls
    /\ Uncovered = {}
    /\ TakeWindow(p, now[p])

\* ... and the scheduler has nothing to do for the tenant.
NothingToCover(p) ==
    /\ pc[p] = "cover"
    /\ p \in Cycles
    /\ Uncovered = {}
    /\ now' = [now EXCEPT ![p] = 0]
    /\ Goto(p, "idle")
    /\ UNCHANGED <<logVars, rowVars, chainVars, retrying, span, work, good, bad, loose, orphan, history>>

\* p holds the root over these events.
ListRoot(p, r) ==
    /\ pc[p] = "list"
    /\ r # {}
    /\ work' = [work EXCEPT ![p] = {r}]
    /\ Goto(p, "insert")
    /\ UNCHANGED <<logVars, rowVars, chainVars, retrying, now, span, good, bad, loose, orphan, history>>

\* Mutant: the listing leaves the first millisecond of the window out.
ListEvents_SkipsOldest(p) == ListRoot(p, InWindow(span[p][1] + 1, span[p][2]))

\* Mutant: the listing leaves the last millisecond of the window out.
ListEvents_EndExclusive(p) == ListRoot(p, InWindow(span[p][1], span[p][2] - 1))

\* listEventsForAnchor: both ends of the window are inclusive.
ListEvents(p) == ListRoot(p, InWindow(span[p][1], span[p][2]))

\* A row in a terminal state is not broadcast.
Terminal(r) == txHash[r] \/ status[r] = "reverted"

Created(p, r) ==
    /\ pc[p] = "insert"
    /\ r \in work[p]
    /\ span' = [span EXCEPT ![p] = NoSpan]
    /\ work' = [work EXCEPT ![p] = IF Terminal(r) THEN {} ELSE {r}]
    /\ Goto(p, IF Terminal(r) THEN "idle" ELSE "check")
    /\ UNCHANGED <<logVars, chainVars, retrying, now, good, bad, loose, orphan, history>>

\* Mutant: the root is broadcast before its row is stored.
CreateAnchor_BroadcastFirst(p, r) ==
    /\ Created(p, r)
    /\ UNCHANGED rowVars

\* createPendingAnchor stores the row of the listed root, unless it has one.
CreateAnchor(p, r) ==
    /\ Created(p, r)
    /\ IF r \in Anchors
       THEN UNCHANGED rowVars
       ELSE /\ status' = [status EXCEPT ![r] = "pending"]
            /\ from' = [from EXCEPT ![r] = span[p][1]]
            /\ to' = [to EXCEPT ![r] = span[p][2]]
            /\ UNCHANGED txHash

\* The window is empty: the clock is behind its first event, or a call found
\* nothing to cover.
NothingListed(p) ==
    /\ pc[p] = "list"
    /\ InWindow(span[p][1], span[p][2]) = {}
    /\ span' = [span EXCEPT ![p] = NoSpan]
    /\ Goto(p, "idle")
    /\ UNCHANGED <<logVars, rowVars, chainVars, retrying, now, work, good, bad, loose, orphan, history>>

----------------------------------------------------------------------------
(* The contract. *)

\* The broadcaster sends periods in whole seconds.
Seconds(t) == t \div Second

LatestIs(r) == latest' = [root |-> r, end |-> Seconds(to[r])]

\* Of the roots not yet published, those whose period does not end before the
\* latest one's.
Newer(roots) == {r \in roots \ published : latest.end <= Seconds(to[r])}

\* Mutant: the latest pointer is overwritten whatever the root's period.
Record_LatestOverwritten(roots) ==
    /\ published' = published \cup roots
    /\ IF roots \subseteq published
       THEN UNCHANGED latest
       ELSE \E r \in roots \ published : LatestIs(r)

\* anchor and anchorBatch: roots not yet published are recorded, and the latest
\* pointer goes to the newest of them, of those that end in one second to the last
\* of the batch, which may be any.
Record(roots) ==
    /\ published' = published \cup roots
    /\ IF Newer(roots) = {}
       THEN UNCHANGED latest
       ELSE \E r \in Newer(roots) :
              /\ \A x \in Newer(roots) : Seconds(to[x]) <= Seconds(to[r])
              /\ LatestIs(r)

----------------------------------------------------------------------------
(* Broadcasting. *)

Single(p) == p \in Calls

\* What is published already counts as anchored, whether isPublished shows it or
\* a refusal makes the broadcaster look again, and so the check, the estimate and
\* the send are one step.
Known(p) == work[p] \cap published

\* The estimate and the send go through for the rest.
Send(p) ==
    /\ pc[p] = "check"
    /\ good' = [good EXCEPT ![p] = Known(p)]
    /\ work' = [work EXCEPT ![p] = @ \ published]
    /\ Goto(p, IF Known(p) = work[p] THEN "write" ELSE "wait")
    /\ UNCHANGED <<logVars, rowVars, chainVars, retrying, now, span, bad, loose, orphan, history>>

\* Either reverts (the contract has another publisher, or the call is
\* malformed): a single row is given up, those of a batch stay pending.
SendRefused(p) ==
    /\ pc[p] = "check"
    /\ good' = [good EXCEPT ![p] = Known(p)]
    /\ bad' = [bad EXCEPT ![p] = IF Single(p) THEN work[p] \ published ELSE {}]
    /\ work' = [work EXCEPT ![p] = {}]
    /\ Goto(p, "write")
    /\ UNCHANGED <<logVars, rowVars, chainVars, retrying, now, span, loose, orphan, history>>

\* The receipt of p's transaction arrives with these results.
Receipt(p, goods, bads) ==
    /\ pc[p] = "wait"
    /\ good' = [good EXCEPT ![p] = @ \cup goods]
    /\ bad' = [bad EXCEPT ![p] = bads]
    /\ work' = [work EXCEPT ![p] = {}]
    /\ Goto(p, "write")
    /\ UNCHANGED <<logVars, rowVars, retrying, now, span, loose, orphan, history>>

\* The transaction is mined with status 1; a batch skips the roots published
\* meanwhile.
Mined(p) ==
    /\ Single(p) => work[p] \cap published = {}
    /\ Record(work[p])
    /\ Receipt(p, work[p], {})

\* Mutant: receipt.status is not looked at, as it once was not.
MinedReverted_StatusIgnored(p) ==
    /\ Receipt(p, work[p], {})
    /\ UNCHANGED chainVars

\* Mutant: a refused batch reverts its rows, as it once did.
MinedReverted_BatchToo(p) ==
    /\ Receipt(p, {}, work[p])
    /\ UNCHANGED chainVars

\* Status 0: the contract refuses the transaction, a single one also because
\* its root was published meanwhile.  The single row is given up without another
\* look at the chain; a batch's rows stay pending.
MinedReverted(p) ==
    /\ Receipt(p, {}, IF Single(p) THEN work[p] ELSE {})
    /\ UNCHANGED chainVars

Confirm(r) ==
    /\ status' = [status EXCEPT ![r] = "confirmed"]
    /\ txHash' = [txHash EXCEPT ![r] = TRUE]
    /\ UNCHANGED <<from, to>>

Revert(r) ==
    /\ status' = [status EXCEPT ![r] = "reverted"]
    /\ UNCHANGED <<from, to, txHash>>

\* One result written back, whatever the row has become meanwhile.
WriteResult(p, r) ==
    /\ pc[p] = "write"
    /\ \/ /\ r \in good[p]
          /\ Confirm(r)
       \/ /\ r \in bad[p]
          /\ Revert(r)
    /\ good' = [good EXCEPT ![p] = @ \ {r}]
    /\ bad' = [bad EXCEPT ![p] = @ \ {r}]
    /\ UNCHANGED <<logVars, chainVars, pc, retrying, now, span, work, loose, orphan, history>>

\* After its retries a cycle anchors what is new.
Broadcast(p) ==
    /\ pc[p] = "write"
    /\ good[p] \cup bad[p] = {}
    /\ retrying' = retrying \ {p}
    /\ Goto(p, IF p \in retrying THEN "cover" ELSE "idle")
    /\ UNCHANGED <<logVars, rowVars, chainVars, now, span, work, good, bad, loose, orphan, history>>

\* Mutant: results outlive the broadcast they belong to.
Stop_KeepsResults(p) ==
    /\ pc[p] # "idle"
    /\ Goto(p, "idle")
    /\ retrying' = retrying \ {p}
    /\ UNCHANGED <<logVars, rowVars, chainVars, now, span, work, good, bad, loose, orphan, history>>

\* An RPC or database error, the receipt's timeout or the end of the process;
\* an error among the retries leaves the rest of the cycle to run.  A
\* transaction that was sent may stay in the mempool.
Stop(p) ==
    /\ pc[p] # "idle"
    /\ loose' = IF pc[p] = "wait" /\ Cardinality(loose) < MaxLoose
               THEN loose \cup {<<Single(p), work[p]>>} ELSE loose
    /\ \/ /\ Goto(p, "idle")
          /\ now' = [now EXCEPT ![p] = 0]
       \/ /\ p \in retrying
          /\ Goto(p, "cover")
          /\ UNCHANGED now
    /\ retrying' = retrying \ {p}
    /\ span' = [span EXCEPT ![p] = NoSpan]
    /\ work' = [work EXCEPT ![p] = {}]
    /\ good' = [good EXCEPT ![p] = {}]
    /\ bad' = [bad EXCEPT ![p] = {}]
    /\ UNCHANGED <<logVars, rowVars, chainVars, orphan, history>>

\* A transaction nobody waits for is mined.
MinedLate(tx) ==
    /\ tx[1] => tx[2] \cap published = {}
    /\ Record(tx[2])
    /\ loose' = loose \ {tx}
    /\ UNCHANGED <<logVars, rowVars, pubVars, orphan, history>>

----------------------------------------------------------------------------
(* The reconciler. *)

\* One row of its list at a time.
TakeOrphan(r) ==
    /\ orphan = {}
    /\ r \in Pending
    /\ orphan' = r
    /\ UNCHANGED <<logVars, rowVars, chainVars, pubVars, loose, history>>

\* A row found on chain is healed ...
HealOrphan ==
    /\ orphan \in published
    /\ Confirm(orphan)
    /\ orphan' = {}
    /\ UNCHANGED <<logVars, chainVars, pubVars, loose, history>>

\* ... another one is left, or reported under an idempotency key of its own.
PassOrphan ==
    /\ orphan # {}
    /\ orphan \notin published
    /\ orphan' = {}
    /\ UNCHANGED <<logVars, rowVars, chainVars, pubVars, loose, history>>

Next ==
    \/ \E e \in Events :
         \/ \E k \in Keys \cup {NoKey} : Emits(e, k)
         \/ EmitCommits(e) \/ EmitFails(e)
    \/ TimePasses
    \/ \E p \in Publishers :
         \/ Start(p) \/ Cover(p) \/ CoverNow(p) \/ NothingToCover(p)
         \/ ListEvents(p) \/ NothingListed(p)
         \/ \E r \in work[p] : CreateAnchor(p, r)
         \/ Send(p) \/ SendRefused(p) \/ Mined(p) \/ MinedReverted(p)
         \/ Broadcast(p) \/ Stop(p)
         \/ \E r \in good[p] \cup bad[p] : WriteResult(p, r)
    \/ \E tx \in loose : MinedLate(tx)
    \/ \E r \in Pending : TakeOrphan(r)
    \/ HealOrphan \/ PassOrphan

Spec == Init /\ [][Next]_vars

----------------------------------------------------------------------------
(* Properties. *)

\* Types of the log and of its anchoring, and that nothing of a broadcast
\* outlives it.
TypeOK ==
    /\ LogTypeOK
    /\ status \in [Roots -> {"none", "pending", "confirmed", "reverted"}]
    /\ from \in [Roots -> Int]
    /\ to \in [Roots -> Int]
    /\ txHash \in [Roots -> BOOLEAN]
    /\ published \in SUBSET Roots
    /\ latest \in [root : Roots, end : Int]
    /\ pc \in [Publishers -> {"idle", "cover", "list", "insert", "check", "wait", "write"}]
    /\ retrying \in SUBSET Cycles
    /\ now \in [Publishers -> Int]
    /\ span \in [Publishers -> Int \X Int]
    /\ work \in [Publishers -> SUBSET Roots]
    /\ good \in [Publishers -> SUBSET Roots]
    /\ bad \in [Publishers -> SUBSET Roots]
    /\ loose \in SUBSET (BOOLEAN \X (SUBSET Roots))
    /\ orphan \in Roots
    /\ straggler \in SUBSET log
    /\ passed \in SUBSET log
    /\ \A p \in Publishers :
         /\ work[p] # {} => pc[p] \in {"insert", "check", "wait"}
         /\ good[p] \cup bad[p] # {} => pc[p] = "write" \/ (pc[p] = "wait" /\ bad[p] = {})

\* What the database calls confirmed is on chain: a transaction hash is stored,
\* and a row confirmed, only for a root the contract has recorded, whatever
\* timed out, raced or was healed.
ConfirmedIsOnChain ==
    \A r \in Roots : txHash[r] \/ status[r] = "confirmed" => r \in published

\* The contract's latest pointer is stale by less than a second, although windows
\* are published out of order (_recordLatest): it names a published root, and no
\* published window ends in a later second than that root's.  A window that ends
\* earlier in the same second and is mined later does take the pointer over.
LatestIsNewest ==
    /\ published # {} => latest.root \in published
    /\ \A r \in published : Seconds(to[r]) <= Seconds(to[latest.root])

\* No event falls between two windows: once a window ends at or after an event's
\* stamp, the event is a leaf of some anchor.  The exceptions are the events that
\* committed behind a listed window or a later event, and those that committed
\* while a publish call that had found nothing to cover was about to list from a
\* later time on (nextAnchorWindow against concurrent publishers, reverted windows
\* and late commits).
NothingSkipped ==
    \A e \in log \ (straggler \cup passed) :
        (\E r \in Anchors : at[e] <= to[r]) => \E r \in Anchors : e \in r

\* The proof GET /audit/event/:id builds from the events now in an anchor's
\* window is one of the anchored root, unless a straggler fell into the window.
ProofsMatchAnchors ==
    \A r \in Anchors :
        /\ r \subseteq InWindow(from[r], to[r])
        /\ InWindow(from[r], to[r]) \ r \subseteq straggler

\* Only the single-row route gives a window up: a batch that fails as a whole
\* leaves every row of it pending (markBatchRevertOrRace).
SchedulerNeverReverts ==
    [][\A r \in Roots : status[r] # "reverted" /\ status'[r] = "reverted"
          => \E p \in Calls : r \in bad[p]]_status

evidence ==
    LET leaves == UNION Anchors
        onChain == UNION published
    IN  [e \in Events |->
            IF e \in onChain THEN "published"
            ELSE IF e \in leaves THEN "anchored"
            ELSE IF e \in log THEN "logged" ELSE "none"]

Evidence == INSTANCE AuditEvidence

\* The log and its publishers implement the abstract promise: an event is logged
\* before it is anchored and anchored before it is on chain, and nothing that
\* reverts, races or crashes takes evidence back.
ImplementsEvidence == Evidence!Spec

=============================================================================
