----------------------------- MODULE AuditLog -----------------------------
(***************************************************************************)
(* One tenant's append-only audit log, as PostgresAuditEmitter writes it.  *)
(*                                                                         *)
(* emit runs in a transaction of its own that holds the tenant's advisory  *)
(* lock from its first read to its commit.  Under the lock it looks the    *)
(* idempotency key up, reads the newest event (the order is created_at,    *)
(* then the random part of the id), stamps the new one with the process's  *)
(* clock and inserts it.  The stamp is taken before the event is visible,  *)
(* by a clock that need not agree with those of the other processes.       *)
(***************************************************************************)
EXTENDS Integers, FiniteSets

CONSTANTS
    Events,     \* the events that may ever be emitted
    Keys,       \* idempotency keys
    NoKey,
    NoEvent,
    MaxClock,   \* bound of the clock
    Offsets     \* how far an emitting process's clock is off that time

ASSUME LogAssumption ==
    /\ NoKey \notin Keys
    /\ NoEvent \notin Events
    /\ MaxClock \in Nat \ {0}
    /\ Offsets \subseteq {d \in Int : d >= -1}    \* no stamp is negative

VARIABLES
    clock,      \* the time
    log,        \* committed rows of audit_events
    open,       \* inserted, their transaction not yet committed
    at,         \* created_at
    prev,       \* the event of prev_event_hash
    keyOf       \* idempotency_key

logVars == <<clock, log, open, at, prev, keyOf>>

LogInit ==
    /\ clock = 1
    /\ log = {}
    /\ open = {}
    /\ at = [e \in Events |-> 0]
    /\ prev = [e \in Events |-> NoEvent]
    /\ keyOf = [e \in Events |-> NoKey]

Stamps == {clock + d : d \in Offsets}

\* Among events of one millisecond the ids are in no particular order.
Newest == {e \in log : \A f \in log : at[f] <= at[e]}

Insert(e, k) ==
    /\ e \notin log \cup open
    /\ open' = open \cup {e}
    /\ \E t \in Stamps : at' = [at EXCEPT ![e] = t]
    /\ \E p \in IF log = {} THEN {NoEvent} ELSE Newest : prev' = [prev EXCEPT ![e] = p]
    /\ keyOf' = [keyOf EXCEPT ![e] = k]
    /\ UNCHANGED <<clock, log>>

\* The delivery with this key is new.
Fresh(k) == k = NoKey \/ \A f \in log : keyOf[f] # k

\* Mutant: emits of one tenant are not serialised.
Emit_NoLock(e, k) ==
    /\ Fresh(k)
    /\ Insert(e, k)

\* Mutant: a redelivered event is written again.
Emit_NoDedupe(e, k) ==
    /\ open = {}
    /\ Insert(e, k)

\* emit, up to its commit.
Emit(e, k) ==
    /\ open = {}
    /\ Fresh(k)
    /\ Insert(e, k)

Commit(e) ==
    /\ e \in open
    /\ open' = open \ {e}
    /\ log' = log \cup {e}
    /\ UNCHANGED <<clock, at, prev, keyOf>>

\* The transaction fails or its process dies.
Rollback(e) ==
    /\ e \in open
    /\ open' = open \ {e}
    /\ at' = [at EXCEPT ![e] = 0]
    /\ prev' = [prev EXCEPT ![e] = NoEvent]
    /\ keyOf' = [keyOf EXCEPT ![e] = NoKey]
    /\ UNCHANGED <<clock, log>>

Tick ==
    /\ clock < MaxClock
    /\ clock' = clock + 1
    /\ UNCHANGED <<log, open, at, prev, keyOf>>

----------------------------------------------------------------------------
(* Properties. *)

LogTypeOK ==
    /\ clock \in 1 .. MaxClock
    /\ log \in SUBSET Events
    /\ open \in SUBSET Events
    /\ open \cap log = {}
    /\ at \in [Events -> Nat]
    /\ prev \in [Events -> Events \cup {NoEvent}]
    /\ keyOf \in [Events -> Keys \cup {NoKey}]

\* An at-least-once sender writes its event once: no two rows carry the same
\* idempotency key, whatever was redelivered, rolled back or concurrent.
KeyedOnce ==
    \A e, f \in log : keyOf[e] = keyOf[f] /\ keyOf[e] # NoKey => e = f

\* The hash chain forks only where clocks disagree or tie: two events have the
\* same predecessor only if one of them is not stamped later than it is, and
\* the chain has one beginning.
ForksOnlyWhenClocksTie ==
    \A e, f \in log :
        e # f /\ prev[e] = prev[f] =>
            /\ prev[e] # NoEvent
            /\ at[e] <= at[prev[e]] \/ at[f] <= at[prev[e]]

=============================================================================
