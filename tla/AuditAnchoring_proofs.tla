----------------------- MODULE AuditAnchoring_proofs -----------------------
(***************************************************************************)
(* Proofs about AuditAnchoring: its types, what the emitter's lock         *)
(* guarantees of the log, what the rows and the chain say of each other,   *)
(* and that no event is skipped, for any number of events, publishers and  *)
(* clock readings.                                                         *)
(***************************************************************************)
EXTENDS AuditAnchoring, TLAPS

----------------------------------------------------------------------------
(* Types. *)

\* The initial state is well typed.
LEMMA TypeInit == Init => TypeOK
  BY LogAssumption, AnchoringAssumption
     DEF Init, LogInit, TypeOK, LogTypeOK, Roots, Publishers, NoSpan

\* The emitter's steps and the clock keep the types.
LEMMA TypeLog ==
    ASSUME TypeOK,
           \/ \E e \in Events, k \in Keys \cup {NoKey} : Emits(e, k)
           \/ \E e \in Events : EmitCommits(e) \/ EmitFails(e)
           \/ TimePasses
    PROVE  TypeOK'
<1> USE LogAssumption DEF TypeOK, LogTypeOK, anchorVars, rowVars, chainVars, pubVars, history
<1>1. CASE \E e \in Events, k \in Keys \cup {NoKey} : Emits(e, k)
  <2>1. PICK e \in Events, k \in Keys \cup {NoKey} : Emits(e, k)  BY <1>1
  <2>2. PICK t \in Stamps : at' = [at EXCEPT ![e] = t]  BY <2>1 DEF Emits, Emit, Insert
  <2>3. t \in Nat  BY <2>2 DEF Stamps
  <2>4. PICK p \in IF log = {} THEN {NoEvent} ELSE Newest : prev' = [prev EXCEPT ![e] = p]
    BY <2>1 DEF Emits, Emit, Insert
  <2>5. p \in Events \cup {NoEvent}  BY <2>4 DEF Newest
  <2>6. LogTypeOK'  BY <2>1, <2>2, <2>3, <2>4, <2>5 DEF Emits, Emit, Insert
  <2> QED  BY <2>1, <2>6 DEF Emits, Emit, Insert
<1>2. CASE \E e \in Events : EmitCommits(e)
  BY <1>2 DEF EmitCommits, Commit
<1>3. CASE \E e \in Events : EmitFails(e)
  BY <1>3 DEF EmitFails, Rollback
<1>4. CASE TimePasses
  BY <1>4 DEF TimePasses, Tick
<1> QED  BY <1>1, <1>2, <1>3, <1>4

\* Deriving a window keeps the types.
LEMMA TypeTakeWindow ==
    ASSUME TypeOK, NEW p \in Publishers, NEW oldest \in Int, pc[p] = "cover", TakeWindow(p, oldest)
    PROVE  TypeOK'
<1> USE DEF TypeOK, rowVars, chainVars, history, Goto
<1>1. UNCHANGED logVars  BY DEF TakeWindow
<1>2. LogTypeOK'  BY <1>1 DEF LogTypeOK, logVars
<1>3. straggler' \in SUBSET log' /\ passed' \in SUBSET log'  BY <1>1 DEF TakeWindow, logVars
<1>4. PICK s \in {oldest} \cup {to[r] + 1 : r \in Live} :
           span' = [span EXCEPT ![p] = SpanFrom(s, now[p])]
  BY DEF TakeWindow
<1>5. s \in Int  BY <1>4 DEF Live
<1>6. SpanFrom(s, now[p]) \in Int \X Int  BY <1>5, AnchoringAssumption DEF SpanFrom
<1>7. span' \in [Publishers -> Int \X Int]  BY <1>4, <1>6
<1>8. /\ now' = [now EXCEPT ![p] = 0] /\ pc' = [pc EXCEPT ![p] = "list"]
      /\ UNCHANGED <<rowVars, chainVars, retrying, work, good, bad, loose, orphan>>
  BY DEF TakeWindow
<1> QED  BY <1>2, <1>3, <1>7, <1>8

\* Cutting a window keeps the types.
LEMMA TypeWindow ==
    ASSUME TypeOK, NEW p \in Publishers,
           \/ Start(p) \/ Cover(p) \/ CoverNow(p) \/ NothingToCover(p)
           \/ ListEvents(p) \/ NothingListed(p)
           \/ \E r \in work[p] : CreateAnchor(p, r)
    PROVE  TypeOK'
<1> USE DEF TypeOK, rowVars, chainVars, history, Goto
<1>1. CASE Cover(p)
  BY <1>1, TypeTakeWindow DEF Cover, Uncovered, LogTypeOK
<1>2. CASE CoverNow(p)
  BY <1>2, TypeTakeWindow DEF CoverNow
<1> USE DEF Start, NothingToCover, ListEvents, ListRoot, NothingListed, CreateAnchor, Created
<1>3. CASE \/ Start(p) \/ NothingToCover(p) \/ ListEvents(p) \/ NothingListed(p)
           \/ \E r \in work[p] : CreateAnchor(p, r)
  <2>1. UNCHANGED logVars /\ UNCHANGED history  BY <1>3
  <2>2. LogTypeOK'  BY <2>1 DEF LogTypeOK, logVars
  <2>3. straggler' \in SUBSET log' /\ passed' \in SUBSET log'  BY <2>1 DEF logVars
  <2>4. CASE Start(p)
    BY <2>2, <2>3, <2>4 DEF Pending, LogTypeOK
  <2>5. CASE NothingToCover(p)
    BY <2>2, <2>3, <2>5
  <2>6. CASE ListEvents(p)
    <3>1. InWindow(span[p][1], span[p][2]) \in Roots  BY DEF InWindow, Roots, LogTypeOK
    <3> QED  BY <2>2, <2>3, <2>6, <3>1
  <2>7. CASE NothingListed(p)
    <3>1. NoSpan \in Int \X Int  BY DEF NoSpan
    <3>2. span' \in [Publishers -> Int \X Int]  BY <2>7, <3>1
    <3> QED  BY <2>2, <2>3, <2>7, <3>2
  <2>8. CASE \E r \in work[p] : CreateAnchor(p, r)
    <3>1. PICK r \in Roots : CreateAnchor(p, r)  BY <2>8
    <3>2. /\ status' \in [Roots -> {"none", "pending", "confirmed", "reverted"}]
          /\ from' \in [Roots -> Int]
          /\ to' \in [Roots -> Int]
          /\ txHash' \in [Roots -> BOOLEAN]
      BY <3>1
    <3> QED  BY <2>2, <2>3, <3>1, <3>2 DEF NoSpan
  <2> QED  BY <1>3, <2>4, <2>5, <2>6, <2>7, <2>8
<1> QED  BY <1>1, <1>2, <1>3

\* A period's end is a whole number of seconds.
LEMMA SecondsTypes ==
    /\ \A t \in Int : Seconds(t) \in Int
    /\ \A t \in Nat : Seconds(t) \in Nat
  BY AnchoringAssumption DEF Seconds

\* Recording roots keeps the types of the contract's state.
LEMMA TypeRecord ==
    ASSUME TypeOK, NEW roots \in SUBSET Roots, Record(roots)
    PROVE  published' \in SUBSET Roots /\ latest' \in [root : Roots, end : Int]
  BY SecondsTypes DEF TypeOK, Record, Newer, LatestIs

\* Broadcasting keeps the types.
LEMMA TypeBroadcast ==
    ASSUME TypeOK, NEW p \in Publishers,
           \/ Send(p) \/ SendRefused(p) \/ Mined(p) \/ MinedReverted(p)
           \/ Broadcast(p) \/ Stop(p)
           \/ \E r \in good[p] \cup bad[p] : WriteResult(p, r)
    PROVE  TypeOK'
<1> USE DEF TypeOK, history, rowVars, chainVars, Goto
<1>a. UNCHANGED logVars
  BY DEF Send, SendRefused, Mined, MinedReverted, Receipt, Broadcast, Stop, WriteResult
<1>b. LogTypeOK'  BY <1>a DEF LogTypeOK, logVars
<1>c. straggler' \in SUBSET log' /\ passed' \in SUBSET log'
  BY <1>a DEF logVars, Send, SendRefused, Mined, MinedReverted, Receipt, Broadcast, Stop, WriteResult
<1>1. CASE Send(p)
  BY <1>1, <1>b, <1>c DEF Send, Known
<1>2. CASE SendRefused(p)
  BY <1>2, <1>b, <1>c DEF SendRefused, Known
<1>3. CASE Mined(p)
  BY <1>3, <1>b, <1>c, TypeRecord DEF Mined, Receipt
<1>4. CASE MinedReverted(p)
  BY <1>4, <1>b, <1>c DEF MinedReverted, Receipt
<1>5. CASE Broadcast(p)
  BY <1>5, <1>b, <1>c DEF Broadcast
<1>6. CASE Stop(p)
  <2>1. Single(p) \in BOOLEAN /\ work[p] \in SUBSET Roots  BY DEF Single
  <2>2. loose' \in SUBSET (BOOLEAN \X (SUBSET Roots))  BY <1>6, <2>1 DEF Stop
  <2>3. NoSpan \in Int \X Int  BY DEF NoSpan
  <2>4. /\ span' \in [Publishers -> Int \X Int]
        /\ work' \in [Publishers -> SUBSET Roots]
        /\ good' \in [Publishers -> SUBSET Roots]
        /\ bad' \in [Publishers -> SUBSET Roots]
        /\ retrying' \in SUBSET Cycles
    BY <1>6, <2>3 DEF Stop
  <2>5. /\ now' \in [Publishers -> Int]
        /\ pc' \in [Publishers -> {"idle", "cover", "list", "insert", "check", "wait", "write"}]
    <3>1. \/ Goto(p, "idle") /\ now' = [now EXCEPT ![p] = 0]
          \/ Goto(p, "cover") /\ now' = now
      BY <1>6 DEF Stop
    <3>2. now' \in [Publishers -> Int]
      BY <3>1
    <3> QED  BY <3>1, <3>2
  <2>6. \A q \in Publishers :
          /\ work'[q] # {} => pc'[q] \in {"insert", "check", "wait"}
          /\ good'[q] \cup bad'[q] # {} => pc'[q] = "write" \/ (pc'[q] = "wait" /\ bad'[q] = {})
    BY <1>6 DEF Stop
  <2> QED  BY <1>6, <1>b, <1>c, <2>2, <2>4, <2>5, <2>6 DEF Stop
<1>7. CASE \E r \in good[p] \cup bad[p] : WriteResult(p, r)
  <2>1. PICK r \in Roots : WriteResult(p, r)  BY <1>7
  <2>2. /\ status' \in [Roots -> {"none", "pending", "confirmed", "reverted"}]
        /\ txHash' \in [Roots -> BOOLEAN]
    BY <2>1 DEF WriteResult, Confirm, Revert
  <2>3. /\ good' \in [Publishers -> SUBSET Roots]
        /\ bad' \in [Publishers -> SUBSET Roots]
        /\ UNCHANGED <<from, to>>
    BY <2>1 DEF WriteResult, Confirm, Revert
  <2>4. \A q \in Publishers :
          good'[q] \cup bad'[q] # {} => pc'[q] = "write" \/ (pc'[q] = "wait" /\ bad'[q] = {})
    BY <2>1 DEF WriteResult
  <2> QED  BY <2>1, <1>b, <1>c, <2>2, <2>3, <2>4 DEF WriteResult
<1> QED  BY <1>1, <1>2, <1>3, <1>4, <1>5, <1>6, <1>7

\* So do transactions mined late and the reconciler.
LEMMA TypeRepair ==
    ASSUME TypeOK,
           \/ \E tx \in loose : MinedLate(tx)
           \/ \E r \in Pending : TakeOrphan(r)
           \/ HealOrphan \/ PassOrphan
    PROVE  TypeOK'
<1> USE DEF TypeOK, history, rowVars, chainVars, pubVars
<1>a. UNCHANGED logVars /\ UNCHANGED pubVars
  BY DEF MinedLate, TakeOrphan, HealOrphan, PassOrphan
<1>b. LogTypeOK'  BY <1>a DEF LogTypeOK, logVars
<1>c. straggler' \in SUBSET log' /\ passed' \in SUBSET log'
  BY <1>a DEF logVars, MinedLate, TakeOrphan, HealOrphan, PassOrphan
<1>1. CASE \E tx \in loose : MinedLate(tx)
  BY <1>1, <1>a, <1>b, <1>c, TypeRecord DEF MinedLate
<1>2. CASE \E r \in Pending : TakeOrphan(r)
  BY <1>2, <1>a, <1>b, <1>c DEF TakeOrphan, Pending
<1>3. CASE HealOrphan
  BY <1>3, <1>a, <1>b, <1>c DEF HealOrphan, Confirm, Roots
<1>4. CASE PassOrphan
  BY <1>4, <1>a, <1>b, <1>c DEF PassOrphan, Roots
<1> QED  BY <1>1, <1>2, <1>3, <1>4

\* Every step keeps the types.
LEMMA TypeStep == TypeOK /\ [Next]_vars => TypeOK'
<1> SUFFICES ASSUME TypeOK, [Next]_vars PROVE TypeOK'  OBVIOUS
<1>1. CASE UNCHANGED vars
  BY <1>1 DEF TypeOK, LogTypeOK, vars, logVars, anchorVars, rowVars, chainVars, pubVars, history
<1>2. CASE Next
  BY <1>2, TypeLog, TypeWindow, TypeBroadcast, TypeRepair DEF Next
<1> QED  BY <1>1, <1>2

\* Every variable keeps its type, and nothing of a broadcast outlives it.
THEOREM AnchoringTypesCorrect == Spec => []TypeOK
  BY TypeInit, TypeStep, PTL DEF Spec

----------------------------------------------------------------------------
(* The log: one writer at a time. *)

Stored == log \cup open

\* What the tenant's lock makes of the log.
LogInv ==
    /\ \A e, f \in open : e = f
    /\ \A e, f \in Stored : keyOf[e] = keyOf[f] /\ keyOf[e] # NoKey => e = f
    /\ \A e \in Stored : prev[e] \in log \cup {NoEvent}
    /\ \A e, f \in Stored :
         e # f /\ prev[e] = prev[f] =>
            /\ prev[e] # NoEvent
            /\ at[e] <= at[prev[e]] \/ at[f] <= at[prev[e]]

\* An empty log satisfies it.
LEMMA LogInvInit == Init => LogInv
  BY DEF Init, LogInit, LogInv, Stored

\* An emit appends to the newest event it sees, which is every event.
LEMMA LogInvEmit ==
    ASSUME TypeOK, LogInv, NEW e \in Events, NEW k \in Keys \cup {NoKey}, Emits(e, k)
    PROVE  LogInv'
<1> USE LogAssumption DEF TypeOK, LogTypeOK
<1>1. open = {} /\ Fresh(k) /\ e \notin log /\ open' = {e} /\ UNCHANGED log
  BY DEF Emits, Emit, Insert
<1>2. PICK t \in Stamps : at' = [at EXCEPT ![e] = t]  BY DEF Emits, Emit, Insert
<1>3. PICK p \in IF log = {} THEN {NoEvent} ELSE Newest : prev' = [prev EXCEPT ![e] = p]
  BY DEF Emits, Emit, Insert
<1>4. keyOf' = [keyOf EXCEPT ![e] = k]  BY DEF Emits, Emit, Insert
<1>5. /\ \A f \in log : at'[f] = at[f] /\ prev'[f] = prev[f] /\ keyOf'[f] = keyOf[f] /\ f # e
      /\ prev'[e] = p /\ keyOf'[e] = k
  BY <1>1, <1>2, <1>3, <1>4
<1>6. IF log = {} THEN p = NoEvent ELSE p \in log /\ \A f \in log : at[f] <= at[p]
  BY DEF Newest
<1>7. Stored' = log \cup {e} /\ Stored = log  BY <1>1 DEF Stored
<1>8. (\A f, g \in open : f = g)'  BY <1>1
<1>9. (\A f, g \in Stored : keyOf[f] = keyOf[g] /\ keyOf[f] # NoKey => f = g)'
  BY <1>1, <1>5, <1>7 DEF LogInv, Fresh
<1>10. (\A f \in Stored : prev[f] \in log \cup {NoEvent})'
  BY <1>1, <1>5, <1>6, <1>7 DEF LogInv
<1>11. (\A f, g \in Stored :
          f # g /\ prev[f] = prev[g] =>
             /\ prev[f] # NoEvent
             /\ at[f] <= at[prev[f]] \/ at[g] <= at[prev[f]])'
  <2> SUFFICES ASSUME NEW f \in Stored', NEW g \in Stored', f # g, prev'[f] = prev'[g]
               PROVE  /\ prev'[f] # NoEvent
                      /\ at'[f] <= at'[prev'[f]] \/ at'[g] <= at'[prev'[f]]
    OBVIOUS
  <2>1. CASE f \in log /\ g \in log
    BY <2>1, <1>5, <1>7 DEF LogInv
  <2>2. CASE f = e \/ g = e
    BY <2>2, <1>5, <1>6, <1>7
  <2> QED  BY <2>1, <2>2, <1>7
<1> QED  BY <1>8, <1>9, <1>10, <1>11 DEF LogInv

\* Committing, failing and everything that is not an emit keep it.
LEMMA LogInvStep == TypeOK /\ LogInv /\ [Next]_vars => LogInv'
<1> SUFFICES ASSUME TypeOK, LogInv, [Next]_vars PROVE LogInv'  OBVIOUS
<1>1. CASE \E e \in Events, k \in Keys \cup {NoKey} : Emits(e, k)
  BY <1>1, LogInvEmit
<1>2. CASE \E e \in Events : EmitCommits(e)
  BY <1>2 DEF EmitCommits, Commit, LogInv, Stored, TypeOK, LogTypeOK
<1>3. CASE \E e \in Events : EmitFails(e)
  <2>1. PICK e \in Events : EmitFails(e)  BY <1>3
  <2>2. /\ Stored' \subseteq Stored /\ e \notin Stored' /\ e \notin log /\ UNCHANGED log
        /\ open' \subseteq open
        /\ \A f \in Stored' : at'[f] = at[f] /\ prev'[f] = prev[f] /\ keyOf'[f] = keyOf[f]
        /\ \A f \in log : at'[f] = at[f]
    BY <2>1 DEF EmitFails, Rollback, TypeOK, LogTypeOK, Stored
  <2> QED  BY <2>2 DEF LogInv
<1>4. CASE UNCHANGED <<log, open, at, prev, keyOf>>
  BY <1>4 DEF LogInv, Stored
<1>5. CASE TimePasses
  BY <1>5, <1>4 DEF TimePasses, Tick
<1>6. CASE UNCHANGED vars
  BY <1>6, <1>4 DEF vars, logVars
<1>7. ASSUME NEW p \in Publishers,
             \/ Start(p) \/ Cover(p) \/ CoverNow(p) \/ NothingToCover(p)
             \/ ListEvents(p) \/ NothingListed(p)
             \/ \E r \in work[p] : CreateAnchor(p, r)
             \/ Send(p) \/ SendRefused(p) \/ Mined(p) \/ MinedReverted(p)
             \/ Broadcast(p) \/ Stop(p)
             \/ \E r \in good[p] \cup bad[p] : WriteResult(p, r)
      PROVE  LogInv'
  BY <1>7, <1>4 DEF Start, Cover, CoverNow, TakeWindow, NothingToCover, ListEvents, ListRoot,
     NothingListed, CreateAnchor, Created, Send, SendRefused, Mined, MinedReverted, Receipt, Broadcast, Stop, WriteResult, logVars
<1>8. CASE (\E tx \in loose : MinedLate(tx)) \/ (\E r \in Pending : TakeOrphan(r)) \/ HealOrphan \/ PassOrphan
  BY <1>8, <1>4 DEF MinedLate, TakeOrphan, HealOrphan, PassOrphan, logVars
<1> QED  BY <1>1, <1>2, <1>3, <1>5, <1>6, <1>7, <1>8 DEF Next

\* No two rows of the log carry the same idempotency key.
THEOREM KeysAreUnique == Spec => []KeyedOnce
<1>1. LogInv => KeyedOnce  BY DEF LogInv, KeyedOnce, Stored
<1> QED  BY <1>1, TypeInit, TypeStep, LogInvInit, LogInvStep, PTL DEF Spec

\* The hash chain has one beginning and forks only at a tie of clocks.
THEOREM ChainForksOnlyAtTies == Spec => []ForksOnlyWhenClocksTie
<1>1. LogInv => ForksOnlyWhenClocksTie  BY DEF LogInv, ForksOnlyWhenClocksTie, Stored
<1> QED  BY <1>1, TypeInit, TypeStep, LogInvInit, LogInvStep, PTL DEF Spec

----------------------------------------------------------------------------
(* Rows and the chain. *)

\* What publishers hold in hand is known to the database, and what the database
\* claims is known to the chain.
RowInv ==
    /\ published \subseteq Anchors
    /\ \A p \in Publishers :
         /\ pc[p] # "insert" => work[p] \subseteq Anchors
         /\ pc[p] = "insert" => span[p][2] \in Nat
         /\ good[p] \subseteq published
         /\ bad[p] \subseteq Anchors
         /\ bad[p] # {} => p \in Calls
    /\ \A tx \in loose : tx[2] \subseteq Anchors
    /\ \A r \in Anchors : to[r] \in Nat
    /\ ConfirmedIsOnChain

\* The pointer names a newest root and holds the second its period ends in.
LatestInv ==
    /\ LatestIsNewest
    /\ IF published = {} THEN latest.end = 0 ELSE latest.end = Seconds(to[latest.root])

\* Initially there are no rows.
LEMMA RowInvInit == Init => RowInv /\ LatestInv
  BY DEF Init, RowInv, LatestInv, Anchors, ConfirmedIsOnChain, LatestIsNewest

\* q goes on with the window it has, and with the root it listed there, or has none.
Keeps(q) ==
    /\ pc'[q] = "list" => pc[q] = "list" /\ span'[q] = span[q]
    /\ pc'[q] = "insert" => pc[q] = "insert" /\ span'[q] = span[q] /\ work'[q] = work[q]

\* p creates at most the row of the root r it listed.
AddsRow(p, r) ==
    /\ pc[p] = "insert" /\ r \in work[p]
    /\ Anchors' = Anchors \cup {r}
    /\ r \notin Anchors => from'[r] = span[p][1] /\ to'[r] = span[p][2]
    /\ \A x \in Anchors : from'[x] = from[x] /\ to'[x] = to[x]
    /\ txHash' = txHash
    /\ \A x \in Roots : status'[x] \in {"confirmed", "reverted"} => status'[x] = status[x]
    /\ \A q \in Publishers : work'[q] \subseteq IF q = p THEN {r} ELSE work[q]
    /\ \A q \in Publishers : Keeps(q) /\ (q # p => pc'[q] = pc[q] /\ work'[q] = work[q])

\* Creating an anchor adds at most the row of the listed root and changes none.
LEMMA CreateAddsRow ==
    ASSUME TypeOK, NEW p \in Publishers, NEW r \in work[p], CreateAnchor(p, r)
    PROVE  r \in Roots /\ AddsRow(p, r)
<1>1. r \in Roots  BY DEF TypeOK
<1>2. /\ Anchors' = Anchors \cup {r}
      /\ r \notin Anchors => from'[r] = span[p][1] /\ to'[r] = span[p][2]
      /\ \A x \in Anchors : from'[x] = from[x] /\ to'[x] = to[x]
      /\ txHash' = txHash
      /\ \A x \in Roots : status'[x] \in {"confirmed", "reverted"} => status'[x] = status[x]
  BY <1>1 DEF CreateAnchor, rowVars, Anchors, TypeOK
<1>3. \A q \in Publishers : work'[q] \subseteq IF q = p THEN {r} ELSE work[q]
  BY DEF CreateAnchor, Created, TypeOK
<1>4. \A q \in Publishers : Keeps(q) /\ (q # p => pc'[q] = pc[q] /\ work'[q] = work[q])
  BY DEF CreateAnchor, Created, Keeps, Goto, TypeOK
<1>5. pc[p] = "insert"  BY DEF CreateAnchor, Created
<1> QED  BY <1>1, <1>2, <1>3, <1>4, <1>5 DEF AddsRow

\* Recording known roots keeps the latest pointer on the newest of them.
LEMMA RecordKeepsLatest ==
    ASSUME TypeOK, RowInv, LatestInv, NEW roots \in SUBSET Anchors, Record(roots),
           UNCHANGED rowVars
    PROVE  LatestInv' /\ published' = published \cup roots
<1> USE DEF TypeOK, rowVars
<1>1. published' = published \cup roots /\ to' = to  BY DEF Record
<1>2. published \subseteq Anchors  BY DEF RowInv
<1>3. \A r \in Anchors : Seconds(to[r]) \in Nat  BY SecondsTypes DEF RowInv
<1>4. latest.end \in Int  OBVIOUS
<1>5. CASE Newer(roots) = {}
  <2>1. latest' = latest  BY <1>5 DEF Record
  <2>2. \A r \in roots \ published : Seconds(to[r]) < latest.end
    BY <1>3, <1>4, <1>5 DEF Newer
  <2>3. CASE published = {}
    <3>1. latest.end = 0  BY <2>3 DEF LatestInv
    <3>2. roots = {}  BY <1>3, <2>2, <2>3, <3>1
    <3> QED  BY <1>1, <2>1, <2>3, <3>1, <3>2 DEF LatestInv, LatestIsNewest
  <2>4. CASE published # {}
    <3>1. latest.root \in published /\ latest.end = Seconds(to[latest.root])
      BY <2>4 DEF LatestInv, LatestIsNewest
    <3>2. \A r \in published : Seconds(to[r]) <= Seconds(to[latest.root])
      BY DEF LatestInv, LatestIsNewest
    <3>3. \A r \in published' : Seconds(to[r]) <= Seconds(to[latest.root])
      BY <1>1, <1>2, <1>3, <2>2, <3>1, <3>2
    <3> QED  BY <1>1, <2>1, <3>1, <3>3 DEF LatestInv, LatestIsNewest
  <2> QED  BY <2>3, <2>4, <1>1
<1>6. CASE Newer(roots) # {}
  <2>1. PICK r \in Newer(roots) :
             (\A x \in Newer(roots) : Seconds(to[x]) <= Seconds(to[r])) /\ LatestIs(r)
    BY <1>6 DEF Record
  <2>2. r \in roots /\ latest.end <= Seconds(to[r]) /\ Seconds(to[r]) \in Nat
    BY <1>3, <2>1 DEF Newer
  <2>3. \A x \in roots \ published : Seconds(to[x]) <= Seconds(to[r])
    BY <1>3, <1>4, <2>1, <2>2 DEF Newer
  <2>4. \A x \in published : Seconds(to[x]) <= latest.end
    BY DEF LatestInv, LatestIsNewest
  <2>5. \A x \in published : Seconds(to[x]) <= Seconds(to[r])
    BY <1>2, <1>3, <1>4, <2>2, <2>4
  <2>6. latest'.root = r /\ latest'.end = Seconds(to[r])  BY <2>1 DEF LatestIs
  <2> QED  BY <1>1, <2>2, <2>3, <2>5, <2>6 DEF LatestInv, LatestIsNewest
<1> QED  BY <1>5, <1>6

\* Rows may be added, but what is published keeps its period.
LEMMA LatestKept ==
    ASSUME LatestInv, UNCHANGED chainVars, \A r \in published : to'[r] = to[r]
    PROVE  LatestInv'
<1>1. published' = published /\ latest' = latest  BY DEF chainVars
<1>2. published # {} => to'[latest.root] = to[latest.root]  BY DEF LatestInv, LatestIsNewest
<1>3. LatestIsNewest'  BY <1>1, <1>2 DEF LatestInv, LatestIsNewest
<1> QED  BY <1>1, <1>2, <1>3 DEF LatestInv

\* Cutting a window keeps what rows and chain say of each other.
LEMMA RowInvWindow ==
    ASSUME TypeOK, RowInv, LatestInv, NEW p \in Publishers,
           \/ Start(p) \/ Cover(p) \/ CoverNow(p) \/ NothingToCover(p)
           \/ ListEvents(p) \/ NothingListed(p)
           \/ \E r \in work[p] : CreateAnchor(p, r)
    PROVE  RowInv' /\ LatestInv'
<1> USE DEF TypeOK, Goto
<1>1. CASE Start(p)
  <2>1. Pending \subseteq Anchors  BY DEF Pending, Anchors
  <2>2. UNCHANGED <<rowVars, chainVars, span, good, bad, loose>>  BY <1>1 DEF Start
  <2>3. \A q \in Publishers : /\ pc'[q] # "insert" => work'[q] \subseteq Anchors
                              /\ pc'[q] = "insert" => pc[q] = "insert"
    BY <1>1, <2>1 DEF Start, RowInv
  <2>4. LatestInv'  BY <2>2, LatestKept DEF rowVars
  <2> QED  BY <2>2, <2>3, <2>4 DEF RowInv, ConfirmedIsOnChain, Anchors, rowVars, chainVars
<1>2. CASE Cover(p) \/ CoverNow(p) \/ NothingToCover(p) \/ NothingListed(p)
  <2>1. UNCHANGED <<rowVars, chainVars, work, good, bad, loose>>
    BY <1>2 DEF Cover, CoverNow, TakeWindow, NothingToCover, NothingListed
  <2>2. pc[p] # "insert" /\ pc'[p] # "insert"
    BY <1>2 DEF Cover, CoverNow, TakeWindow, NothingToCover, NothingListed
  <2>3. \A q \in Publishers : q # p => pc'[q] = pc[q] /\ span'[q] = span[q]
    BY <1>2 DEF Cover, CoverNow, TakeWindow, NothingToCover, NothingListed
  <2>4. LatestInv'  BY <2>1, LatestKept DEF rowVars
  <2> QED
    BY <2>1, <2>2, <2>3, <2>4 DEF RowInv, ConfirmedIsOnChain, Anchors, rowVars, chainVars
<1>3. CASE ListEvents(p)
  <2>1. UNCHANGED <<rowVars, chainVars, span, good, bad, loose>>
    BY <1>3 DEF ListEvents, ListRoot
  <2>2. span[p][2] \in Nat
    <3>1. PICK e \in log : at[e] <= span[p][2]
      BY <1>3 DEF ListEvents, ListRoot, InWindow
    <3> QED  BY <3>1 DEF LogTypeOK
  <2>3. /\ pc'[p] = "insert"
        /\ \A q \in Publishers : q # p => pc'[q] = pc[q] /\ work'[q] = work[q]
    BY <1>3 DEF ListEvents, ListRoot
  <2>4. LatestInv'  BY <2>1, LatestKept DEF rowVars
  <2> QED
    BY <2>1, <2>2, <2>3, <2>4 DEF RowInv, ConfirmedIsOnChain, Anchors, rowVars, chainVars
<1>4. ASSUME NEW r \in work[p], CreateAnchor(p, r) PROVE RowInv' /\ LatestInv'
  <2>1. r \in Roots /\ AddsRow(p, r)  BY <1>4, CreateAddsRow
  <2>2. UNCHANGED <<chainVars, good, bad, loose>>  BY <1>4 DEF CreateAnchor, Created
  <2>3. \A x \in Anchors' : to'[x] \in Nat  BY <2>1 DEF AddsRow, RowInv
  <2>4. ConfirmedIsOnChain'  BY <2>1, <2>2 DEF AddsRow, RowInv, ConfirmedIsOnChain, chainVars
  <2>5. \A q \in Publishers : /\ pc'[q] # "insert" => work'[q] \subseteq Anchors'
                              /\ pc'[q] = "insert" => span'[q][2] \in Nat
    BY <2>1 DEF AddsRow, Keeps, RowInv
  <2>6. RowInv'  BY <2>1, <2>2, <2>3, <2>4, <2>5 DEF AddsRow, RowInv, chainVars
  <2>7. LatestInv'  BY <2>1, <2>2, LatestKept DEF AddsRow, RowInv
  <2> QED  BY <2>6, <2>7
<1> QED  BY <1>1, <1>2, <1>3, <1>4

\* Confirming a published row, or giving a known one up, keeps it too.
LEMMA RowInvMark ==
    ASSUME TypeOK, RowInv, LatestInv, NEW r \in Anchors,
           (r \in published /\ Confirm(r)) \/ Revert(r),
           UNCHANGED chainVars
    PROVE  /\ Anchors' = Anchors
           /\ UNCHANGED <<from, to>>
           /\ ConfirmedIsOnChain'
           /\ LatestInv'
<1> USE DEF TypeOK
<1>1. UNCHANGED <<from, to, published, latest>>  BY DEF Confirm, Revert, chainVars
<1>2. Anchors' = Anchors  BY DEF Confirm, Revert, Anchors
<1>3. ConfirmedIsOnChain'  BY <1>1 DEF Confirm, Revert, RowInv, ConfirmedIsOnChain
<1>4. LatestInv'  BY <1>1, LatestKept
<1> QED  BY <1>1, <1>2, <1>3, <1>4

\* Broadcasting keeps it.
LEMMA RowInvBroadcast ==
    ASSUME TypeOK, RowInv, LatestInv, NEW p \in Publishers,
           \/ Send(p) \/ SendRefused(p) \/ Mined(p) \/ MinedReverted(p)
           \/ Broadcast(p) \/ Stop(p)
           \/ \E r \in good[p] \cup bad[p] : WriteResult(p, r)
    PROVE  RowInv' /\ LatestInv'
<1> USE DEF TypeOK, Goto
<1>1. CASE Send(p) \/ SendRefused(p) \/ Broadcast(p) \/ Stop(p) \/ MinedReverted(p)
  <2>1. UNCHANGED <<rowVars, chainVars>>
    BY <1>1 DEF Send, SendRefused, Broadcast, Stop, MinedReverted, Receipt
  <2>2. \A q \in Publishers :
          /\ pc'[q] # "insert" => work'[q] \subseteq Anchors
          /\ pc'[q] = "insert" => pc[q] = "insert" /\ span'[q] = span[q]
          /\ good'[q] \subseteq published
    <3>1. CASE Send(p) \/ SendRefused(p)
      BY <3>1 DEF Send, SendRefused, Known, RowInv
    <3>2. CASE Broadcast(p) \/ MinedReverted(p)
      BY <3>2 DEF Broadcast, MinedReverted, Receipt, RowInv
    <3>3. CASE Stop(p)
      BY <3>3 DEF Stop, RowInv
    <3> QED  BY <1>1, <3>1, <3>2, <3>3
  <2>3. \A q \in Publishers : bad'[q] \subseteq Anchors /\ (bad'[q] # {} => q \in Calls)
    <3>1. CASE Send(p) \/ Broadcast(p)
      BY <3>1 DEF Send, Broadcast, RowInv
    <3>2. CASE SendRefused(p)
      BY <3>2 DEF SendRefused, Single, RowInv
    <3>3. CASE Stop(p)
      BY <3>3 DEF Stop, RowInv
    <3>4. CASE MinedReverted(p)
      BY <3>4 DEF MinedReverted, Receipt, Single, RowInv
    <3> QED  BY <1>1, <3>1, <3>2, <3>3, <3>4
  <2>4. \A tx \in loose' : tx[2] \subseteq Anchors
    <3>1. CASE Stop(p)
      <4>1. loose' \subseteq loose \/ (pc[p] = "wait" /\ loose' = loose \cup {<<Single(p), work[p]>>})
        BY <3>1 DEF Stop
      <4> QED  BY <4>1 DEF RowInv
    <3>2. CASE ~Stop(p)
      BY <1>1, <3>2 DEF Send, SendRefused, Broadcast, MinedReverted, Receipt, RowInv
    <3> QED  BY <3>1, <3>2
  <2>5. LatestInv'  BY <2>1, LatestKept DEF rowVars
  <2> QED
    BY <2>1, <2>2, <2>3, <2>4, <2>5 DEF RowInv, ConfirmedIsOnChain, Anchors, rowVars, chainVars
<1>2. CASE Mined(p)
  <2>1. work[p] \in SUBSET Anchors  BY <1>2 DEF RowInv, Mined, Receipt
  <2>2. Record(work[p]) /\ UNCHANGED <<rowVars, loose>>  BY <1>2 DEF Mined, Receipt
  <2>3. LatestInv' /\ published' = published \cup work[p]  BY <2>1, <2>2, RecordKeepsLatest
  <2>4. \A q \in Publishers :
          /\ pc'[q] # "insert" => work'[q] \subseteq Anchors
          /\ pc'[q] = "insert" => pc[q] = "insert" /\ span'[q] = span[q]
          /\ good'[q] \subseteq good[q] \cup (IF q = p THEN work[p] ELSE {})
          /\ bad'[q] \subseteq bad[q]
    BY <1>2 DEF Mined, Receipt, RowInv
  <2> QED
    BY <2>1, <2>2, <2>3, <2>4 DEF RowInv, ConfirmedIsOnChain, Anchors, rowVars
<1>3. CASE \E r \in good[p] \cup bad[p] : WriteResult(p, r)
  <2>1. PICK r \in good[p] \cup bad[p] : WriteResult(p, r)  BY <1>3
  <2>2. r \in Anchors /\ (r \in good[p] => r \in published)  BY DEF RowInv
  <2>3. (r \in published /\ Confirm(r)) \/ Revert(r)  BY <2>1, <2>2 DEF WriteResult
  <2>4. UNCHANGED <<chainVars, pc, span, work, loose>>  BY <2>1 DEF WriteResult
  <2>5. Anchors' = Anchors /\ UNCHANGED <<from, to>> /\ ConfirmedIsOnChain' /\ LatestInv'
    BY <2>2, <2>3, <2>4, RowInvMark
  <2>6. \A q \in Publishers : good'[q] \subseteq good[q] /\ bad'[q] \subseteq bad[q]
    BY <2>1 DEF WriteResult
  <2> QED  BY <2>4, <2>5, <2>6 DEF RowInv, chainVars
<1> QED  BY <1>1, <1>2, <1>3

\* So does everything else.
LEMMA RowInvStep == TypeOK /\ RowInv /\ LatestInv /\ [Next]_vars => RowInv' /\ LatestInv'
<1> SUFFICES ASSUME TypeOK, RowInv, LatestInv, [Next]_vars PROVE RowInv' /\ LatestInv'  OBVIOUS
<1>1. CASE UNCHANGED <<rowVars, chainVars, pubVars, loose>>
  <2>1. LatestInv'  BY <1>1, LatestKept DEF rowVars
  <2> QED  BY <1>1, <2>1 DEF RowInv, ConfirmedIsOnChain, Anchors, rowVars, chainVars, pubVars
<1>2. CASE \/ \E e \in Events, k \in Keys \cup {NoKey} : Emits(e, k)
           \/ \E e \in Events : EmitCommits(e) \/ EmitFails(e)
           \/ TimePasses
           \/ \E r \in Pending : TakeOrphan(r)
           \/ PassOrphan
           \/ UNCHANGED vars
  BY <1>1, <1>2 DEF Emits, EmitCommits, EmitFails, TimePasses, TakeOrphan, PassOrphan, vars, anchorVars
<1>3. ASSUME NEW tx \in loose, MinedLate(tx) PROVE RowInv' /\ LatestInv'
  <2>1. tx[2] \in SUBSET Anchors  BY DEF RowInv
  <2>2. Record(tx[2]) /\ UNCHANGED <<rowVars, pubVars>> /\ loose' \subseteq loose
    BY <1>3 DEF MinedLate
  <2>3. LatestInv' /\ published' = published \cup tx[2]  BY <2>1, <2>2, RecordKeepsLatest
  <2> QED  BY <2>1, <2>2, <2>3 DEF RowInv, ConfirmedIsOnChain, Anchors, rowVars, pubVars
<1>4. CASE HealOrphan
  <2>1. orphan \in published /\ orphan \in Anchors  BY <1>4 DEF HealOrphan, RowInv
  <2>2. Confirm(orphan) /\ UNCHANGED <<chainVars, pubVars, loose>>  BY <1>4 DEF HealOrphan
  <2>3. Anchors' = Anchors /\ UNCHANGED <<from, to>> /\ ConfirmedIsOnChain' /\ LatestInv'
    BY <2>1, <2>2, RowInvMark
  <2> QED  BY <2>2, <2>3 DEF RowInv, chainVars, pubVars
<1> QED  BY <1>2, <1>3, <1>4, RowInvWindow, RowInvBroadcast DEF Next

\* A row with a transaction hash, or confirmed, is on chain.
THEOREM ConfirmedRowsAreOnChain == Spec => []ConfirmedIsOnChain
<1>1. RowInv => ConfirmedIsOnChain  BY DEF RowInv
<1> QED  BY <1>1, TypeInit, TypeStep, RowInvInit, RowInvStep, PTL DEF Spec

\* The contract's latest pointer names a published root, and no published window
\* ends in a later second than that root's.
THEOREM LatestPointerIsNewest == Spec => []LatestIsNewest
<1>1. LatestInv => LatestIsNewest  BY DEF LatestInv
<1> QED  BY <1>1, TypeInit, TypeStep, RowInvInit, RowInvStep, PTL DEF Spec

\* A time lies within the second it is cut down to.
LEMMA SecondsBounds ==
    ASSUME NEW a \in Int
    PROVE  Seconds(a) \in Int /\ Seconds(a) * Second <= a /\ a < Seconds(a) * Second + Second
  BY AnchoringAssumption, SMTT(30) DEF Seconds

\* A time that is not in a later second is later by less than a second.
LEMMA SecondsOrder ==
    ASSUME NEW a \in Int, NEW b \in Int, Seconds(a) <= Seconds(b)
    PROVE  a < b + Second
<1>1. \A k, l \in Int : k <= l => k * Second <= l * Second
  BY AnchoringAssumption, SMTT(30)
<1>2. Seconds(a) * Second <= Seconds(b) * Second  BY <1>1, SecondsBounds
<1> QED  BY <1>2, SecondsBounds, AnchoringAssumption

\* No published window ends a second or more after that of the root the pointer
\* names.
THEOREM PointerLagsLessThanASecond ==
    Spec => [](\A r \in published : to[r] < to[latest.root] + Second)
<1>1. TypeOK /\ LatestInv => \A r \in published : to[r] < to[latest.root] + Second
  <2> SUFFICES ASSUME TypeOK, LatestInv, NEW r \in published
               PROVE  to[r] < to[latest.root] + Second
    OBVIOUS
  <2>1. to[r] \in Int /\ to[latest.root] \in Int  BY DEF TypeOK
  <2>2. Seconds(to[r]) <= Seconds(to[latest.root])  BY DEF LatestInv, LatestIsNewest
  <2> QED  BY <2>1, <2>2, SecondsOrder
<1> QED  BY <1>1, TypeInit, TypeStep, RowInvInit, RowInvStep, PTL DEF Spec

----------------------------------------------------------------------------
(* Windows and the events in them. *)

Anchored(e) == \E r \in Anchors : e \in r

\* Events that commit where the windows see them.
InTime == log \ (straggler \cup passed)

\* Before a window that is to be listed nothing is left behind, and the scheduler's
\* starts at an event.
SpanInv ==
    \A p \in Publishers : pc[p] = "list" =>
        /\ p \in Cycles => \E f \in log : at[f] = span[p][1]
        /\ \A e \in InTime : at[e] < span[p][1] => Anchored(e)

\* A root that is listed and has no row yet holds the events of its window.
ListedInv ==
    \A p \in Publishers : pc[p] = "insert" => \A r \in work[p] :
        /\ r # {}
        /\ r \subseteq InWindow(span[p][1], span[p][2])
        /\ InWindow(span[p][1], span[p][2]) \ r \subseteq straggler
        /\ \A e \in InTime : at[e] < span[p][1] => Anchored(e)

WindowInv == NothingSkipped /\ ProofsMatchAnchors /\ SpanInv /\ ListedInv

\* Without rows and publishers at work it holds.
LEMMA WindowInvInit == Init => WindowInv
  BY DEF Init, WindowInv, NothingSkipped, ProofsMatchAnchors, SpanInv, ListedInv, Anchors

\* A committing event is a straggler, or passed, wherever it could be missed.
LEMMA WindowInvCommit ==
    ASSUME TypeOK, WindowInv, NEW e \in Events, EmitCommits(e)
    PROVE  WindowInv'
<1> USE DEF TypeOK, LogTypeOK, InTime
<1>1. /\ log' = log \cup {e} /\ UNCHANGED <<at, from, to, pc, span, work>> /\ Anchors' = Anchors
      /\ straggler \subseteq straggler' /\ straggler' \subseteq straggler \cup {e}
      /\ passed \subseteq passed' /\ passed' \subseteq passed \cup {e}
      /\ e \notin log
  BY DEF EmitCommits, Commit, rowVars, pubVars, Anchors
<1>2. e \notin straggler' =>
        /\ \A r \in Anchors : ~(at[e] <= to[r])
        /\ \A p \in Publishers : pc[p] = "insert" => ~(at[e] <= span[p][2])
        /\ \A f \in log : ~(at[e] < at[f])
  BY DEF EmitCommits, CommitsLate
<1>3. e \notin passed' => \A p \in Calls : pc[p] = "list" => ~(at[e] < span[p][1])
  BY DEF EmitCommits, IsPassed
<1>4. NothingSkipped'
  BY <1>1, <1>2 DEF WindowInv, NothingSkipped
<1>6. ProofsMatchAnchors'
  <2> SUFFICES ASSUME NEW r \in Anchors
               PROVE  /\ r \subseteq InWindow(from[r], to[r])'
                      /\ (InWindow(from[r], to[r]) \ r \subseteq straggler)'
    BY <1>1 DEF ProofsMatchAnchors
  <2>1. /\ r \subseteq InWindow(from[r], to[r])
        /\ InWindow(from[r], to[r]) \ r \subseteq straggler
    BY DEF WindowInv, ProofsMatchAnchors
  <2>2. /\ InWindow(from[r], to[r]) \subseteq InWindow(from[r], to[r])'
        /\ InWindow(from[r], to[r])' \subseteq InWindow(from[r], to[r]) \cup {e}
        /\ e \in InWindow(from[r], to[r])' => at[e] <= to[r]
    BY <1>1 DEF InWindow
  <2> QED  BY <1>1, <1>2, <2>1, <2>2
<1>7. SpanInv'
  <2> SUFFICES ASSUME NEW p \in Publishers, pc[p] = "list"
               PROVE  /\ p \in Cycles => \E f \in log' : at[f] = span[p][1]
                      /\ \A g \in InTime' : at[g] < span[p][1] => Anchored(g)'
    BY <1>1 DEF SpanInv
  <2>1. p \in Cycles => \E f \in log : at[f] = span[p][1]  BY DEF WindowInv, SpanInv
  <2>2. \A g \in InTime : at[g] < span[p][1] => Anchored(g)  BY DEF WindowInv, SpanInv
  <2>3. e \in InTime' => ~(at[e] < span[p][1])  BY <1>2, <1>3, <2>1 DEF Publishers
  <2> QED  BY <1>1, <2>1, <2>2, <2>3 DEF Anchored
<1>8. ListedInv'
  <2> SUFFICES ASSUME NEW p \in Publishers, pc[p] = "insert", NEW r \in work[p]
               PROVE  /\ r # {}
                      /\ r \subseteq InWindow(span[p][1], span[p][2])'
                      /\ (InWindow(span[p][1], span[p][2]) \ r \subseteq straggler)'
                      /\ \A g \in InTime' : at[g] < span[p][1] => Anchored(g)'
    BY <1>1 DEF ListedInv
  <2>1. /\ r # {}
        /\ r \subseteq InWindow(span[p][1], span[p][2])
        /\ InWindow(span[p][1], span[p][2]) \ r \subseteq straggler
        /\ \A g \in InTime : at[g] < span[p][1] => Anchored(g)
    BY DEF WindowInv, ListedInv
  <2>2. /\ InWindow(span[p][1], span[p][2]) \subseteq InWindow(span[p][1], span[p][2])'
        /\ InWindow(span[p][1], span[p][2])' \subseteq InWindow(span[p][1], span[p][2]) \cup {e}
        /\ e \in InWindow(span[p][1], span[p][2])' => at[e] <= span[p][2]
    BY <1>1 DEF InWindow
  <2>3. PICK f \in log : span[p][1] <= at[f]  BY <2>1 DEF InWindow
  <2>4. e \in InTime' => ~(at[e] < span[p][1])  BY <1>2, <2>3
  <2> QED  BY <1>1, <1>2, <2>1, <2>2, <2>4 DEF Anchored
<1> QED  BY <1>4, <1>6, <1>7, <1>8 DEF WindowInv

\* What the other steps of the log touch is not committed.
LEMMA WindowInvLog ==
    ASSUME TypeOK, WindowInv,
           \/ \E e \in Events, k \in Keys \cup {NoKey} : Emits(e, k)
           \/ \E e \in Events : EmitFails(e)
           \/ TimePasses
    PROVE  WindowInv'
<1>1. /\ UNCHANGED <<log, from, to, pc, span, work, status, straggler, passed>>
      /\ \A f \in log : at'[f] = at[f]
  BY DEF Emits, Emit, Insert, EmitFails, Rollback, TimePasses, Tick, anchorVars, rowVars, pubVars,
     history, TypeOK, LogTypeOK
<1>2. Anchors' = Anchors  BY <1>1 DEF Anchors
<1>3. NothingSkipped'  BY <1>1, <1>2 DEF WindowInv, NothingSkipped
<1>4. ProofsMatchAnchors'  BY <1>1, <1>2 DEF WindowInv, ProofsMatchAnchors, InWindow
<1>5. SpanInv'  BY <1>1, <1>2 DEF WindowInv, SpanInv, InTime, Anchored
<1>6. ListedInv'  BY <1>1, <1>2 DEF WindowInv, ListedInv, InTime, InWindow, Anchored
<1> QED  BY <1>3, <1>4, <1>5, <1>6 DEF WindowInv

\* Steps that only mark rows, or move no publisher to a new window, keep it.
LEMMA WindowInvIdle ==
    ASSUME TypeOK, WindowInv, UNCHANGED <<logVars, from, to, history>>, Anchors' = Anchors,
           \A q \in Publishers : Keeps(q)
    PROVE  WindowInv'
<1>1. UNCHANGED <<log, at, straggler, passed>>  BY DEF logVars, history
<1>2. NothingSkipped'  BY <1>1 DEF WindowInv, NothingSkipped
<1>3. ProofsMatchAnchors'  BY <1>1 DEF WindowInv, ProofsMatchAnchors, InWindow
<1>4. SpanInv'  BY <1>1 DEF WindowInv, SpanInv, InTime, Anchored, Keeps
<1>5. ListedInv'  BY <1>1 DEF WindowInv, ListedInv, InTime, InWindow, Anchored, Keeps
<1> QED  BY <1>2, <1>3, <1>4, <1>5 DEF WindowInv

\* An event that is covered is anchored, if it committed in time.
LEMMA CoveredIsAnchored ==
    ASSUME WindowInv, NEW e \in InTime, NEW r \in Live, at[e] <= to[r]
    PROVE  Anchored(e)
  BY DEF WindowInv, NothingSkipped, InTime, Anchored, Live, Anchors

\* A window derived from the coverage leaves nothing behind, whether it starts at an
\* event, just after what is covered or at the call's own time.
LEMMA WindowInvTake ==
    ASSUME TypeOK, WindowInv, NEW p \in Publishers, NEW oldest \in Int, TakeWindow(p, oldest),
           \A e \in Uncovered : oldest <= at[e],
           p \in Cycles => \E e \in Uncovered : oldest = at[e]
    PROVE  WindowInv'
<1> USE DEF TypeOK, LogTypeOK
<1>1. UNCHANGED <<log, at, from, to, straggler, passed, work>> /\ Anchors' = Anchors
  BY DEF TakeWindow, logVars, rowVars, history, Anchors
<1>2. PICK s \in {oldest} \cup {to[r] + 1 : r \in Live} :
           /\ \A x \in {oldest} \cup {to[r] + 1 : r \in Live} : x <= s
           /\ span' = [span EXCEPT ![p] = SpanFrom(s, now[p])]
           /\ Goto(p, "list")
  BY DEF TakeWindow
<1>3. s \in Int /\ span'[p][1] = s  BY <1>2 DEF SpanFrom, Live
<1>4. \A e \in InTime : at[e] < s => Anchored(e)
  <2> SUFFICES ASSUME NEW e \in InTime, at[e] < s PROVE Anchored(e)  OBVIOUS
  <2>1. at[e] \in Nat /\ e \in log  BY DEF InTime
  <2>2. CASE e \in Uncovered
    <3>1. oldest <= at[e] /\ \A r \in Live : to[r] + 1 <= at[e]
      BY <2>1, <2>2 DEF Uncovered, Live
    <3>2. s <= at[e]  BY <1>2, <3>1
    <3> QED  BY <1>3, <2>1, <3>2
  <2>3. CASE e \notin Uncovered
    <3>1. PICK r \in Live : ~(to[r] < at[e])  BY <2>1, <2>3 DEF Uncovered
    <3>2. at[e] <= to[r]  BY <2>1, <3>1 DEF Live
    <3> QED  BY <3>2, CoveredIsAnchored
  <2> QED  BY <2>2, <2>3
<1>5. p \in Cycles => \E f \in log : at[f] = s
  <2> SUFFICES ASSUME NEW e \in Uncovered, oldest = at[e] PROVE at[e] = s  BY DEF Uncovered
  <2>1. at[e] \in Nat /\ \A r \in Live : to[r] + 1 <= at[e]  BY DEF Uncovered, Live
  <2>2. s <= at[e]  BY <1>2, <2>1
  <2>3. at[e] <= s  BY <1>2
  <2>4. \A a, b \in Int : a <= b /\ b <= a => a = b  OBVIOUS
  <2> QED  BY <1>3, <2>1, <2>2, <2>3, <2>4
<1>6. \A q \in Publishers : q # p => pc'[q] = pc[q] /\ span'[q] = span[q]
  BY <1>2 DEF Goto
<1>7. SpanInv'
  <2> SUFFICES ASSUME NEW q \in Publishers, pc'[q] = "list"
               PROVE  /\ q \in Cycles => \E f \in log : at[f] = span'[q][1]
                      /\ \A e \in InTime : at[e] < span'[q][1] => Anchored(e)
    BY <1>1 DEF SpanInv, InTime, Anchored
  <2>1. CASE q = p
    BY <1>3, <1>4, <1>5, <2>1
  <2>2. CASE q # p
    BY <1>6, <2>2 DEF WindowInv, SpanInv
  <2> QED  BY <2>1, <2>2
<1>8. ListedInv'
  <2>1. pc'[p] # "insert"  BY <1>2 DEF Goto
  <2> QED  BY <1>1, <1>6, <2>1 DEF WindowInv, ListedInv, InTime, InWindow, Anchored
<1>9. NothingSkipped'  BY <1>1 DEF WindowInv, NothingSkipped
<1>10. ProofsMatchAnchors'  BY <1>1 DEF WindowInv, ProofsMatchAnchors, InWindow
<1> QED  BY <1>7, <1>8, <1>9, <1>10 DEF WindowInv

\* The scheduler takes a window only for an event, a call also without.
LEMMA WindowInvCover ==
    ASSUME TypeOK, WindowInv, NEW p \in Publishers, Cover(p) \/ CoverNow(p)
    PROVE  WindowInv'
<1> USE DEF TypeOK, LogTypeOK
<1>1. CASE Cover(p)
  <2>1. PICK e \in Uncovered : (\A f \in Uncovered : at[e] <= at[f]) /\ TakeWindow(p, at[e])
    BY <1>1 DEF Cover
  <2>2. at[e] \in Int  BY DEF Uncovered
  <2> QED  BY <2>1, <2>2, WindowInvTake
<1>2. CASE CoverNow(p)
  <2>1. p \notin Cycles /\ Uncovered = {} /\ now[p] \in Int /\ TakeWindow(p, now[p])
    BY <1>2, AnchoringAssumption DEF CoverNow
  <2> QED  BY <2>1, WindowInvTake
<1> QED  BY <1>1, <1>2

\* A listed root holds its window.
LEMMA WindowInvList ==
    ASSUME TypeOK, WindowInv, NEW p \in Publishers, ListEvents(p)
    PROVE  WindowInv'
<1> USE DEF TypeOK, LogTypeOK
<1>1. UNCHANGED <<log, at, from, to, span, straggler, passed>> /\ Anchors' = Anchors
  BY DEF ListEvents, ListRoot, logVars, rowVars, history, Anchors
<1>2. /\ pc[p] = "list" /\ pc'[p] = "insert"
      /\ InWindow(span[p][1], span[p][2]) # {}
      /\ work'[p] = {InWindow(span[p][1], span[p][2])}
      /\ \A q \in Publishers : q # p => pc'[q] = pc[q] /\ work'[q] = work[q]
  BY DEF ListEvents, ListRoot, Goto
<1>3. SpanInv'  BY <1>1, <1>2 DEF WindowInv, SpanInv, InTime, Anchored
<1>4. ListedInv'
  <2> SUFFICES ASSUME NEW q \in Publishers, pc'[q] = "insert", NEW r \in work'[q]
               PROVE  /\ r # {}
                      /\ r \subseteq InWindow(span[q][1], span[q][2])
                      /\ InWindow(span[q][1], span[q][2]) \ r \subseteq straggler
                      /\ \A e \in InTime : at[e] < span[q][1] => Anchored(e)
    BY <1>1 DEF ListedInv, InTime, InWindow, Anchored
  <2>1. CASE q = p
    BY <1>2, <2>1 DEF WindowInv, SpanInv
  <2>2. CASE q # p
    BY <1>2, <2>2 DEF WindowInv, ListedInv
  <2> QED  BY <2>1, <2>2
<1>5. NothingSkipped'  BY <1>1 DEF WindowInv, NothingSkipped
<1>6. ProofsMatchAnchors'  BY <1>1 DEF WindowInv, ProofsMatchAnchors, InWindow
<1> QED  BY <1>3, <1>4, <1>5, <1>6 DEF WindowInv

\* A new row holds what was left in its window, and nothing was left before it.
LEMMA WindowInvCreate ==
    ASSUME TypeOK, WindowInv, NEW p \in Publishers, NEW r \in work[p], CreateAnchor(p, r)
    PROVE  WindowInv'
<1> USE DEF TypeOK, LogTypeOK
<1>1. UNCHANGED <<log, at, straggler, passed>>
  BY DEF CreateAnchor, Created, logVars, history
<1>2. AddsRow(p, r)  BY CreateAddsRow
<1>3. /\ r \subseteq InWindow(span[p][1], span[p][2])
      /\ InWindow(span[p][1], span[p][2]) \ r \subseteq straggler
      /\ \A e \in InTime : at[e] < span[p][1] => Anchored(e)
  BY <1>2 DEF AddsRow, WindowInv, ListedInv
<1>4. NothingSkipped'
  <2> SUFFICES ASSUME NEW e \in InTime, NEW x \in Anchors', at[e] <= to'[x]
               PROVE  \E y \in Anchors' : e \in y
    BY <1>1 DEF NothingSkipped, InTime
  <2>1. CASE x \in Anchors
    BY <1>2, <2>1 DEF AddsRow, WindowInv, NothingSkipped, InTime
  <2>2. CASE x \notin Anchors
    <3>1. x = r /\ at[e] <= span[p][2]  BY <1>2, <2>2 DEF AddsRow
    <3>2. CASE at[e] < span[p][1]
      BY <1>2, <1>3, <3>2 DEF AddsRow, Anchored
    <3>3. CASE ~(at[e] < span[p][1])
      <4>1. e \in InWindow(span[p][1], span[p][2])  BY <3>1, <3>3 DEF InWindow, InTime
      <4> QED  BY <1>2, <1>3, <4>1 DEF AddsRow, InTime
    <3> QED  BY <3>2, <3>3
  <2> QED  BY <2>1, <2>2
<1>5. ProofsMatchAnchors'
  <2> SUFFICES ASSUME NEW x \in Anchors'
               PROVE  /\ x \subseteq InWindow(from'[x], to'[x])
                      /\ InWindow(from'[x], to'[x]) \ x \subseteq straggler
    BY <1>1 DEF ProofsMatchAnchors, InWindow
  <2>1. CASE x \in Anchors
    BY <1>2, <2>1 DEF AddsRow, WindowInv, ProofsMatchAnchors
  <2>2. CASE x \notin Anchors
    BY <1>2, <1>3, <2>2 DEF AddsRow
  <2> QED  BY <2>1, <2>2
<1>6. \A e : Anchored(e) => Anchored(e)'  BY <1>2 DEF AddsRow, Anchored
<1>7. \A q \in Publishers : Keeps(q)  BY <1>2 DEF AddsRow
<1>8. SpanInv'  BY <1>1, <1>6, <1>7 DEF WindowInv, SpanInv, InTime, Keeps
<1>9. ListedInv'  BY <1>1, <1>6, <1>7 DEF WindowInv, ListedInv, InTime, InWindow, Keeps
<1> QED  BY <1>4, <1>5, <1>8, <1>9 DEF WindowInv

\* Every step keeps what windows and events say of each other.
LEMMA WindowInvStep == TypeOK /\ RowInv /\ LatestInv /\ WindowInv /\ [Next]_vars => WindowInv'
<1> SUFFICES ASSUME TypeOK, RowInv, LatestInv, WindowInv, [Next]_vars PROVE WindowInv'  OBVIOUS
<1> DEFINE Quiet ==
      /\ UNCHANGED <<logVars, from, to, history>>
      /\ Anchors' = Anchors
      /\ \A q \in Publishers : Keeps(q)
<1>q. Quiet => WindowInv'  BY WindowInvIdle
<1>1. ASSUME NEW p \in Publishers, Start(p) \/ NothingToCover(p) \/ NothingListed(p)
      PROVE  Quiet
  <2>1. pc[p] # "insert" /\ pc'[p] \notin {"list", "insert"}
    BY <1>1 DEF Start, NothingToCover, NothingListed, Goto, TypeOK
  <2> QED
    BY <1>1, <2>1 DEF Start, NothingToCover, NothingListed, Goto, Keeps, Anchors, rowVars, TypeOK
<1>2. ASSUME NEW p \in Publishers, Send(p) \/ SendRefused(p) \/ Mined(p) \/ MinedReverted(p)
      PROVE  Quiet
  BY <1>2 DEF Send, SendRefused, Mined, MinedReverted, Receipt, Goto, Keeps, Anchors, rowVars, TypeOK
<1>3. ASSUME NEW p \in Publishers, Broadcast(p) PROVE Quiet
  BY <1>3 DEF Broadcast, Goto, Keeps, Anchors, rowVars, TypeOK
<1>4. ASSUME NEW p \in Publishers, Stop(p) PROVE Quiet
  <2>1. \A q \in Publishers : pc'[q] \in {"list", "insert"} => q # p /\ pc'[q] = pc[q]
    BY <1>4 DEF Stop, Goto, TypeOK
  <2> QED  BY <1>4, <2>1 DEF Stop, Keeps, Anchors, rowVars, TypeOK
<1>5. ASSUME NEW p \in Publishers, NEW r \in good[p] \cup bad[p], WriteResult(p, r) PROVE Quiet
  <2>1. r \in Anchors /\ (r \in good[p] => r \in published)  BY DEF RowInv
  <2>2. (r \in published /\ Confirm(r)) \/ Revert(r)  BY <1>5, <2>1 DEF WriteResult
  <2>3. UNCHANGED <<logVars, chainVars, pc, span, work, history>>  BY <1>5 DEF WriteResult
  <2> QED  BY <2>1, <2>2, <2>3, RowInvMark DEF Keeps
<1>6. CASE HealOrphan
  <2>1. orphan \in published /\ orphan \in Anchors  BY <1>6 DEF HealOrphan, RowInv
  <2>2. Confirm(orphan) /\ UNCHANGED <<logVars, chainVars, pubVars, history>>
    BY <1>6 DEF HealOrphan
  <2>3. Anchors' = Anchors /\ UNCHANGED <<from, to>>  BY <2>1, <2>2, RowInvMark
  <2> QED  BY <1>q, <2>2, <2>3 DEF pubVars, Keeps
<1>7. CASE (\E tx \in loose : MinedLate(tx)) \/ (\E r \in Pending : TakeOrphan(r)) \/ PassOrphan \/ UNCHANGED vars
  <2>1. UNCHANGED <<logVars, rowVars, pubVars, history>>
    BY <1>7 DEF MinedLate, TakeOrphan, PassOrphan, vars, anchorVars
  <2> QED  BY <1>q, <2>1 DEF rowVars, pubVars, Anchors, Keeps
<1> HIDE DEF Quiet
<1> QED
  BY <1>q, <1>1, <1>2, <1>3, <1>4, <1>5, <1>6, <1>7,
     WindowInvCommit, WindowInvLog, WindowInvCover, WindowInvList, WindowInvCreate DEF Next

\* No event that commits in time falls between two windows.
THEOREM NoEventIsSkipped == Spec => []NothingSkipped
<1>1. WindowInv => NothingSkipped  BY DEF WindowInv
<1> QED
  BY <1>1, TypeInit, TypeStep, RowInvInit, RowInvStep, WindowInvInit, WindowInvStep, PTL DEF Spec

\* The events in an anchor's window are its leaves, stragglers apart.
THEOREM WindowsMatchRoots == Spec => []ProofsMatchAnchors
<1>1. WindowInv => ProofsMatchAnchors  BY DEF WindowInv
<1> QED
  BY <1>1, TypeInit, TypeStep, RowInvInit, RowInvStep, WindowInvInit, WindowInvStep, PTL DEF Spec

----------------------------------------------------------------------------
(* Reverted rows. *)

\* A row becomes reverted only by a result of the single-row route.
LEMMA RevertStep ==
    ASSUME TypeOK, RowInv, [Next]_vars, NEW r \in Roots,
           status[r] # "reverted", status'[r] = "reverted"
    PROVE  \E p \in Calls : r \in bad[p]
<1> USE DEF TypeOK
<1>1. status' # status  OBVIOUS
<1>2. ASSUME NEW p \in Publishers, NEW x \in good[p] \cup bad[p], WriteResult(p, x)
      PROVE  \E q \in Calls : r \in bad[q]
  <2>1. x \in bad[p] /\ Revert(x) /\ r = x
    BY <1>2 DEF WriteResult, Confirm, Revert
  <2>2. p \in Calls  BY <2>1 DEF RowInv
  <2> QED  BY <2>1, <2>2
<1>3. ASSUME NEW p \in Publishers, NEW x \in work[p], CreateAnchor(p, x) PROVE FALSE
  <2>1. AddsRow(p, x)  BY <1>3, CreateAddsRow
  <2> QED  BY <2>1 DEF AddsRow
<1>4. ASSUME HealOrphan PROVE FALSE
  BY <1>4 DEF HealOrphan, Confirm
<1>5. ASSUME NEW p \in Publishers,
             \/ Start(p) \/ Cover(p) \/ CoverNow(p) \/ NothingToCover(p)
             \/ ListEvents(p) \/ NothingListed(p)
             \/ Send(p) \/ SendRefused(p) \/ Mined(p) \/ MinedReverted(p) \/ Broadcast(p) \/ Stop(p)
      PROVE  FALSE
  BY <1>1, <1>5 DEF Start, Cover, CoverNow, TakeWindow, NothingToCover, ListEvents, ListRoot,
     NothingListed, Send, SendRefused, Mined,
     MinedReverted, Receipt, Broadcast, Stop, rowVars
<1>6. ASSUME \/ \E e \in Events, k \in Keys \cup {NoKey} : Emits(e, k)
             \/ \E e \in Events : EmitCommits(e) \/ EmitFails(e)
             \/ TimePasses
             \/ \E tx \in loose : MinedLate(tx)
             \/ \E x \in Pending : TakeOrphan(x)
             \/ PassOrphan
             \/ UNCHANGED vars
      PROVE  FALSE
  BY <1>1, <1>6 DEF Emits, EmitCommits, EmitFails, TimePasses, MinedLate, TakeOrphan, PassOrphan,
     vars, anchorVars, rowVars
<1> QED  BY <1>2, <1>3, <1>4, <1>5, <1>6 DEF Next

\* The scheduler's batches never give a row up.
THEOREM BatchesNeverRevert == Spec => SchedulerNeverReverts
<1>1. TypeOK /\ RowInv /\ [Next]_vars =>
        [\A r \in Roots : status[r] # "reverted" /\ status'[r] = "reverted"
            => \E p \in Calls : r \in bad[p]]_status
  BY RevertStep
<1> QED
  BY <1>1, TypeInit, TypeStep, RowInvInit, RowInvStep, PTL DEF Spec, SchedulerNeverReverts

----------------------------------------------------------------------------
(* Refinement of AuditEvidence. *)

\* Without rows, roots or events there is no evidence.
LEMMA EvidenceInit == Init => Evidence!Init
  BY DEF Init, LogInit, Evidence!Init, evidence, Anchors

\* Evidence only grows, a stage at a time: for every step that adds leaves of
\* logged events, publishes known roots, or logs an event of no root.
LEMMA EvidenceGrows ==
    ASSUME log \subseteq log', log' \subseteq Events,
           Anchors \subseteq Anchors', published \subseteq published',
           published \subseteq Anchors, published' \subseteq Anchors',
           \A r \in Anchors : r \subseteq log,
           \A r \in Anchors' : r \subseteq log,
           log' = log \/ (Anchors' = Anchors /\ published' = published),
           Anchors' = Anchors \/ published' = published
    PROVE  Evidence!Next
<1> DEFINE a == UNION Anchors
           p == UNION published
           G(l, x, y, e) == IF e \in y THEN "published" ELSE IF e \in x THEN "anchored"
                            ELSE IF e \in l THEN "logged" ELSE "none"
<1>1. evidence = [e \in Events |-> G(log, a, p, e)]  BY DEF evidence
<1>2. evidence' = [e \in Events |-> G(log', a', p', e)]  BY DEF evidence
<1>3. /\ p \subseteq a /\ a \subseteq log /\ p' \subseteq a' /\ a' \subseteq log
      /\ a \subseteq a' /\ p \subseteq p'
      /\ log' = log \/ (a' = a /\ p' = p)
      /\ a' = a \/ p' = p
  OBVIOUS
<1> HIDE DEF a, p
<1>4. evidence' \in [Events -> Evidence!Stages]  BY <1>2 DEF Evidence!Stages
<1>5. ASSUME NEW e \in Events PROVE evidence'[e] \in Evidence!Onward(evidence[e])
  <2>1. evidence[e] = G(log, a, p, e) /\ evidence'[e] = G(log', a', p', e)  BY <1>1, <1>2
  <2> QED  BY <1>3, <2>1 DEF Evidence!Onward
<1> QED  BY <1>4, <1>5 DEF Evidence!Next

\* Every step is one of the abstract log or leaves the evidence alone.
LEMMA EvidenceStep ==
    ASSUME TypeOK, RowInv, LatestInv, WindowInv, [Next]_vars
    PROVE  [Evidence!Next]_evidence
<1> USE DEF TypeOK, LogTypeOK
<1>1. published \subseteq Anchors /\ published' \subseteq Anchors'
  BY RowInvStep DEF RowInv
<1>2. \A r \in Anchors : r \subseteq log
  BY DEF WindowInv, ProofsMatchAnchors, InWindow
<1>3. ASSUME UNCHANGED <<log, published>>, Anchors' = Anchors PROVE UNCHANGED evidence
  BY <1>3 DEF evidence
<1>4. ASSUME NEW e \in Events, EmitCommits(e) PROVE Evidence!Next
  <2>1. log' = log \cup {e} /\ Anchors' = Anchors /\ published' = published
    BY <1>4 DEF EmitCommits, Commit, Anchors, rowVars, chainVars
  <2> QED  BY <1>1, <1>2, <2>1, EvidenceGrows
<1>5. ASSUME NEW p \in Publishers, NEW r \in work[p], CreateAnchor(p, r) PROVE Evidence!Next
  <2>1. AddsRow(p, r)  BY <1>5, CreateAddsRow
  <2>2. Anchors' = Anchors \cup {r} /\ r \subseteq log
    BY <2>1 DEF AddsRow, WindowInv, ListedInv, InWindow
  <2>3. UNCHANGED <<log, published>>
    BY <1>5 DEF CreateAnchor, Created, logVars, chainVars
  <2> QED  BY <1>1, <1>2, <2>2, <2>3, EvidenceGrows
<1>6. ASSUME NEW roots \in SUBSET Roots, Record(roots), UNCHANGED <<logVars, rowVars>>
      PROVE  Evidence!Next
  <2>1. log' = log /\ Anchors' = Anchors /\ published \subseteq published'
    BY <1>6 DEF Record, Anchors, logVars, rowVars
  <2> QED  BY <1>1, <1>2, <2>1, EvidenceGrows
<1>7. ASSUME NEW p \in Publishers, Mined(p) PROVE Evidence!Next
  BY <1>6, <1>7 DEF Mined, Receipt
<1>8. ASSUME NEW tx \in loose, MinedLate(tx) PROVE Evidence!Next
  BY <1>6, <1>8 DEF MinedLate
<1>9. ASSUME NEW p \in Publishers, NEW r \in good[p] \cup bad[p], WriteResult(p, r)
      PROVE  UNCHANGED evidence
  <2>1. r \in Anchors /\ (r \in good[p] => r \in published)  BY DEF RowInv
  <2>2. (r \in published /\ Confirm(r)) \/ Revert(r)  BY <1>9, <2>1 DEF WriteResult
  <2>3. UNCHANGED <<logVars, chainVars>>  BY <1>9 DEF WriteResult
  <2>4. Anchors' = Anchors  BY <2>1, <2>2, <2>3, RowInvMark
  <2> QED  BY <1>3, <2>3, <2>4 DEF logVars, chainVars
<1>10. ASSUME HealOrphan PROVE UNCHANGED evidence
  <2>1. orphan \in published /\ orphan \in Anchors  BY <1>10 DEF HealOrphan, RowInv
  <2>2. Confirm(orphan) /\ UNCHANGED <<logVars, chainVars>>  BY <1>10 DEF HealOrphan
  <2>3. Anchors' = Anchors  BY <2>1, <2>2, RowInvMark
  <2> QED  BY <1>3, <2>2, <2>3 DEF logVars, chainVars
<1>11. ASSUME NEW p \in Publishers,
              \/ Start(p) \/ Cover(p) \/ CoverNow(p) \/ NothingToCover(p)
              \/ ListEvents(p) \/ NothingListed(p)
              \/ Send(p) \/ SendRefused(p) \/ MinedReverted(p) \/ Broadcast(p) \/ Stop(p)
       PROVE  UNCHANGED evidence
  <2>1. UNCHANGED <<logVars, rowVars, chainVars>>
    BY <1>11 DEF Start, Cover, CoverNow, TakeWindow, NothingToCover, ListEvents, ListRoot,
       NothingListed, Send, SendRefused, MinedReverted, Receipt, Broadcast, Stop
  <2> QED  BY <1>3, <2>1 DEF logVars, rowVars, chainVars, Anchors
<1>12. ASSUME \/ \E e \in Events, k \in Keys \cup {NoKey} : Emits(e, k)
              \/ \E e \in Events : EmitFails(e)
              \/ TimePasses
              \/ \E x \in Pending : TakeOrphan(x)
              \/ PassOrphan
              \/ UNCHANGED vars
       PROVE  UNCHANGED evidence
  <2>1. UNCHANGED <<log, rowVars, chainVars>>
    BY <1>12 DEF Emits, Emit, Insert, EmitFails, Rollback, TimePasses, Tick, TakeOrphan, PassOrphan,
       vars, anchorVars, logVars
  <2> QED  BY <1>3, <2>1 DEF rowVars, chainVars, Anchors
<1> QED  BY <1>4, <1>5, <1>7, <1>8, <1>9, <1>10, <1>11, <1>12 DEF Next

\* The log and its publishers implement the abstract evidence.
THEOREM AnchoringImplementsEvidence == Spec => ImplementsEvidence
  BY EvidenceInit, EvidenceStep, TypeInit, TypeStep, RowInvInit, RowInvStep,
     WindowInvInit, WindowInvStep, PTL DEF Spec, ImplementsEvidence, Evidence!Spec

=============================================================================
