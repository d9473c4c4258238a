--------------------------- MODULE IntentApproval ---------------------------
(***************************************************************************)
(* The approval of one PaymentIntent: members sign it, the pre-execution   *)
(* gate counts the signatures that the policy in force still accepts, and  *)
(* execute hands the intent over to the outbox (module ExecutionOutbox).   *)
(*                                                                         *)
(* Every request reads, awaits and writes: approve reads the intent, then  *)
(* the member, the signatures and the policy, then the policy version its  *)
(* signature will carry, inserts the signature, and moves the intent, each *)
(* in a transaction of its own.  In between other requests run, the policy *)
(* is replaced, and a member is deactivated.  A request may be refused, or *)
(* its process may die, after any of its steps.                            *)
(***************************************************************************)
EXTENDS Naturals, Sequences, FiniteSets

CONSTANTS
    Members,     \* the members who may be asked to approve
    RoleOf,      \* the role each member signs in: "admin" or "approver"
    DualControl, \* members whose second-approver threshold the amount exceeds
    Versions,    \* the policy versions
    Outcome,     \* what each version decides of the intent
    Required,    \* the approver slots each version asks for
    Floor,       \* the versions whose caps leave the payment a hard floor
    Gates,       \* the execute and resume requests
    MayAbandon   \* requests may be refused or die between their steps

Roles == {"admin", "approver"}
Slots == Roles \cup {"signer"}

ASSUME PolicyAssumption ==
    /\ IsFiniteSet(Members)
    /\ RoleOf \in [Members -> Roles]
    /\ DualControl \subseteq Members
    /\ Versions \subseteq Nat \ {0}
    /\ Outcome \in [Versions -> {"allow", "confirm", "reject"}]
    /\ Required \in [Versions -> Seq(Slots)]
    /\ \A v \in Versions : Outcome[v] # "confirm" => Required[v] = <<>>
    /\ Floor \subseteq Versions
    /\ MayAbandon \in BOOLEAN

VARIABLES
    status,     \* ledger_payment_intents.status
    active,     \* the active policy version
    activated,  \* versions that are or have been active
    entitled,   \* members that are active, in the domain and within the limit
    signed,     \* the policy version each member's signature carries, 0 if none
    stale,      \* members whose signature is marked stale
    pc,         \* the step of a member's approve request
    readStatus, \* the status it read
    more,       \* it found that a further approval is needed
    seen,       \* the policy version it will sign under
    gpc,        \* the step of an execute or resume request
    goal,       \* which of the two it is
    gver        \* the policy version its gate evaluated

policyVars  == <<active, activated, entitled>>
signVars    == <<signed, stale>>
approveVars == <<pc, readStatus, more, seen>>
gateVars    == <<gpc, goal, gver>>
vars == <<status, policyVars, signVars, approveVars, gateVars>>

Open == {"pending_approval", "awaiting_second_approval"}

Signers == {m \in Members : signed[m] # 0}

----------------------------------------------------------------------------
(* What the policy asks for.                                                *)

\* At least one human must approve although the policy allows the payment: by its
\* action type, or because no autonomy cap of the policy covers it.
HardFloor(v) == Outcome[v] = "allow" /\ v \in Floor

NeedsApproval(v) == Outcome[v] = "confirm" \/ HardFloor(v)

AtLeast(n, k) == IF n < k THEN k ELSE n

\* The distinct approvals the policy asks for, raised to two for a member whose
\* own threshold the amount exceeds.
PolicyNeeds(v) == AtLeast(Len(Required[v]), 1)
Needed(m, v) == IF m \in DualControl THEN AtLeast(PolicyNeeds(v), 2) ELSE PolicyNeeds(v)

\* Mutant: a named slot does not use up the role that fills it.
RoleQuorum_NoConsume(slots, roles) ==
    LET named == {k \in DOMAIN slots : slots[k] # "signer"}
    IN  /\ \A k \in named : slots[k] \in roles
        /\ Cardinality(DOMAIN slots) - Cardinality(named) <= Cardinality(roles)

\* A named slot takes the role of its name, which no other slot may use; a
\* "signer" slot takes any role left over.
RoleQuorum(slots, roles) ==
    LET named == {k \in DOMAIN slots : slots[k] # "signer"}
    IN  /\ \A k \in named : slots[k] \in roles
        /\ \A j, k \in named : slots[j] = slots[k] => j = k
        /\ Cardinality(DOMAIN slots) <= Cardinality(roles)

\* The signatures that count towards version v.
Valid(v) == {m \in Members : signed[m] = v /\ m \notin stale}

\* Checks 3 and 11 of the gate.
GatePasses(v) ==
    /\ Outcome[v] # "reject"
    /\ Outcome[v] = "confirm" => RoleQuorum(Required[v], {RoleOf[m] : m \in Valid(v)})
    /\ HardFloor(v) => Valid(v) # {}

----------------------------------------------------------------------------

\* create: the policy decides whether the intent starts out approved.
Init ==
    /\ active \in {v \in Versions : Outcome[v] # "reject"}
    /\ activated = {active}
    /\ status = IF NeedsApproval(active) THEN "pending_approval" ELSE "approved"
    /\ entitled = Members
    /\ signed = [m \in Members |-> 0]
    /\ stale = {}
    /\ pc = [m \in Members |-> "idle"]
    /\ readStatus = [m \in Members |-> "none"]
    /\ more = [m \in Members |-> FALSE]
    /\ seen = [m \in Members |-> 0]
    /\ gpc = [g \in Gates |-> "idle"]
    /\ goal = [g \in Gates |-> "execute"]
    /\ gver = [g \in Gates |-> 0]

----------------------------------------------------------------------------
(* approve.                                                                 *)

\* Mutant: the intent is read whatever its status.
ApproveReads_AnyStatus(m) ==
    /\ pc[m] = "idle"
    /\ pc' = [pc EXCEPT ![m] = "read"]
    /\ readStatus' = [readStatus EXCEPT ![m] = status]
    /\ UNCHANGED <<status, policyVars, signVars, more, seen, gateVars>>

\* The intent is read while it is open.
ApproveReads(m) ==
    /\ pc[m] = "idle"
    /\ status \in Open
    /\ pc' = [pc EXCEPT ![m] = "read"]
    /\ readStatus' = [readStatus EXCEPT ![m] = status]
    /\ UNCHANGED <<status, policyVars, signVars, more, seen, gateVars>>

\* Mutant: the member's own second-approver threshold is stored, not enforced.
Authorize_PolicyOnly(m) ==
    /\ pc[m] = "read"
    /\ m \in entitled
    /\ Needed(m, active) > 1 => m \notin Signers
    /\ more' = [more EXCEPT ![m] = Cardinality(Signers) + 1 < PolicyNeeds(active)]
    /\ pc' = [pc EXCEPT ![m] = "authorized"]
    /\ UNCHANGED <<status, policyVars, signVars, readStatus, seen, gateVars>>

\* authorizeApproval: the member is entitled and, where more than one approval is
\* needed, has not signed.  Stale signatures count as approvals here.
Authorize(m) ==
    /\ pc[m] = "read"
    /\ m \in entitled
    /\ Needed(m, active) > 1 => m \notin Signers
    /\ more' = [more EXCEPT ![m] = Cardinality(Signers) + 1 < Needed(m, active)]
    /\ pc' = [pc EXCEPT ![m] = "authorized"]
    /\ UNCHANGED <<status, policyVars, signVars, readStatus, seen, gateVars>>

\* sign, up to its transaction: the version the signature will carry is read.
SignReads(m) ==
    /\ pc[m] = "authorized"
    /\ seen' = [seen EXCEPT ![m] = active]
    /\ pc' = [pc EXCEPT ![m] = "signing"]
    /\ UNCHANGED <<status, policyVars, signVars, readStatus, more, gateVars>>

\* Mutant: a second signature replaces the first (ON CONFLICT DO UPDATE).
Sign_Replaces(m) ==
    /\ pc[m] = "signing"
    /\ signed' = [signed EXCEPT ![m] = seen[m]]
    /\ pc' = [pc EXCEPT ![m] = "signed"]
    /\ UNCHANGED <<status, policyVars, stale, readStatus, more, seen, gateVars>>

\* sign, its transaction: one signature per member and intent, whatever the
\* status of the intent has become.
Sign(m) ==
    /\ pc[m] = "signing"
    /\ signed[m] = 0
    /\ signed' = [signed EXCEPT ![m] = seen[m]]
    /\ pc' = [pc EXCEPT ![m] = "signed"]
    /\ UNCHANGED <<status, policyVars, stale, readStatus, more, seen, gateVars>>

ApproveEnds(m) ==
    /\ pc' = [pc EXCEPT ![m] = "idle"]
    /\ readStatus' = [readStatus EXCEPT ![m] = "none"]
    /\ more' = [more EXCEPT ![m] = FALSE]
    /\ seen' = [seen EXCEPT ![m] = 0]

\* The status approve moves the intent from.
ExpectedStatus(m) == IF more[m] THEN "pending_approval" ELSE readStatus[m]

\* Mutant: the transition does not look at the status it leaves.
Advance_Unconditional(m) ==
    /\ pc[m] = "signed"
    /\ status' = IF more[m] THEN "awaiting_second_approval" ELSE "approved"
    /\ ApproveEnds(m)
    /\ UNCHANGED <<policyVars, signVars, gateVars>>

\* The intent moves on: to await a further approval, from pending_approval only,
\* or to approved, from the status that was read.
Advance(m) ==
    /\ pc[m] = "signed"
    /\ status = ExpectedStatus(m)
    /\ status' = IF more[m] THEN "awaiting_second_approval" ELSE "approved"
    /\ ApproveEnds(m)
    /\ UNCHANGED <<policyVars, signVars, gateVars>>

\* The request throws: the member may not approve, has signed already, or the
\* intent moved on since it was read.  A signature once stored stays.
ApproveThrows(m) ==
    /\ \/ pc[m] = "read" /\ (m \notin entitled \/ (Needed(m, active) > 1 /\ m \in Signers))
       \/ pc[m] = "signing" /\ signed[m] # 0
       \/ pc[m] = "signed" /\ status # ExpectedStatus(m)
    /\ ApproveEnds(m)
    /\ UNCHANGED <<status, policyVars, signVars, gateVars>>

\* The process dies or a call it makes fails.
ApproveAbandoned(m) ==
    /\ MayAbandon
    /\ pc[m] # "idle"
    /\ ApproveEnds(m)
    /\ UNCHANGED <<status, policyVars, signVars, gateVars>>

----------------------------------------------------------------------------
(* execute and resume: read the intent, run the gate, move the intent.      *)

GateReads(g) ==
    /\ gpc[g] = "idle"
    /\ \/ status = "approved" /\ goal' = [goal EXCEPT ![g] = "execute"]
       \/ status = "paused" /\ goal' = [goal EXCEPT ![g] = "resume"]
    /\ gpc' = [gpc EXCEPT ![g] = "read"]
    /\ UNCHANGED <<status, policyVars, signVars, approveVars, gver>>

GateEvaluates(g) ==
    /\ gpc[g] = "read"
    /\ gver' = [gver EXCEPT ![g] = active]
    /\ gpc' = [gpc EXCEPT ![g] = "evaluated"]
    /\ UNCHANGED <<status, policyVars, signVars, approveVars, goal>>

GateEnds(g) ==
    /\ gpc' = [gpc EXCEPT ![g] = "idle"]
    /\ goal' = [goal EXCEPT ![g] = "execute"]
    /\ gver' = [gver EXCEPT ![g] = 0]

\* signedValidRoles: where approvals are needed, the signatures that carry another
\* version than the evaluated one are marked stale, and the rest are counted.
GateCounts(g) ==
    /\ gpc[g] = "evaluated"
    /\ stale' = IF NeedsApproval(gver[g])
                  THEN stale \cup {m \in Members : signed[m] \notin {0, gver[g]}}
                  ELSE stale
    /\ IF GatePasses(gver[g])
         THEN gpc' = [gpc EXCEPT ![g] = "passed"] /\ UNCHANGED <<goal, gver>>
         ELSE GateEnds(g)
    /\ UNCHANGED <<status, policyVars, signed, approveVars>>

\* The transition after the gate: approved -> dispatching or paused -> approved.
GateMoves(g) ==
    /\ gpc[g] = "passed"
    /\ \/ goal[g] = "execute" /\ status = "approved" /\ status' = "dispatching"
       \/ goal[g] = "resume" /\ status = "paused" /\ status' = "approved"
    /\ GateEnds(g)
    /\ UNCHANGED <<policyVars, signVars, approveVars>>

\* Another check of the gate fails, the intent moved, or the process dies.
GateAbandoned(g) ==
    /\ gpc[g] # "idle"
    /\ GateEnds(g)
    /\ UNCHANGED <<status, policyVars, signVars, approveVars>>

----------------------------------------------------------------------------
(* Requests of one step, and the tenant's administration.                   *)

Reject ==
    /\ status \in Open \cup {"approved"}
    /\ status' = "rejected"
    /\ UNCHANGED <<policyVars, signVars, approveVars, gateVars>>

Cancel ==
    /\ status = "pending_approval"
    /\ status' = "cancelled"
    /\ UNCHANGED <<policyVars, signVars, approveVars, gateVars>>

\* pause, and haltAgent for the intents of the agent.
Pause ==
    /\ status = "approved"
    /\ status' = "paused"
    /\ UNCHANGED <<policyVars, signVars, approveVars, gateVars>>

\* A signed policy becomes active and the active one is deactivated for good.
Activate(v) ==
    /\ v \notin activated
    /\ active' = v
    /\ activated' = activated \cup {v}
    /\ UNCHANGED <<status, entitled, signVars, approveVars, gateVars>>

\* A member is deactivated, restored, or given other domains or limits; changes of
\* role or of the second-approver threshold are left out.
ChangeMember(m) ==
    /\ entitled' = IF m \in entitled THEN entitled \ {m} ELSE entitled \cup {m}
    /\ UNCHANGED <<status, active, activated, signVars, approveVars, gateVars>>

Next ==
    \/ \E m \in Members :
         \/ ApproveReads(m) \/ Authorize(m) \/ SignReads(m) \/ Sign(m) \/ Advance(m)
         \/ ApproveThrows(m) \/ ApproveAbandoned(m) \/ ChangeMember(m)
    \/ \E g \in Gates :
         GateReads(g) \/ GateEvaluates(g) \/ GateCounts(g) \/ GateMoves(g) \/ GateAbandoned(g)
    \/ Reject \/ Cancel \/ Pause
    \/ \E v \in Versions : Activate(v)

Spec == Init /\ [][Next]_vars
----------------------------------------------------------------------------

Statuses == Open \cup {"approved", "paused", "dispatching", "rejected", "cancelled"}

TypeOK ==
    /\ status \in Statuses
    /\ active \in Versions
    /\ activated \in SUBSET Versions
    /\ entitled \in SUBSET Members
    /\ signed \in [Members -> Versions \cup {0}]
    /\ stale \in SUBSET Signers
    /\ pc \in [Members -> {"idle", "read", "authorized", "signing", "signed"}]
    /\ readStatus \in [Members -> Open \cup {"none"}]
    /\ more \in [Members -> BOOLEAN]
    /\ seen \in [Members -> Versions \cup {0}]
    /\ gpc \in [Gates -> {"idle", "read", "evaluated", "passed"}]
    /\ goal \in [Gates -> {"execute", "resume"}]
    /\ gver \in [Gates -> Versions \cup {0}]

\* Every slot of the version has a member of S of its own, who has the slot's role.
FilledBy(S, v) ==
    \E f \in [DOMAIN Required[v] -> S] :
        /\ \A j, k \in DOMAIN Required[v] : f[j] = f[k] => j = k
        /\ \A k \in DOMAIN Required[v] : Required[v][k] \in {"signer", RoleOf[f[k]]}

\* Those who signed under the version fill its slots.
SlotsFilled(v) == FilledBy({m \in Members : signed[m] = v}, v)

\* No intent reaches the outbox without its approvals: as many different members
\* as some policy version in force asked for have signed under that version, each
\* in a role it asked for, whatever was signed, staled, re-approved, paused and
\* resumed in between (signedValidRoles, hasRequiredRoleQuorum, gate check 11).
HandoffHasQuorum ==
    status = "dispatching" =>
        \E v \in activated :
            /\ Outcome[v] # "reject"
            /\ SlotsFilled(v)
            /\ HardFloor(v) => v \in {signed[m] : m \in Members}

\* Dual control: an intent is approved once as many members have signed as the
\* policy asks for, or two where a signer's own threshold demands it; concurrent,
\* repeated and failed approve requests do not shorten the way (authorizeApproval,
\* sign).
ApprovedByEnough ==
    [][(status \in Open /\ status' = "approved") =>
          \E m \in Signers : \E v \in activated : Cardinality(Signers) >= Needed(m, v)]_vars

\* A decision is final: what was rejected, cancelled or handed off stays so, and a
\* decided intent is not opened again, however late an approve, resume or execute
\* request moves it.
DecisionIsFinal ==
    [][/\ status \in {"rejected", "cancelled", "dispatching"} => status' = status
       /\ status' \in Open => status \in Open]_vars

\* The sets of signers that are enough for approve, and for the gate.
EnoughFor == [v \in Versions |->
    {S \in SUBSET Members : \E m \in S : Cardinality(S) >= Needed(m, v)}]

QuorumFor == [v \in Versions |->
    {S \in SUBSET Members : /\ Outcome[v] # "reject"
                            /\ FilledBy(S, v)
                            /\ HardFloor(v) => S # {}}]

Approval == INSTANCE ApprovalByQuorum WITH Enough <- EnoughFor, Quorum <- QuorumFor

\* Whatever the requests read and await, together they do what ApprovalByQuorum does
\* in single steps: a member's one signature is never replaced, an approval rests on
\* enough signers, and every hand-off and every resume on a quorum of a version that
\* was in force (approve, sign, execute, resume, reject, cancel and pause at once).
ImplementsApproval == Approval!Spec

\* "Distinct second approver signed: awaiting_second_approval -> approved"
\* (protocol/payment-intents.md): when two approve requests overlap, the later one
\* finds the intent moved and throws, its signature stored; neither signer can sign
\* again, and the intent waits for a third.
SecondSignatureApproves ==
    status = "awaiting_second_approval" /\ (\A m \in Members : pc[m] = "idle")
        => Cardinality(Signers) < PolicyNeeds(active)

\* "A distinct second member's approval clears it for dispatch"
\* (api-reference/proposals-api.md): approve counts the members who signed, the gate
\* the roles they signed in, so two members of one role approve an intent that no gate
\* of the same policy lets through, and an approved intent cannot be signed any more.
ApprovedPassesGate ==
    status = "approved" /\ activated = {active} => GatePasses(active)

=============================================================================
