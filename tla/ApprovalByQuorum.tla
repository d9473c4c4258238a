-------------------------- MODULE ApprovalByQuorum --------------------------
(***************************************************************************)
(* What the approval of a payment promises, told without its requests: a   *)
(* member signs once, under a policy version that was in force; the        *)
(* payment is approved once the signers are enough for such a version; and *)
(* it is handed off, or resumed after a pause, only while the signatures   *)
(* under one such version are a quorum of it.  A signature outlives every  *)
(* change of policy; a rejection, a withdrawal and a hand-off are final.   *)
(***************************************************************************)
EXTENDS Naturals

CONSTANTS
    Members,  \* who may sign
    Versions, \* the policy versions
    Enough,   \* for each version, the sets of signers that approve the payment
    Quorum    \* for each version, the sets of signers that let it go

VARIABLES status, signed, activated

approvalVars == <<status, signed, activated>>

Open == {"pending_approval", "awaiting_second_approval"}

Signers == {m \in Members : signed[m] # 0}

\* The payment may go under one of the versions that were in force.
HasQuorum == \E v \in activated : {m \in Members : signed[m] = v} \in Quorum[v]

Start ==
    \E v \in Versions :
        /\ activated = {v}
        /\ signed = [m \in Members |-> 0]
        /\ \/ status = "pending_approval"
           \/ status = "approved" /\ {} \in Quorum[v]

Activate(v) ==
    /\ activated' = activated \cup {v}
    /\ UNCHANGED <<status, signed>>

Sign(m) ==
    /\ signed[m] = 0
    /\ \E v \in activated : signed' = [signed EXCEPT ![m] = v]
    /\ UNCHANGED <<status, activated>>

Await ==
    /\ status = "pending_approval" /\ Signers # {}
    /\ status' = "awaiting_second_approval"
    /\ UNCHANGED <<signed, activated>>

Approve ==
    /\ status \in Open
    /\ \E v \in activated : Signers \in Enough[v]
    /\ status' = "approved"
    /\ UNCHANGED <<signed, activated>>

Pause ==
    /\ status = "approved"
    /\ status' = "paused"
    /\ UNCHANGED <<signed, activated>>

\* The payment goes on to the outbox, or is approved again after a pause.
Go ==
    /\ HasQuorum
    /\ \/ status = "approved" /\ status' = "dispatching"
       \/ status = "paused" /\ status' = "approved"
    /\ UNCHANGED <<signed, activated>>

Withdraw ==
    /\ \/ status \in Open \cup {"approved"} /\ status' = "rejected"
       \/ status = "pending_approval" /\ status' = "cancelled"
    /\ UNCHANGED <<signed, activated>>

Advance ==
    \/ \E v \in Versions : Activate(v)
    \/ \E m \in Members : Sign(m)
    \/ Await \/ Approve \/ Pause \/ Go \/ Withdraw

Spec == Start /\ [][Advance]_approvalVars

=============================================================================
