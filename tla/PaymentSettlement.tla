------------------------- MODULE PaymentSettlement -------------------------
(***************************************************************************)
(* What the execution path promises the ledger, whatever the workers, the  *)
(* rails and the crashes do: a payment leaves the open phase once, either  *)
(* withdrawn or committed; a committed payment is settled or failed, never *)
(* both; it is posted at most once, exactly when it settles; and its hold  *)
(* on the source account lives exactly as long as it is committed, ending  *)
(* consumed with the settlement or released with the failure.              *)
(***************************************************************************)
EXTENDS Naturals

CONSTANTS
    Payments,  \* the payments of a tenant
    Holding    \* those that hold funds on the source account

VARIABLES phase, hold, posted

settlementVars == <<phase, hold, posted>>

Start ==
    /\ phase = [p \in Payments |-> "open"]
    /\ hold = [p \in Payments |-> "none"]
    /\ posted = [p \in Payments |-> 0]

Withdraw(p) ==
    /\ phase[p] = "open"
    /\ phase' = [phase EXCEPT ![p] = "withdrawn"]
    /\ UNCHANGED <<hold, posted>>

Commit(p) ==
    /\ phase[p] = "open"
    /\ phase' = [phase EXCEPT ![p] = "committed"]
    /\ hold' = [hold EXCEPT ![p] = IF p \in Holding THEN "active" ELSE "none"]
    /\ UNCHANGED posted

Post(p) ==
    /\ phase[p] = "committed"
    /\ phase' = [phase EXCEPT ![p] = "settled"]
    /\ hold' = [hold EXCEPT ![p] = IF p \in Holding THEN "consumed" ELSE "none"]
    /\ posted' = [posted EXCEPT ![p] = 1]

Fail(p) ==
    /\ phase[p] = "committed"
    /\ phase' = [phase EXCEPT ![p] = "failed"]
    /\ hold' = [hold EXCEPT ![p] = IF p \in Holding THEN "released" ELSE "none"]
    /\ UNCHANGED posted

Advance == \E p \in Payments : Withdraw(p) \/ Commit(p) \/ Post(p) \/ Fail(p)

Spec == Start /\ [][Advance]_settlementVars

=============================================================================
