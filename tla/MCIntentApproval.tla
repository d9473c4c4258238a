-------------------------- MODULE MCIntentApproval --------------------------
(* Instances of IntentApproval for TLC. *)
EXTENDS IntentApproval, TLC

CONSTANTS m1, m2, g1, g2

\* An admin and an approver.
TwoRoles == (m1 :> "admin") @@ (m2 :> "approver")

\* The first version asks for an admin and one more signer, the second for no
\* one, above a hard floor, and the third for an approver.
ThreeOutcomes == (1 :> "confirm") @@ (2 :> "allow") @@ (3 :> "confirm")
ThreeRequired == (1 :> <<"admin", "signer">>) @@ (2 :> <<>>) @@ (3 :> <<"approver">>)

\* One version, which asks for two signers.
OneOutcome == 1 :> "confirm"
OneRequired == 1 :> <<"admin", "signer">>

\* Two admins, under a version that asks for an admin and an approver.
TwoAdmins == (m1 :> "admin") @@ (m2 :> "admin")
AdminAndApprover == 1 :> <<"admin", "approver">>
=============================================================================
