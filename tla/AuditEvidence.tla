--------------------------- MODULE AuditEvidence ---------------------------
(***************************************************************************)
(* What an audit log that is anchored on chain promises of each event: it  *)
(* is logged, then it is a leaf of a stored Merkle root, then that root is *)
(* on chain.  No stage is skipped and none is ever taken back.             *)
(***************************************************************************)
CONSTANT Events

VARIABLE evidence

Stages == {"none", "logged", "anchored", "published"}

\* The stages an event may be in one step later.
Onward(s) ==
    CASE s = "none"      -> {"none", "logged"}
      [] s = "logged"    -> {"logged", "anchored"}
      [] s = "anchored"  -> {"anchored", "published"}
      [] s = "published" -> {"published"}

Init == evidence = [e \in Events |-> "none"]

\* A root takes many events a stage further at once.
Next ==
    /\ evidence' \in [Events -> Stages]
    /\ \A e \in Events : evidence'[e] \in Onward(evidence[e])

Spec == Init /\ [][Next]_evidence
=============================================================================
