------------------------- MODULE MCAuditAnchoring -------------------------
(* Instances of AuditAnchoring for TLC. *)
EXTENDS AuditAnchoring, TLC

CONSTANTS e1, e2, e3, k1

Symmetries == Permutations(Events)

NothingAnchored == Anchors = {} /\ \A p \in Publishers : pc[p] = "idle"

\* A transaction is loose, or the reconciler looks at a row.
Repairing == loose # {} \/ orphan # {}

Cutting(p) == pc[p] \in {"cover", "list", "insert"}

\* The chain is checked with three events and a key until time 2, the anchors of
\* two of them without: nothing that is anchored depends on either.  Of the three
\* roots two events can have, two get a row.  Repairs are explored until time 2,
\* one kind at a time and while no window is being cut: they touch no window.
Scenarios ==
    \/ NothingAnchored /\ clock <= 2
    \/ /\ Cardinality(log \cup open) <= 2
       /\ \A e \in Events : keyOf[e] = NoKey
       /\ Cardinality(Anchors) <= 2
       /\ loose = {} \/ orphan = {}
       /\ Repairing => clock <= 2 /\ \A p \in Publishers : ~Cutting(p)

=============================================================================
