---------------------- MODULE ApprovalPromises_proofs ----------------------
(***************************************************************************)
(* Two promises of the documentation that IntentApproval does not keep in  *)
(* general (SecondSignatureApproves, ApprovedPassesGate), proved under the *)
(* conditions in which the code does keep them.                            *)
(***************************************************************************)
EXTENDS IntentApproval_proofs

----------------------------------------------------------------------------
(* A second signature approves where approve requests do not overlap.       *)

\* At most one member's approve request is on its way.
Sequential == \A m, n \in Members : pc[m] # "idle" /\ pc[n] # "idle" => m = n

\* No approve request fails or dies between its steps, no member has a threshold of
\* their own, and whatever version is in force asks for the same number of approvals.
Plain ==
    /\ ~MayAbandon
    /\ DualControl = {}
    /\ \A v, w \in Versions : PolicyNeeds(v) = PolicyNeeds(w)

\* What a request that runs alone knows: the status is the one it read, and if it
\* found that a further approval is needed, its own signature leaves room for one.
\* An intent that waits does so for want of signatures, unless the request that
\* brought the last one is about to approve it.
AloneInv ==
    /\ EnoughInv
    /\ \A m \in Members :
         /\ pc[m] # "idle" /\ status \in Open => status = readStatus[m]
         /\ pc[m] \in {"authorized", "signing"} /\ more[m]
              => Cardinality(Signers) + 1 < PolicyNeeds(active)
         /\ pc[m] = "signed" /\ more[m] => Cardinality(Signers) < PolicyNeeds(active)
    /\ status = "awaiting_second_approval" /\ (\A m \in Members : pc[m] = "signed" => more[m])
         => Cardinality(Signers) < PolicyNeeds(active)

\* One step of the only approve request keeps AloneInv.
LEMMA AloneApproves ==
  ASSUME Plain, AloneInv, EnoughInv', Sequential, NEW m \in Members,
         \/ ApproveReads(m) \/ Authorize(m) \/ SignReads(m) \/ Sign(m) \/ Advance(m)
         \/ ApproveThrows(m) \/ ApproveAbandoned(m)
  PROVE  AloneInv'
<1> DEFINE k == Cardinality(Signers)
           need == PolicyNeeds(active)
<1>a. TypeOK /\ active \in Versions /\ k \in Nat /\ need \in Nat
  <2>1. TypeOK /\ active \in Versions
    BY DEF AloneInv, EnoughInv, TypeOK
  <2>2. need \in Nat
    BY <2>1, PolicyAssumption DEF PolicyNeeds, AtLeast
  <2> QED BY <2>1, <2>2, SignersCount
<1>b. UNCHANGED active
  BY DEF ApproveReads, Authorize, SignReads, Sign, Advance, ApproveThrows, ApproveAbandoned,
         policyVars
<1>c. need' = need
  BY <1>b DEF PolicyNeeds
<1>d. UNCHANGED signed => k' = k
  BY DEF Signers
<1>e. \A n \in Members : n # m => /\ pc'[n] = pc[n] /\ more'[n] = more[n]
                                  /\ readStatus'[n] = readStatus[n]
  BY <1>a DEF TypeOK, ApproveReads, Authorize, SignReads, Sign, Advance, ApproveThrows,
              ApproveAbandoned, ApproveEnds
<1>1. CASE ApproveReads(m)
  <2>1. /\ pc[m] = "idle" /\ pc'[m] = "read" /\ readStatus'[m] = status
        /\ UNCHANGED <<status, signed>>
    BY <1>1, <1>a DEF ApproveReads, TypeOK, signVars
  <2> HIDE DEF k, need
  <2>2. k' = k
    BY <2>1, <1>d
  <2> QED BY <2>1, <2>2, <1>c, <1>e DEF AloneInv, k, need
<1>2. CASE Authorize(m)
  <2>1. /\ pc[m] = "read" /\ pc'[m] = "authorized" /\ readStatus'[m] = readStatus[m]
        /\ more'[m] = (k + 1 < need)
        /\ UNCHANGED <<status, signed>>
    BY <1>2, <1>a DEF Authorize, TypeOK, signVars, Plain, Needed
  <2> HIDE DEF k, need
  <2>2. k' = k
    BY <2>1, <1>d
  <2> QED BY <2>1, <2>2, <1>c, <1>e DEF AloneInv, k, need
<1>3. CASE SignReads(m)
  <2>1. /\ pc[m] = "authorized" /\ pc'[m] = "signing" /\ readStatus'[m] = readStatus[m]
        /\ more'[m] = more[m]
        /\ UNCHANGED <<status, signed>>
    BY <1>3, <1>a DEF SignReads, TypeOK, signVars
  <2> HIDE DEF k, need
  <2>2. k' = k
    BY <2>1, <1>d
  <2> QED BY <2>1, <2>2, <1>c, <1>e DEF AloneInv, k, need
<1>4. CASE Sign(m)
  <2>1. /\ pc[m] = "signing" /\ pc'[m] = "signed" /\ readStatus'[m] = readStatus[m]
        /\ more'[m] = more[m] /\ UNCHANGED status
    BY <1>4, <1>a DEF Sign, TypeOK
  <2>2. k' <= k + 1 /\ k' \in Nat
    <3>1. Signers' \subseteq Signers \cup {m}
      BY <1>4, <1>a DEF Sign, TypeOK, Signers
    <3>2. IsFiniteSet(Signers \cup {m}) /\ Cardinality(Signers \cup {m}) <= k + 1
      <4>1. IsFiniteSet(Signers)
        BY SignersCount
      <4>2. /\ IsFiniteSet(Signers \cup {m})
            /\ Cardinality(Signers \cup {m})
                 = IF m \in Signers THEN Cardinality(Signers) ELSE Cardinality(Signers) + 1
        BY <4>1, FS_AddElement
      <4> QED BY <4>2, <1>a
    <3>3. Cardinality(Signers \cup {m}) \in Nat
      BY <3>2, FS_CardinalityType
    <3> QED BY <3>1, <3>2, <3>3, <1>a, FS_Subset, FS_CardinalityType
  <2>3. \A n \in Members : n # m => pc[n] = "idle"
    BY <2>1 DEF Sequential
  <2>4. k' < need' \/ ~more'[m]
    <3> HIDE DEF k, need
    <3>1. more[m] => k + 1 < need
      BY <2>1 DEF AloneInv, k, need
    <3> QED BY <3>1, <2>1, <2>2, <1>a, <1>c
  <2> HIDE DEF k, need
  <2> QED BY <2>1, <2>3, <2>4, <1>e DEF AloneInv, k, need
<1>5. CASE Advance(m)
  <2>1. /\ pc[m] = "signed" /\ pc'[m] = "idle" /\ UNCHANGED signed
        /\ status' = IF more[m] THEN "awaiting_second_approval" ELSE "approved"
    BY <1>5, <1>a DEF Advance, ApproveEnds, TypeOK, signVars
  <2>2. \A n \in Members : pc'[n] = "idle"
    BY <2>1, <1>e DEF Sequential
  <2> HIDE DEF k, need
  <2>3. k' = k
    BY <2>1, <1>d
  <2>4. more[m] => k < need
    BY <2>1 DEF AloneInv, k, need
  <2> QED BY <2>1, <2>2, <2>3, <2>4, <1>c DEF AloneInv, k, need
<1>6. CASE ApproveThrows(m) \/ ApproveAbandoned(m)
  <2>1. /\ ApproveThrows(m) /\ pc[m] # "idle" /\ pc'[m] = "idle"
        /\ UNCHANGED <<status, signed>>
    BY <1>6, <1>a DEF Plain, ApproveThrows, ApproveAbandoned, ApproveEnds, TypeOK, signVars
  <2>2. \A n \in Members : n # m => pc[n] = "idle"
    BY <2>1 DEF Sequential
  <2>3. status = "awaiting_second_approval" /\ pc[m] = "signed" => more[m]
    <3>1. status \in Open => status = readStatus[m]
      BY <2>1 DEF AloneInv
    <3>2. pc[m] = "signed" => status # ExpectedStatus(m)
      BY <2>1 DEF ApproveThrows
    <3> QED BY <3>1, <3>2 DEF ExpectedStatus, Open
  <2> HIDE DEF k, need
  <2>4. k' = k
    BY <2>1, <1>d
  <2>5. status = "awaiting_second_approval" => k < need
    BY <2>2, <2>3 DEF AloneInv, k, need
  <2> QED BY <2>1, <2>2, <2>4, <2>5, <1>c, <1>e DEF AloneInv, k, need
<1> QED BY <1>1, <1>2, <1>3, <1>4, <1>5, <1>6

\* Every step keeps AloneInv while approve requests do not overlap.
LEMMA AloneInductive ==
  ASSUME Plain, AloneInv, Sequential, [Next]_vars
  PROVE  AloneInv'
<1>a. EnoughInv' /\ TypeOK /\ TypeOK'
  BY EnoughInductive DEF AloneInv, EnoughInv
<1>1. ASSUME NEW m \in Members,
             \/ ApproveReads(m) \/ Authorize(m) \/ SignReads(m) \/ Sign(m) \/ Advance(m)
             \/ ApproveThrows(m) \/ ApproveAbandoned(m)
      PROVE  AloneInv'
  BY <1>1, <1>a, AloneApproves
<1>2. ASSUME UNCHANGED <<pc, readStatus, more, signed>>, status' \in Open => status' = status,
             PolicyNeeds(active)' = PolicyNeeds(active)
      PROVE  AloneInv'
  <2>1. Cardinality(Signers)' = Cardinality(Signers)
    BY <1>2 DEF Signers
  <2>2. status' = "awaiting_second_approval" => status = status'
    BY <1>2 DEF Open
  <2> QED BY <1>2, <1>a, <2>1, <2>2 DEF AloneInv
<1>3. PolicyNeeds(active)' = PolicyNeeds(active)
  <2>1. active \in Versions /\ active' \in Versions
    BY <1>a DEF TypeOK
  <2> QED BY <2>1 DEF Plain, PolicyNeeds
<1>4. CASE UNCHANGED vars
  BY <1>4, <1>2, <1>3 DEF vars, approveVars, signVars
<1>5. ASSUME NEW g \in Gates,
             \/ GateReads(g) \/ GateEvaluates(g) \/ GateCounts(g) \/ GateMoves(g)
             \/ GateAbandoned(g)
      PROVE  AloneInv'
  <2>1. UNCHANGED <<pc, readStatus, more, signed>> /\ (status' \in Open => status' = status)
    BY <1>5 DEF GateReads, GateEvaluates, GateCounts, GateMoves, GateAbandoned, approveVars,
                signVars, Open
  <2> QED BY <2>1, <1>2, <1>3
<1>6. CASE \/ Reject \/ Cancel \/ Pause \/ \E v \in Versions : Activate(v)
           \/ \E n \in Members : ChangeMember(n)
  <2>1. UNCHANGED <<pc, readStatus, more, signed>> /\ (status' \in Open => status' = status)
    BY <1>6 DEF Reject, Cancel, Pause, Activate, ChangeMember, approveVars, signVars, Open
  <2> QED BY <2>1, <1>2, <1>3
<1> QED BY <1>1, <1>4, <1>5, <1>6 DEF Next

\* The signature that completes the number the policy asks for approves the intent,
\* for any number of members and approvals, as long as approve requests neither
\* overlap nor die on the way; gates, administration and policy changes may interleave.
THEOREM SequentialSignaturesApprove ==
  ASSUME Plain
  PROVE  Spec /\ []Sequential => []SecondSignatureApproves
<1>1. Init => AloneInv
  <2> SUFFICES ASSUME Init PROVE AloneInv
    OBVIOUS
  <2>1. EnoughInv
    BY InitTypeOK DEF Init, EnoughInv, RequestInv
  <2> QED BY <2>1 DEF Init, AloneInv
<1>2. AloneInv /\ Sequential /\ [Next]_vars => AloneInv'
  BY AloneInductive
<1>3. AloneInv => SecondSignatureApproves
  BY DEF AloneInv, SecondSignatureApproves
<1> QED BY <1>1, <1>2, <1>3, PTL DEF Spec

----------------------------------------------------------------------------
(* An approved intent passes the gate where roles do not matter.            *)

\* However the members who sign are chosen, as many as the version asks for fill its
\* slots by their roles.
AnyoneFits(v) ==
    \A S \in SUBSET Members :
        Cardinality(S) >= PolicyNeeds(v) => RoleQuorum(Required[v], {RoleOf[m] : m \in S})

\* While one policy has been in force all signatures carry it and none is stale, and
\* an intent that left approval has enough of them.
OneVersionInv ==
    activated = {active} =>
        /\ Outcome[active] # "reject"
        /\ stale = {}
        /\ \A m \in Members : signed[m] \in {0, active}
        /\ status \in {"approved", "paused"} /\ NeedsApproval(active) =>
              \E m \in Signers : Cardinality(Signers) >= Needed(m, active)

\* No step but an activation changes what was activated, and an activation leaves
\* more than one version activated.
LEMMA OneVersionBefore ==
  ASSUME EnoughInv, [Next]_vars, activated' = {active'}
  PROVE  activated = {active} /\ active' = active
<1>1. ASSUME NEW v \in Versions, Activate(v) PROVE FALSE
  BY <1>1 DEF Activate, EnoughInv
<1>2. UNCHANGED <<active, activated>>
  BY <1>1 DEF Next, vars, policyVars, ApproveReads, Authorize, SignReads, Sign, Advance,
         ApproveThrows, ApproveAbandoned, ChangeMember, GateReads, GateEvaluates, GateCounts,
         GateMoves, GateAbandoned, Reject, Cancel, Pause
<1> QED BY <1>2

\* An intent becomes approved by enough signers under the one version.
LEMMA ApprovedUnderOne ==
  ASSUME EnoughInv, NEW m \in Members, Advance(m), status' = "approved", activated = {active}
  PROVE  m \in Signers /\ Cardinality(Signers) >= Needed(m, active)
<1>1. pc[m] = "signed" /\ ~more[m]
  BY DEF Advance, EnoughInv, TypeOK
<1>2. m \in Signers /\ Sufficient(m)
  BY <1>1 DEF EnoughInv, RequestInv
<1>3. Needed(m, active) <= Cardinality(Signers \ {m}) + 1
  BY <1>2 DEF Sufficient
<1>4. Needed(m, active) \in Nat
  BY NeededIsPositive DEF EnoughInv, TypeOK
<1> QED BY <1>2, <1>3, <1>4, SignersCount

\* Every step keeps OneVersionInv.
LEMMA OneVersionInductive ==
  ASSUME EnoughInv, QuorumInv, OneVersionInv, [Next]_vars
  PROVE  OneVersionInv'
<1> SUFFICES ASSUME activated' = {active'}
             PROVE  /\ (Outcome[active] # "reject")'
                    /\ (stale = {})'
                    /\ (\A m \in Members : signed[m] \in {0, active})'
                    /\ (status \in {"approved", "paused"} /\ NeedsApproval(active) =>
                          \E m \in Signers : Cardinality(Signers) >= Needed(m, active))'
  BY DEF OneVersionInv
<1>a. activated = {active} /\ active' = active /\ TypeOK
  BY OneVersionBefore DEF EnoughInv
<1>b. /\ Outcome[active] # "reject" /\ stale = {}
      /\ \A m \in Members : signed[m] \in {0, active}
      /\ status \in {"approved", "paused"} /\ NeedsApproval(active) =>
            \E m \in Signers : Cardinality(Signers) >= Needed(m, active)
  BY <1>a DEF OneVersionInv
<1>1. stale' = {} /\ \A m \in Members : signed'[m] \in {0, active'}
  <2>1. ASSUME NEW m \in Members, Sign(m) PROVE UNCHANGED stale /\ signed' = [signed EXCEPT ![m] = active]
    BY <2>1, <1>a DEF Sign, EnoughInv, RequestInv
  <2>2. ASSUME NEW g \in Gates, GateCounts(g) PROVE UNCHANGED signed /\ stale' = {}
    <3>1. gver[g] = active
      BY <2>2, <1>a DEF GateCounts, QuorumInv
    <3> QED BY <3>1, <2>2, <1>b DEF GateCounts
  <2>3. \/ UNCHANGED <<signed, stale>>
        \/ \E m \in Members : Sign(m)
        \/ \E g \in Gates : GateCounts(g)
    BY DEF Next, vars, signVars, ApproveReads, Authorize, SignReads, Advance,
         ApproveThrows, ApproveAbandoned, ChangeMember, GateReads, GateEvaluates,
         GateMoves, GateAbandoned, Reject, Cancel, Pause, Activate
  <2> QED BY <2>1, <2>2, <2>3, <1>a, <1>b DEF TypeOK
<1>2. ASSUME status' \in {"approved", "paused"}, NeedsApproval(active)'
      PROVE  (\E m \in Signers : Cardinality(Signers) >= Needed(m, active))'
  <2>1. PICK m \in Signers : Cardinality(Signers) >= Needed(m, active)
    <3>1. CASE status \in {"approved", "paused"}
      BY <3>1, <1>2, <1>a, <1>b DEF NeedsApproval, HardFloor
    <3>2. CASE status \notin {"approved", "paused"}
      <4>1. PICK m \in Members : Advance(m) /\ status' = "approved"
        BY <1>2, <3>2 DEF Next, vars, ApproveReads, Authorize, SignReads, Sign, Advance,
           ApproveThrows, ApproveAbandoned, ChangeMember, GateReads, GateEvaluates, GateCounts,
           GateMoves, GateAbandoned, Reject, Cancel, Pause, Activate
      <4> QED BY <4>1, <1>a, ApprovedUnderOne
    <3> QED BY <3>1, <3>2
  <2>2. m \in Signers' /\ Signers \subseteq Signers'
    BY <1>a, <2>1, SignaturesStay DEF Signers
  <2>3. IsFiniteSet(Signers')
    BY PolicyAssumption, FS_Subset DEF Signers
  <2>4. Cardinality(Signers) <= Cardinality(Signers') /\ Cardinality(Signers) \in Nat
        /\ Cardinality(Signers') \in Nat
    BY <2>2, <2>3, FS_Subset, FS_CardinalityType
  <2>5. m \in Members /\ Needed(m, active) \in Nat
    BY <2>1, <1>a, NeededIsPositive DEF Signers, TypeOK
  <2>6. Needed(m, active)' = Needed(m, active)
    BY <1>a DEF Needed, PolicyNeeds
  <2>7. Cardinality(Signers') >= Needed(m, active)'
    BY <2>1, <2>4, <2>5, <2>6
  <2> QED BY <2>2, <2>7
<1> QED BY <1>a, <1>b, <1>1, <1>2

\* Approve counts members and the gate counts roles, so they agree where the policies
\* leave roles no say: then an approved intent whose policy was never replaced passes
\* the approval checks of the gate, for any number of members and requests at once.
THEOREM ApprovedPassesWhereAnyoneFits ==
  ASSUME \A v \in Versions : Outcome[v] = "confirm" => AnyoneFits(v)
  PROVE  Spec => []ApprovedPassesGate
<1>1. Init => EnoughInv /\ QuorumInv /\ OneVersionInv
  <2> SUFFICES ASSUME Init PROVE EnoughInv /\ QuorumInv /\ OneVersionInv
    OBVIOUS
  <2>1. EnoughInv /\ QuorumInv
    BY InitTypeOK DEF Init, EnoughInv, RequestInv, QuorumInv
  <2>2. status \in {"approved", "paused"} => ~NeedsApproval(active)
    BY DEF Init
  <2> QED BY <2>1, <2>2 DEF Init, OneVersionInv
<1>2. EnoughInv /\ QuorumInv /\ OneVersionInv /\ [Next]_vars
        => EnoughInv' /\ QuorumInv' /\ OneVersionInv'
  BY EnoughInductive, QuorumInductive, OneVersionInductive
<1>3. EnoughInv /\ OneVersionInv => ApprovedPassesGate
  <2> SUFFICES ASSUME EnoughInv, OneVersionInv, status = "approved", activated = {active}
               PROVE  GatePasses(active)
    BY DEF ApprovedPassesGate
  <2>1. active \in Versions /\ 0 \notin Versions
    BY PolicyAssumption DEF EnoughInv, TypeOK
  <2>2. Outcome[active] # "reject" /\ Valid(active) = Signers
    BY <2>1 DEF OneVersionInv, Valid, Signers
  <2>3. CASE NeedsApproval(active)
    <3>1. PICK m \in Signers : Cardinality(Signers) >= Needed(m, active)
      BY <2>3 DEF OneVersionInv
    <3>2. Cardinality(Signers) >= PolicyNeeds(active)
      <4>1. m \in Members
        BY <3>1 DEF Signers
      <4>2. PolicyNeeds(active) \in Nat /\ Cardinality(Signers) \in Nat
        <5>1. Len(Required[active]) \in Nat
          BY <2>1, PolicyAssumption
        <5> QED BY <4>1, <5>1, SignersCount DEF PolicyNeeds, AtLeast
      <4>3. Needed(m, active) >= PolicyNeeds(active)
        BY <4>2 DEF Needed, AtLeast
      <4>4. Needed(m, active) \in Nat
        BY <2>1, <4>1, NeededIsPositive
      <4> QED BY <3>1, <4>2, <4>3, <4>4
    <3>3. Signers \in SUBSET Members
      BY DEF Signers
    <3>4. Outcome[active] = "confirm" =>
            RoleQuorum(Required[active], {RoleOf[n] : n \in Valid(active)})
      BY <2>1, <2>2, <3>2, <3>3 DEF AnyoneFits
    <3> QED BY <2>2, <3>1, <3>4 DEF GatePasses
  <2>4. CASE ~NeedsApproval(active)
    BY <2>2, <2>4 DEF GatePasses, NeedsApproval
  <2> QED BY <2>3, <2>4
<1> QED BY <1>1, <1>2, <1>3, PTL DEF Spec

=============================================================================
