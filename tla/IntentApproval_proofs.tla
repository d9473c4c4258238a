------------------------ MODULE IntentApproval_proofs ------------------------
(***************************************************************************)
(* Machine-checked proofs about IntentApproval, for every finite set of    *)
(* members, every set of gates and policy versions, and every policy.      *)
(***************************************************************************)
EXTENDS IntentApproval, FunctionTheorems, FiniteSetTheorems, TLAPS

----------------------------------------------------------------------------
(* Types.                                                                   *)

\* The initial state has the types of TypeOK.
LEMMA InitTypeOK == Init => TypeOK
  BY PolicyAssumption DEF Init, TypeOK, Statuses, Open, Signers

\* A signature, once given, keeps its policy version.
LEMMA SignaturesStay ==
  ASSUME TypeOK, [Next]_vars, NEW m \in Members, signed[m] # 0
  PROVE  signed'[m] = signed[m]
  BY DEF TypeOK, Next, vars, policyVars, signVars, approveVars, gateVars,
         ApproveReads, Authorize, SignReads, Sign, Advance, ApproveThrows,
         ApproveAbandoned, ApproveEnds, ChangeMember, GateReads, GateEvaluates, GateCounts,
         GateMoves, GateAbandoned, GateEnds, Reject, Cancel, Pause, Activate

\* An approve request of a member preserves TypeOK.
LEMMA ApproveTypeOK ==
  ASSUME TypeOK, NEW m \in Members,
         \/ ApproveReads(m) \/ Authorize(m) \/ SignReads(m) \/ Sign(m) \/ Advance(m)
         \/ ApproveThrows(m) \/ ApproveAbandoned(m)
  PROVE  TypeOK'
<1> USE DEF TypeOK, policyVars, signVars, approveVars, gateVars, Signers
<1>1. CASE ApproveReads(m)
  BY <1>1 DEF ApproveReads, Open
<1>2. CASE Authorize(m)
  BY <1>2 DEF Authorize
<1>3. CASE SignReads(m)
  BY <1>3 DEF SignReads
<1>4. CASE Sign(m)
  BY <1>4 DEF Sign
<1>5. CASE Advance(m)
  BY <1>5 DEF Advance, ApproveEnds, Statuses, Open
<1>6. CASE ApproveThrows(m)
  BY <1>6 DEF ApproveThrows, ApproveEnds
<1>7. CASE ApproveAbandoned(m)
  BY <1>7 DEF ApproveAbandoned, ApproveEnds
<1> QED BY <1>1, <1>2, <1>3, <1>4, <1>5, <1>6, <1>7

\* A gate and the transition after it preserve TypeOK.
LEMMA GateTypeOK ==
  ASSUME TypeOK, NEW g \in Gates,
         \/ GateReads(g) \/ GateEvaluates(g) \/ GateCounts(g) \/ GateMoves(g)
         \/ GateAbandoned(g)
  PROVE  TypeOK'
<1> USE DEF TypeOK, policyVars, signVars, approveVars, gateVars, Signers, GateEnds
<1>1. CASE GateReads(g)
  BY <1>1 DEF GateReads
<1>2. CASE GateEvaluates(g)
  BY <1>2 DEF GateEvaluates
<1>3. CASE GateCounts(g)
  BY <1>3 DEF GateCounts
<1>4. CASE GateMoves(g)
  BY <1>4 DEF GateMoves, Statuses
<1>5. CASE GateAbandoned(g)
  BY <1>5 DEF GateAbandoned
<1> QED BY <1>1, <1>2, <1>3, <1>4, <1>5

\* The one-step requests and the administration preserve TypeOK.
LEMMA AdministrationTypeOK ==
  ASSUME TypeOK,
         \/ Reject \/ Cancel \/ Pause
         \/ \E v \in Versions : Activate(v)
         \/ \E m \in Members : ChangeMember(m)
  PROVE  TypeOK'
  BY DEF TypeOK, policyVars, signVars, approveVars, gateVars, Signers, Statuses,
         Reject, Cancel, Pause, Activate, ChangeMember

\* Every step preserves TypeOK.
LEMMA NextTypeOK == TypeOK /\ [Next]_vars => TypeOK'
<1> SUFFICES ASSUME TypeOK, [Next]_vars PROVE TypeOK'
  OBVIOUS
<1>1. CASE UNCHANGED vars
  BY <1>1 DEF TypeOK, vars, policyVars, signVars, approveVars, gateVars, Signers
<1>2. CASE Next
  BY <1>2, ApproveTypeOK, GateTypeOK, AdministrationTypeOK DEF Next
<1> QED BY <1>1, <1>2

\* The steps of every request stay within its variables' types, whatever members,
\* versions and gates there are.
THEOREM ApprovalTypeCorrect == Spec => []TypeOK
<1>1. TypeOK /\ [Next]_vars => TypeOK'
  BY NextTypeOK
<1> QED BY <1>1, InitTypeOK, PTL DEF Spec

----------------------------------------------------------------------------
(* Finality.                                                                *)

\* What one step does to the status: only approve opens or approves an open intent.
LEMMA StatusSteps ==
  ASSUME TypeOK, [Next]_vars
  PROVE  /\ status \in {"rejected", "cancelled", "dispatching"} => status' = status
         /\ status' \in Open => status \in Open
<1>1. CASE UNCHANGED vars
  BY <1>1 DEF vars
<1>2. ASSUME NEW m \in Members, Advance(m)
      PROVE  status \in Open /\ status' \in Open \cup {"approved"}
  BY <1>2 DEF TypeOK, Advance, ExpectedStatus, Open, Statuses
<1>3. ASSUME NEW m \in Members,
             \/ ApproveReads(m) \/ Authorize(m) \/ SignReads(m) \/ Sign(m)
             \/ ApproveThrows(m) \/ ApproveAbandoned(m) \/ ChangeMember(m)
      PROVE  status' = status
  BY <1>3 DEF ApproveReads, Authorize, SignReads, Sign, ApproveThrows,
              ApproveAbandoned, ChangeMember
<1>4. ASSUME NEW g \in Gates,
             GateReads(g) \/ GateEvaluates(g) \/ GateCounts(g) \/ GateAbandoned(g)
      PROVE  status' = status
  BY <1>4 DEF GateReads, GateEvaluates, GateCounts, GateAbandoned
<1>5. ASSUME NEW g \in Gates, GateMoves(g)
      PROVE  status \in {"approved", "paused"} /\ status' \in {"dispatching", "approved"}
  BY <1>5 DEF GateMoves
<1>6. CASE Reject \/ Cancel \/ Pause \/ \E v \in Versions : Activate(v)
  BY <1>6 DEF Reject, Cancel, Pause, Activate, Open
<1> QED BY <1>1, <1>2, <1>3, <1>4, <1>5, <1>6 DEF Next, Open

\* A decision is final, however late the requests that read the intent before it.
THEOREM DecisionsAreFinal == Spec => DecisionIsFinal
<1>1. TypeOK /\ [Next]_vars
        => [/\ status \in {"rejected", "cancelled", "dispatching"} => status' = status
            /\ status' \in Open => status \in Open]_vars
  BY StatusSteps
<1> QED BY <1>1, ApprovalTypeCorrect, PTL DEF Spec, DecisionIsFinal

----------------------------------------------------------------------------
(* Enough approvals.                                                        *)

\* What an approve request knows on its way.  Once it has found its approval to be
\* the last one needed, the others that were counted are still there.
Sufficient(m) ==
    \E v \in activated : Needed(m, v) <= Cardinality(Signers \ {m}) + 1

RequestInv(m) ==
    /\ pc[m] = "signing" => seen[m] \in activated
    /\ pc[m] = "signed" => m \in Signers
    /\ pc[m] \in {"authorized", "signing", "signed"} /\ ~more[m] => Sufficient(m)

EnoughInv ==
    /\ TypeOK
    /\ active \in activated
    /\ \A m \in Members : RequestInv(m)

\* A member needs a natural number of approvals, at least one.
LEMMA NeededIsPositive ==
  ASSUME NEW m \in Members, NEW v \in Versions
  PROVE  Needed(m, v) \in Nat /\ Needed(m, v) >= 1
<1>1. Len(Required[v]) \in Nat
  BY PolicyAssumption
<1> QED BY <1>1 DEF Needed, PolicyNeeds, AtLeast

\* The signers and the signers but one are finitely many.
LEMMA SignersCount ==
  ASSUME NEW m \in Members
  PROVE  /\ IsFiniteSet(Signers)
         /\ Cardinality(Signers) \in Nat
         /\ Cardinality(Signers \ {m}) \in Nat
         /\ m \in Signers => Cardinality(Signers) = Cardinality(Signers \ {m}) + 1
         /\ m \notin Signers => Cardinality(Signers) = Cardinality(Signers \ {m})
<1>1. IsFiniteSet(Signers)
  BY PolicyAssumption, FS_Subset DEF Signers
<1>2. IsFiniteSet(Signers \ {m})
  BY <1>1, FS_RemoveElement
<1>3. Cardinality(Signers) \in Nat /\ Cardinality(Signers \ {m}) \in Nat
  BY <1>1, <1>2, FS_CardinalityType
<1>4. Cardinality(Signers \ {m})
        = IF m \in Signers THEN Cardinality(Signers) - 1 ELSE Cardinality(Signers)
  BY <1>1, FS_RemoveElement
<1> QED BY <1>1, <1>3, <1>4

\* Versions stay activated.
LEMMA ActivatedStays ==
  ASSUME [Next]_vars
  PROVE  activated \subseteq activated'
  BY DEF Next, vars, policyVars, signVars, approveVars, gateVars,
         ApproveReads, Authorize, SignReads, Sign, Advance, ApproveThrows,
         ApproveAbandoned, ChangeMember, GateReads, GateEvaluates, GateCounts,
         GateMoves, GateAbandoned, Reject, Cancel, Pause, Activate

\* Versions stay activated and signers stay signers, so what suffices keeps
\* sufficing.
LEMMA SufficientStays ==
  ASSUME TypeOK, [Next]_vars, NEW m \in Members, Sufficient(m)
  PROVE  Sufficient(m)'
<1>1. activated \subseteq activated'
  BY ActivatedStays
<1>2. Signers \ {m} \subseteq (Signers \ {m})'
  BY SignaturesStay DEF Signers
<1>3. IsFiniteSet((Signers \ {m})')
  BY PolicyAssumption, FS_Subset DEF Signers
<1>4. Cardinality(Signers \ {m}) <= Cardinality((Signers \ {m})')
  BY <1>2, <1>3, FS_Subset
<1>5. Cardinality(Signers \ {m}) \in Nat /\ Cardinality((Signers \ {m})') \in Nat
  BY <1>2, <1>3, FS_Subset, FS_CardinalityType
<1>6. PICK v \in activated : Needed(m, v) <= Cardinality(Signers \ {m}) + 1
  BY DEF Sufficient
<1>7. v \in Versions /\ Needed(m, v) \in Nat
  BY NeededIsPositive DEF TypeOK
<1>8. Needed(m, v) <= Cardinality((Signers \ {m})') + 1
  BY <1>4, <1>5, <1>6, <1>7
<1>9. Needed(m, v)' = Needed(m, v)
  BY DEF Needed, PolicyNeeds
<1> QED BY <1>1, <1>8, <1>9 DEF Sufficient

\* Authorization counts itself and the others that have signed.
LEMMA AuthorizedSuffices ==
  ASSUME EnoughInv, NEW m \in Members, Authorize(m), ~more'[m]
  PROVE  Sufficient(m)
<1>1. ~(Cardinality(Signers) + 1 < Needed(m, active))
  BY DEF Authorize, EnoughInv, TypeOK
<1>2. active \in Versions /\ active \in activated
  BY DEF EnoughInv, TypeOK
<1>3. Needed(m, active) \in Nat /\ Needed(m, active) >= 1
  BY <1>2, NeededIsPositive
<1>4. Needed(m, active) <= Cardinality(Signers \ {m}) + 1
  <2>1. CASE Needed(m, active) > 1
    BY <2>1, <1>1, <1>3, SignersCount DEF Authorize
  <2>2. CASE Needed(m, active) <= 1
    BY <2>2, <1>3, SignersCount
  <2> QED BY <2>1, <2>2, <1>3
<1> QED BY <1>2, <1>4 DEF Sufficient

\* A step of anyone, for one member's approve request: it goes on, starts over, or
\* is left as it is.
LEMMA RequestSteps ==
  ASSUME TypeOK, [Next]_vars, NEW m \in Members
  PROVE  \/ pc'[m] = pc[m] /\ more'[m] = more[m] /\ seen'[m] = seen[m]
         \/ pc'[m] \in {"idle", "read"}
         \/ Authorize(m) \/ SignReads(m) \/ Sign(m)
<1>1. CASE UNCHANGED vars
  BY <1>1 DEF vars, approveVars
<1>2. ASSUME NEW n \in Members, n # m,
             \/ ApproveReads(n) \/ Authorize(n) \/ SignReads(n) \/ Sign(n) \/ Advance(n)
             \/ ApproveThrows(n) \/ ApproveAbandoned(n)
      PROVE  pc'[m] = pc[m] /\ more'[m] = more[m] /\ seen'[m] = seen[m]
  BY <1>2 DEF TypeOK, ApproveReads, Authorize, SignReads, Sign, Advance, ApproveThrows,
              ApproveAbandoned, ApproveEnds
<1>3. CASE ApproveReads(m) \/ Advance(m) \/ ApproveThrows(m) \/ ApproveAbandoned(m)
  BY <1>3 DEF TypeOK, ApproveReads, Advance, ApproveThrows, ApproveAbandoned, ApproveEnds
<1>4. ASSUME NEW g \in Gates,
             \/ GateReads(g) \/ GateEvaluates(g) \/ GateCounts(g) \/ GateMoves(g)
             \/ GateAbandoned(g)
      PROVE  UNCHANGED approveVars
  BY <1>4 DEF GateReads, GateEvaluates, GateCounts, GateMoves, GateAbandoned
<1>5. CASE \/ Reject \/ Cancel \/ Pause \/ \E v \in Versions : Activate(v)
           \/ \E n \in Members : ChangeMember(n)
  BY <1>5 DEF Reject, Cancel, Pause, Activate, ChangeMember, approveVars
<1> QED BY <1>1, <1>2, <1>3, <1>4, <1>5 DEF Next, approveVars

\* Every step preserves EnoughInv.
LEMMA EnoughInductive == EnoughInv /\ [Next]_vars => EnoughInv'
<1> SUFFICES ASSUME EnoughInv, [Next]_vars PROVE EnoughInv'
  OBVIOUS
<1>a. TypeOK
  BY DEF EnoughInv
<1>1. TypeOK'
  BY <1>a, NextTypeOK
<1>2. active' \in activated'
  BY DEF EnoughInv, Next, vars, policyVars, signVars, approveVars, gateVars,
         ApproveReads, Authorize, SignReads, Sign, Advance, ApproveThrows,
         ApproveAbandoned, ChangeMember, GateReads, GateEvaluates, GateCounts,
         GateMoves, GateAbandoned, Reject, Cancel, Pause, Activate
<1>3. ASSUME NEW m \in Members PROVE RequestInv(m)'
  <2>a. RequestInv(m)
    BY DEF EnoughInv
  <2>b. Sufficient(m) => Sufficient(m)'
    BY <1>a, SufficientStays
  <2>c. m \in Signers => m \in Signers'
    BY <1>a, SignaturesStay DEF Signers
  <2>d. activated \subseteq activated' /\ activated \subseteq Versions
    BY <1>a, ActivatedStays DEF TypeOK
  <2>1. CASE pc'[m] = pc[m] /\ more'[m] = more[m] /\ seen'[m] = seen[m]
    BY <2>1, <2>a, <2>b, <2>c, <2>d DEF RequestInv
  <2>2. CASE pc'[m] \in {"idle", "read"}
    BY <2>2 DEF RequestInv
  <2>3. CASE Authorize(m)
    <3>1. pc'[m] = "authorized"
      BY <2>3, <1>a DEF Authorize, TypeOK
    <3> QED BY <2>3, <3>1, <2>b, AuthorizedSuffices DEF RequestInv
  <2>4. CASE SignReads(m)
    <3>1. pc[m] = "authorized" /\ pc'[m] = "signing" /\ more'[m] = more[m]
          /\ seen'[m] = active
      BY <2>4, <1>a DEF SignReads, TypeOK
    <3>2. active \in activated
      BY DEF EnoughInv
    <3> QED BY <3>1, <3>2, <2>a, <2>b, <2>d DEF RequestInv
  <2>5. CASE Sign(m)
    <3>1. pc[m] = "signing" /\ pc'[m] = "signed" /\ more'[m] = more[m]
          /\ signed'[m] = seen[m]
      BY <2>5, <1>a DEF Sign, TypeOK
    <3>2. m \in Signers'
      BY <3>1, <2>a, <2>d, PolicyAssumption DEF RequestInv, Signers
    <3> QED BY <3>1, <3>2, <2>a, <2>b DEF RequestInv
  <2> QED BY <1>a, <2>1, <2>2, <2>3, <2>4, <2>5, RequestSteps
<1> QED BY <1>1, <1>2, <1>3 DEF EnoughInv

\* No intent is approved with fewer signers than some activated version needs, for
\* any number of members, requests at once, and policies.
THEOREM ApprovalsAreEnough == Spec => ApprovedByEnough
<1>1. Init => EnoughInv
  BY InitTypeOK DEF Init, EnoughInv, RequestInv
<1>2. EnoughInv /\ [Next]_vars
        => [(status \in Open /\ status' = "approved") =>
              \E m \in Signers : \E v \in activated : Cardinality(Signers) >= Needed(m, v)]_vars
  <2> SUFFICES ASSUME EnoughInv, [Next]_vars, status \in Open, status' = "approved"
               PROVE  \E m \in Signers : \E v \in activated :
                        Cardinality(Signers) >= Needed(m, v)
    OBVIOUS
  <2>1. PICK m \in Members : Advance(m)
    BY DEF Next, vars, Open, ApproveReads, Authorize, SignReads, Sign, ApproveThrows,
           ApproveAbandoned, ChangeMember, GateReads, GateEvaluates, GateCounts,
           GateMoves, GateAbandoned, Reject, Cancel, Pause, Activate
  <2>2. pc[m] = "signed" /\ ~more[m]
    BY <2>1 DEF Advance, EnoughInv, TypeOK
  <2>3. m \in Signers /\ Sufficient(m)
    BY <2>2 DEF EnoughInv, RequestInv
  <2>4. PICK v \in activated : Needed(m, v) <= Cardinality(Signers \ {m}) + 1
    BY <2>3 DEF Sufficient
  <2>5. Needed(m, v) \in Nat
    BY <2>4, NeededIsPositive DEF EnoughInv, TypeOK
  <2>6. Cardinality(Signers) >= Needed(m, v)
    BY <2>3, <2>4, <2>5, SignersCount
  <2> QED BY <2>3, <2>6
<1> QED BY <1>1, <1>2, EnoughInductive, PTL DEF Spec, ApprovedByEnough

----------------------------------------------------------------------------
(* Quorum at the hand-off.                                                  *)

\* What the hand-off demands of the signatures, for the version it is taken under.
Backed(v) ==
    /\ Outcome[v] # "reject"
    /\ SlotsFilled(v)
    /\ HardFloor(v) => v \in {signed[m] : m \in Members}

\* The inductive invariant: a gate that passed has seen the signatures that back its
\* version, and signatures never go away or change their version.
QuorumInv ==
    /\ TypeOK
    /\ active \in activated
    /\ \A g \in Gates : gpc[g] \in {"evaluated", "passed"} => gver[g] \in activated
    /\ \A g \in Gates : \A v \in Versions : gpc[g] = "passed" /\ gver[g] = v => Backed(v)
    /\ status = "dispatching" => \E v \in activated : Backed(v)

\* A finite set that is not larger than another one can be mapped into it one to one.
LEMMA SmallerInjects ==
  ASSUME NEW S, NEW T, IsFiniteSet(S), IsFiniteSet(T), Cardinality(S) <= Cardinality(T)
  PROVE  \E h \in [S -> T] : \A x, y \in S : h[x] = h[y] => x = y
<1>1. /\ Cardinality(S) \in Nat
      /\ Cardinality(T) \in Nat
      /\ ExistsBijection(1..Cardinality(S), S)
      /\ ExistsBijection(1..Cardinality(T), T)
  BY FS_CardinalityType
<1>2. PICK b \in Bijection(1..Cardinality(S), S) : TRUE
  BY <1>1, Fun_ExistsBij
<1>3. PICK c \in Bijection(1..Cardinality(T), T) : TRUE
  BY <1>1, Fun_ExistsBij
<1>4. \A x \in S : \E n \in 1..Cardinality(S) : b[n] = x
  BY <1>2 DEF Bijection, Surjection
<1>5. /\ c \in [1..Cardinality(T) -> T]
      /\ \A j, k \in 1..Cardinality(T) : c[j] = c[k] => j = k
  BY <1>3, Fun_BijectionProperties
<1> DEFINE nr == [x \in S |-> CHOOSE n \in 1..Cardinality(S) : b[n] = x]
<1>6. \A x \in S : nr[x] \in 1..Cardinality(S) /\ b[nr[x]] = x
  BY <1>4
<1>7. \A x \in S : nr[x] \in 1..Cardinality(T)
  BY <1>6, <1>1
<1> DEFINE h == [x \in S |-> c[nr[x]]]
<1> HIDE DEF nr
<1>8. h \in [S -> T]
  BY <1>7, <1>5
<1>9. ASSUME NEW x \in S, NEW y \in S, h[x] = h[y] PROVE x = y
  <2>1. nr[x] = nr[y]
    BY <1>9, <1>7, <1>5
  <2> QED BY <2>1, <1>6
<1> QED BY <1>8, <1>9

\* The size of a difference with a subset.
LEMMA DifferenceCount ==
  ASSUME NEW S, NEW T, IsFiniteSet(S), T \subseteq S
  PROVE  IsFiniteSet(S \ T) /\ Cardinality(S \ T) = Cardinality(S) - Cardinality(T)
<1>1. S \cap T = T
  OBVIOUS
<1>2. IsFiniteSet(S \ T) /\ Cardinality(S \ T) = Cardinality(S) - Cardinality(S \cap T)
  BY FS_Difference
<1> QED BY <1>1, <1>2

\* If the valid signatures have the roles of the quorum, every slot has a signer.
LEMMA QuorumFillsSlots ==
  ASSUME TypeOK, NEW v \in Versions,
         RoleQuorum(Required[v], {RoleOf[m] : m \in Valid(v)})
  PROVE  SlotsFilled(v)
<1> DEFINE slots == Required[v]
           D == DOMAIN slots
           named == {k \in D : slots[k] # "signer"}
           roles == {RoleOf[m] : m \in Valid(v)}
           taken == {slots[k] : k \in named}
<1>1. /\ \A k \in named : slots[k] \in roles
      /\ \A j, k \in named : slots[j] = slots[k] => j = k
      /\ Cardinality(D) <= Cardinality(roles)
  BY DEF RoleQuorum
<1>2. IsFiniteSet(D) /\ IsFiniteSet(named) /\ IsFiniteSet(roles)
  <2>1. D = 1..Len(slots) /\ Len(slots) \in Nat
    BY PolicyAssumption
  <2>2. IsFiniteSet(D)
    BY <2>1, FS_Interval
  <2>3. IsFiniteSet(Roles)
    <3>1. IsFiniteSet({"admin"} \cup {"approver"})
      BY FS_Singleton, FS_AddElement
    <3>2. Roles = {"admin"} \cup {"approver"}
      BY DEF Roles
    <3> QED BY <3>1, <3>2
  <2>4. roles \subseteq Roles
    BY PolicyAssumption DEF Valid
  <2>5. IsFiniteSet(roles)
    BY <2>3, <2>4, FS_Subset
  <2>6. named \in SUBSET D
    OBVIOUS
  <2> QED BY <2>2, <2>5, <2>6, FS_Subset
<1>3. taken \subseteq roles /\ IsFiniteSet(taken) /\ Cardinality(taken) = Cardinality(named)
  <2> DEFINE b == [k \in named |-> slots[k]]
  <2>1. b \in Bijection(named, taken)
    <3>1. b \in [named -> taken]
      OBVIOUS
    <3>2. \A j, k \in named : b[j] = b[k] => j = k
      BY <1>1
    <3>3. \A t \in taken : \E k \in named : b[k] = t
      OBVIOUS
    <3> HIDE DEF b
    <3> QED BY <3>1, <3>2, <3>3, Fun_IsBij
  <2>2. ExistsBijection(named, taken)
    BY <2>1, Fun_ExistsBij
  <2> QED BY <2>2, <1>1, <1>2, FS_Bijection
<1>4. Cardinality(D \ named) <= Cardinality(roles \ taken)
      /\ IsFiniteSet(D \ named) /\ IsFiniteSet(roles \ taken)
  <2>1. named \subseteq D
    OBVIOUS
  <2> HIDE DEF roles, taken, named, D
  <2>2. Cardinality(D \ named) = Cardinality(D) - Cardinality(named)
        /\ IsFiniteSet(D \ named)
    BY <1>2, <2>1, DifferenceCount
  <2>3. Cardinality(roles \ taken) = Cardinality(roles) - Cardinality(taken)
        /\ IsFiniteSet(roles \ taken)
    BY <1>2, <1>3, DifferenceCount
  <2>4. Cardinality(D) \in Nat /\ Cardinality(named) \in Nat /\ Cardinality(roles) \in Nat
    BY <1>2, FS_CardinalityType
  <2> QED BY <1>1, <1>3, <2>2, <2>3, <2>4
<1>5. PICK h \in [D \ named -> roles \ taken] :
        \A j, k \in D \ named : h[j] = h[k] => j = k
  <2> HIDE DEF roles, taken, named, D
  <2> QED BY <1>4, SmallerInjects
<1> DEFINE role == [k \in D |-> IF k \in named THEN slots[k] ELSE h[k]]
<1>6. \A k \in D : role[k] \in roles /\ slots[k] \in {"signer", role[k]}
  BY <1>1, <1>5
<1>7. \A j, k \in D : role[j] = role[k] => j = k
  BY <1>1, <1>5
<1> DEFINE f == [k \in D |-> CHOOSE m \in Valid(v) : RoleOf[m] = role[k]]
<1>8. \A k \in D : f[k] \in Valid(v) /\ RoleOf[f[k]] = role[k]
  <2> HIDE DEF role
  <2> QED BY <1>6
<1> HIDE DEF f, role
<1>9. f \in [D -> {m \in Members : signed[m] = v}]
  <2>1. f = [k \in D |-> f[k]]
    BY DEF f
  <2>2. \A k \in D : f[k] \in {m \in Members : signed[m] = v}
    BY <1>8 DEF Valid
  <2> QED BY <2>1, <2>2
<1>10. \A j, k \in D : f[j] = f[k] => j = k
  BY <1>7, <1>8
<1>11. \A k \in D : slots[k] \in {"signer", RoleOf[f[k]]}
  BY <1>6, <1>8
<1> QED BY <1>9, <1>10, <1>11 DEF SlotsFilled, FilledBy

\* A version whose gate checks pass is backed.
LEMMA PassingIsBacked ==
  ASSUME TypeOK, NEW v \in Versions, GatePasses(v)
  PROVE  Backed(v)
<1>1. Outcome[v] \in {"allow", "confirm"}
  BY PolicyAssumption DEF GatePasses
<1>2. SlotsFilled(v)
  <2>1. CASE Outcome[v] = "confirm"
    BY <2>1, QuorumFillsSlots DEF GatePasses
  <2>2. CASE Outcome[v] # "confirm"
    <3>1. DOMAIN Required[v] = {}
      <4>1. Required[v] = <<>>
        BY <2>2, PolicyAssumption
      <4> QED BY <4>1
    <3>2. [k \in {} |-> 0] \in [DOMAIN Required[v] -> {m \in Members : signed[m] = v}]
      BY <3>1
    <3> QED BY <3>1, <3>2 DEF SlotsFilled, FilledBy
  <2> QED BY <2>1, <2>2
<1>3. HardFloor(v) => v \in {signed[m] : m \in Members}
  BY DEF GatePasses, Valid
<1> QED BY <1>1, <1>2, <1>3 DEF Backed

\* Signatures stay, so what backs a version stays.
LEMMA BackingStays ==
  ASSUME TypeOK, [Next]_vars, NEW v \in Versions, Backed(v)
  PROVE  Backed(v)'
<1>1. ASSUME NEW m \in Members, signed[m] = v PROVE signed'[m] = v
  BY <1>1, SignaturesStay, PolicyAssumption
<1>2. SlotsFilled(v)'
  <2>1. PICK f \in [DOMAIN Required[v] -> {m \in Members : signed[m] = v}] :
          /\ \A j, k \in DOMAIN Required[v] : f[j] = f[k] => j = k
          /\ \A k \in DOMAIN Required[v] : Required[v][k] \in {"signer", RoleOf[f[k]]}
    BY DEF Backed, SlotsFilled, FilledBy
  <2>2. f \in [DOMAIN Required[v] -> {m \in Members : signed'[m] = v}]
    BY <2>1, <1>1
  <2> QED BY <2>1, <2>2 DEF SlotsFilled, FilledBy
<1>3. HardFloor(v)' => v \in {signed'[m] : m \in Members}
  BY <1>1 DEF Backed, HardFloor
<1> QED BY <1>2, <1>3 DEF Backed

\* A step of anyone, for one gate: it evaluates, passes, starts over or is left as it
\* is.
LEMMA GateSteps ==
  ASSUME TypeOK, [Next]_vars, NEW g \in Gates
  PROVE  \/ gpc'[g] = gpc[g] /\ gver'[g] = gver[g]
         \/ gpc'[g] \in {"idle", "read"}
         \/ gpc'[g] = "evaluated" /\ gver'[g] = active
         \/ /\ gpc[g] = "evaluated" /\ gpc'[g] = "passed" /\ gver'[g] = gver[g]
            /\ GatePasses(gver[g])
<1>1. CASE UNCHANGED vars
  BY <1>1 DEF vars, gateVars
<1>2. ASSUME NEW m \in Members,
             \/ ApproveReads(m) \/ Authorize(m) \/ SignReads(m) \/ Sign(m) \/ Advance(m)
             \/ ApproveThrows(m) \/ ApproveAbandoned(m) \/ ChangeMember(m)
      PROVE  UNCHANGED gateVars
  BY <1>2 DEF ApproveReads, Authorize, SignReads, Sign, Advance, ApproveThrows,
              ApproveAbandoned, ChangeMember
<1>3. ASSUME NEW h \in Gates, h # g,
             \/ GateReads(h) \/ GateEvaluates(h) \/ GateCounts(h) \/ GateMoves(h)
             \/ GateAbandoned(h)
      PROVE  gpc'[g] = gpc[g] /\ gver'[g] = gver[g]
  BY <1>3 DEF TypeOK, GateReads, GateEvaluates, GateCounts, GateMoves, GateAbandoned, GateEnds
<1>4. CASE GateReads(g) \/ GateEvaluates(g) \/ GateMoves(g) \/ GateAbandoned(g)
  BY <1>4 DEF TypeOK, GateReads, GateEvaluates, GateMoves, GateAbandoned, GateEnds
<1>5. CASE GateCounts(g)
  BY <1>5 DEF TypeOK, GateCounts, GateEnds
<1>6. CASE Reject \/ Cancel \/ Pause \/ \E v \in Versions : Activate(v)
  BY <1>6 DEF Reject, Cancel, Pause, Activate, gateVars
<1> QED BY <1>1, <1>2, <1>3, <1>4, <1>5, <1>6 DEF Next, gateVars

\* Every step preserves QuorumInv.
LEMMA QuorumInductive == QuorumInv /\ [Next]_vars => QuorumInv'
<1> SUFFICES ASSUME QuorumInv, [Next]_vars PROVE QuorumInv'
  OBVIOUS
<1>a. TypeOK /\ activated \subseteq Versions /\ active \in activated
  BY DEF QuorumInv, TypeOK
<1>1. TypeOK'
  BY <1>a, NextTypeOK
<1>2. activated \subseteq activated' /\ active' \in activated'
  BY <1>a DEF Next, vars, policyVars, signVars, approveVars, gateVars,
         ApproveReads, Authorize, SignReads, Sign, Advance, ApproveThrows,
         ApproveAbandoned, ChangeMember, GateReads, GateEvaluates, GateCounts,
         GateMoves, GateAbandoned, Reject, Cancel, Pause, Activate
<1>b. ASSUME NEW v \in Versions, Backed(v) PROVE Backed(v)'
  BY <1>a, <1>b, BackingStays
<1>3. ASSUME NEW g \in Gates, gpc'[g] \in {"evaluated", "passed"}
      PROVE  gver'[g] \in activated'
  BY <1>3, <1>a, <1>2, GateSteps DEF QuorumInv
<1>4. ASSUME NEW g \in Gates, NEW v \in Versions, gpc'[g] = "passed", gver'[g] = v
      PROVE  Backed(v)'
  <2>1. \/ gpc[g] = "passed" /\ gver[g] = v
        \/ gver[g] = v /\ GatePasses(gver[g])
    BY <1>4, <1>a, GateSteps
  <2>2. CASE gpc[g] = "passed" /\ gver[g] = v
    BY <2>2, <1>b DEF QuorumInv
  <2>3. CASE gver[g] = v /\ GatePasses(gver[g])
    BY <2>3, <1>a, <1>b, PassingIsBacked
  <2> QED BY <2>1, <2>2, <2>3
<1>5. ASSUME status' = "dispatching" PROVE \E v \in activated' : Backed(v)'
  <2>1. CASE status = "dispatching"
    BY <2>1, <1>a, <1>b, <1>2 DEF QuorumInv
  <2>2. CASE status # "dispatching"
    <3>1. PICK g \in Gates : GateMoves(g)
      BY <1>5, <2>2 DEF Next, vars, Open, ApproveReads, Authorize, SignReads, Sign, Advance,
             ApproveThrows, ApproveAbandoned, ChangeMember, GateReads, GateEvaluates,
             GateCounts, GateAbandoned, Reject, Cancel, Pause, Activate
    <3>2. gpc[g] = "passed"
      BY <3>1 DEF GateMoves
    <3>3. gver[g] \in activated /\ gver[g] \in Versions
      BY <3>2, <1>a DEF QuorumInv
    <3>4. PICK v \in Versions : v = gver[g]
      BY <3>3
    <3>5. Backed(v)
      BY <3>2, <3>4 DEF QuorumInv
    <3> QED BY <3>3, <3>4, <3>5, <1>b, <1>2
  <2> QED BY <2>1, <2>2
<1> QED BY <1>1, <1>2, <1>3, <1>4, <1>5 DEF QuorumInv

\* No intent reaches the outbox without the signatures that some activated version
\* asked for, each slot filled by a member of its own, for every policy, any number of
\* members and any number of execute and resume requests at once.
THEOREM HandoffsHaveQuorum == Spec => []HandoffHasQuorum
<1>1. Init => QuorumInv
  BY InitTypeOK DEF Init, QuorumInv
<1>2. QuorumInv => HandoffHasQuorum
  BY DEF QuorumInv, HandoffHasQuorum, Backed
<1> QED BY <1>1, <1>2, QuorumInductive, PTL DEF Spec

----------------------------------------------------------------------------
(* Refinement of ApprovalByQuorum.                                          *)

\* What backs a version is a quorum of it.
LEMMA BackedIsQuorum ==
  ASSUME NEW v \in Versions, Backed(v)
  PROVE  {m \in Members : signed[m] = v} \in QuorumFor[v]
<1>1. HardFloor(v) => {m \in Members : signed[m] = v} # {}
  BY DEF Backed
<1> QED BY <1>1 DEF Backed, SlotsFilled, QuorumFor

\* An approve request does what ApprovalByQuorum does, or nothing visible.
LEMMA ApproveSimulates ==
  ASSUME EnoughInv, NEW m \in Members,
         \/ ApproveReads(m) \/ Authorize(m) \/ SignReads(m) \/ Sign(m) \/ Advance(m)
         \/ ApproveThrows(m) \/ ApproveAbandoned(m)
  PROVE  [Approval!Advance]_(Approval!approvalVars)
<1> USE DEF Approval!approvalVars, policyVars, signVars
<1>a. TypeOK /\ RequestInv(m) /\ Signers = Approval!Signers /\ Open = Approval!Open
  BY DEF EnoughInv, Signers, Approval!Signers, Open, Approval!Open
<1>1. CASE Sign(m)
  <2>1. seen[m] \in activated
    BY <1>1, <1>a DEF Sign, RequestInv
  <2>2. Approval!Sign(m)
    BY <1>1, <2>1 DEF Sign, Approval!Sign
  <2> QED BY <2>2 DEF Approval!Advance
<1>2. CASE Advance(m)
  <2>1. pc[m] = "signed" /\ m \in Signers
    BY <1>2, <1>a DEF Advance, RequestInv
  <2>2. CASE more[m]
    <3>1. Approval!Await
      BY <1>2, <1>a, <2>1, <2>2 DEF Advance, ExpectedStatus, Approval!Await
    <3> QED BY <3>1 DEF Approval!Advance
  <2>3. CASE ~more[m]
    <3>1. PICK v \in activated : Needed(m, v) <= Cardinality(Signers \ {m}) + 1
      BY <2>1, <2>3, <1>a DEF RequestInv, Sufficient, TypeOK
    <3>2. v \in Versions /\ Needed(m, v) \in Nat
      BY <3>1, <1>a, NeededIsPositive DEF TypeOK
    <3>3. Cardinality(Signers) >= Needed(m, v)
      BY <2>1, <3>1, <3>2, SignersCount
    <3>4. Signers \in EnoughFor[v]
      BY <2>1, <3>2, <3>3 DEF EnoughFor, Signers
    <3>5. status \in Open /\ status' = "approved"
      BY <1>2, <2>3, <1>a DEF Advance, ExpectedStatus, TypeOK, Statuses, Open
    <3>6. Approval!Approve
      BY <1>2, <1>a, <3>1, <3>4, <3>5 DEF Advance, Approval!Approve
    <3> QED BY <3>6 DEF Approval!Advance
  <2> QED BY <2>2, <2>3
<1>3. CASE \/ ApproveReads(m) \/ Authorize(m) \/ SignReads(m) \/ ApproveThrows(m)
          \/ ApproveAbandoned(m)
  BY <1>3 DEF ApproveReads, Authorize, SignReads, ApproveThrows, ApproveAbandoned
<1> QED BY <1>1, <1>2, <1>3

\* A gate's transition is backed by a quorum; its other steps change nothing visible.
LEMMA GateSimulates ==
  ASSUME QuorumInv, NEW g \in Gates,
         \/ GateReads(g) \/ GateEvaluates(g) \/ GateCounts(g) \/ GateMoves(g)
         \/ GateAbandoned(g)
  PROVE  [Approval!Advance]_(Approval!approvalVars)
<1> USE DEF Approval!approvalVars, policyVars, signVars
<1>1. CASE GateMoves(g)
  <2>1. gver[g] \in activated /\ gver[g] \in Versions /\ gpc[g] = "passed"
    BY <1>1 DEF GateMoves, QuorumInv, TypeOK
  <2>2. PICK v \in Versions : v = gver[g]
    BY <2>1
  <2>3. Backed(v)
    BY <2>1, <2>2 DEF QuorumInv
  <2>4. Approval!HasQuorum
    BY <2>1, <2>2, <2>3, BackedIsQuorum DEF Approval!HasQuorum
  <2>5. Approval!Go
    BY <1>1, <2>4 DEF GateMoves, Approval!Go
  <2> QED BY <2>5 DEF Approval!Advance
<1>2. CASE GateReads(g) \/ GateEvaluates(g) \/ GateCounts(g) \/ GateAbandoned(g)
  BY <1>2 DEF GateReads, GateEvaluates, GateCounts, GateAbandoned
<1> QED BY <1>1, <1>2

\* An intent starts out approved only where the policy asks for nobody.
LEMMA InitSimulates == Init => Approval!Start
<1> SUFFICES ASSUME Init PROVE Approval!Start
  OBVIOUS
<1>1. active \in Versions /\ Outcome[active] # "reject"
  BY DEF Init
<1>2. CASE NeedsApproval(active)
  BY <1>1, <1>2 DEF Init, Approval!Start
<1>3. CASE ~NeedsApproval(active)
  <2>1. Required[active] = <<>> /\ ~HardFloor(active)
    BY <1>1, <1>3, PolicyAssumption DEF NeedsApproval
  <2>2. FilledBy({}, active)
    <3>1. DOMAIN Required[active] = {}
      BY <2>1
    <3>2. [k \in {} |-> 0] \in [DOMAIN Required[active] -> {}]
      BY <3>1
    <3> QED BY <3>1, <3>2 DEF FilledBy
  <2>3. {} \in QuorumFor[active]
    BY <1>1, <2>1, <2>2 DEF QuorumFor
  <2> QED BY <1>1, <1>3, <2>3 DEF Init, Approval!Start
<1> QED BY <1>2, <1>3

\* The approval of an intent is an ApprovalByQuorum: with any number of members,
\* gates, versions and requests at once, one signature each, enough signers to
\* approve, and a quorum of some activated version to hand off or resume.
THEOREM ApprovalsImplementQuorums == Spec => ImplementsApproval
<1>1. Init => EnoughInv /\ QuorumInv
  BY InitTypeOK DEF Init, EnoughInv, RequestInv, QuorumInv
<1>2. EnoughInv /\ QuorumInv /\ [Next]_vars => [Approval!Advance]_(Approval!approvalVars)
  <2> SUFFICES ASSUME EnoughInv, QuorumInv, [Next]_vars
               PROVE  [Approval!Advance]_(Approval!approvalVars)
    OBVIOUS
  <2> USE DEF Approval!approvalVars, policyVars, signVars
  <2>1. CASE UNCHANGED vars
    BY <2>1 DEF vars
  <2>2. CASE Reject \/ Cancel
    <3>1. Approval!Withdraw
      BY <2>2 DEF Reject, Cancel, Open, Approval!Withdraw, Approval!Open
    <3> QED BY <3>1 DEF Approval!Advance
  <2>3. CASE Pause
    <3>1. Approval!Pause
      BY <2>3 DEF Pause, Approval!Pause
    <3> QED BY <3>1 DEF Approval!Advance
  <2>4. ASSUME NEW v \in Versions, Activate(v) PROVE Approval!Advance
    <3>1. Approval!Activate(v)
      BY <2>4 DEF Activate, Approval!Activate
    <3> QED BY <3>1 DEF Approval!Advance
  <2>5. ASSUME NEW m \in Members, ChangeMember(m) PROVE UNCHANGED Approval!approvalVars
    BY <2>5 DEF ChangeMember
  <2> QED BY <2>1, <2>2, <2>3, <2>4, <2>5, ApproveSimulates, GateSimulates DEF Next
<1>3. EnoughInv /\ QuorumInv /\ [Next]_vars => EnoughInv' /\ QuorumInv'
  BY EnoughInductive, QuorumInductive
<1> QED BY <1>1, <1>2, <1>3, InitSimulates, PTL DEF Spec, ImplementsApproval, Approval!Spec

=============================================================================
