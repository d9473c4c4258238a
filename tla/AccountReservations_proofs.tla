--------------------- MODULE AccountReservations_proofs ---------------------
(***************************************************************************)
(* Machine-checked proofs about AccountReservations, for every finite set  *)
(* of intents, every amount, opening balance and window cap, and every set *)
(* of feeds.                                                               *)
(***************************************************************************)
EXTENDS AccountReservations, FunctionTheorems, FiniteSetTheorems, TLAPS

----------------------------------------------------------------------------
(* Sums of amounts.                                                         *)

\* The units of one amount are as many as the amount.
LEMMA UnitsOfOne ==
  ASSUME NEW i \in Intents
  PROVE  /\ IsFiniteSet({i} \X (1 .. Amount[i]))
         /\ Cardinality({i} \X (1 .. Amount[i])) = Amount[i]
<1> DEFINE n == Amount[i]
<1>1. n \in Nat
  BY AccountAssumption
<1> HIDE DEF n
<1>2. IsFiniteSet({i}) /\ Cardinality({i}) = 1
  BY FS_Singleton
<1>3. IsFiniteSet(1 .. n) /\ Cardinality(1 .. n) = n
  BY <1>1, FS_Interval
<1>4. IsFiniteSet({i} \X (1 .. n)) /\ Cardinality({i} \X (1 .. n)) = 1 * n
  <2> DEFINE A == {i}
             B == 1 .. n
  <2>1. IsFiniteSet(A) /\ IsFiniteSet(B)
    BY <1>2, <1>3
  <2> HIDE DEF A, B
  <2>2. IsFiniteSet(A \X B) /\ Cardinality(A \X B) = Cardinality(A) * Cardinality(B)
    BY <2>1, FS_Product, Zenon
  <2>3. Cardinality(A) = 1 /\ Cardinality(B) = n
    BY <1>2, <1>3 DEF A, B
  <2> QED BY <2>2, <2>3 DEF A, B
<1> QED BY <1>1, <1>4 DEF n

\* A set of intents has finitely many units.
LEMMA UnitsFinite ==
  ASSUME NEW S \in SUBSET Intents
  PROVE  IsFiniteSet(UnitsOf(S))
<1> DEFINE f == [i \in S |-> {i} \X (1 .. Amount[i])]
           R == {{i} \X (1 .. Amount[i]) : i \in S}
<1>1. IsFiniteSet(S)
  BY FS_Subset, AccountAssumption
<1>2. f \in Surjection(S, R)
  BY DEF Surjection
<1>3. IsFiniteSet(R)
  <2> HIDE DEF f, R
  <2> QED BY <1>1, <1>2, FS_Surjection
<1>4. \A T \in R : IsFiniteSet(T)
  BY UnitsOfOne
<1>5. IsFiniteSet(UNION R)
  <2> HIDE DEF R
  <2> QED BY <1>3, <1>4, FS_UNION
<1> QED BY <1>5 DEF UnitsOf

\* A sum is a natural number.
LEMMA TotalNat ==
  ASSUME NEW S \in SUBSET Intents
  PROVE  Total(S) \in Nat
  BY UnitsFinite, FS_CardinalityType DEF Total

\* Nothing sums up to zero.
LEMMA TotalEmpty == Total({}) = 0
<1>1. UnitsOf({}) = {}
  BY DEF UnitsOf
<1> QED BY <1>1, FS_EmptySet DEF Total

\* Fewer intents, a smaller sum.
LEMMA TotalMonotone ==
  ASSUME NEW S \in SUBSET Intents, NEW T \in SUBSET Intents, S \subseteq T
  PROVE  Total(S) <= Total(T)
<1>1. UnitsOf(S) \in SUBSET UnitsOf(T)
  BY DEF UnitsOf
<1> QED BY <1>1, UnitsFinite, FS_Subset DEF Total

\* Sums of disjoint sets add up.
LEMMA TotalDisjoint ==
  ASSUME NEW S \in SUBSET Intents, NEW T \in SUBSET Intents, S \cap T = {}
  PROVE  Total(S \cup T) = Total(S) + Total(T)
<1> DEFINE A == UnitsOf(S)
           B == UnitsOf(T)
<1>1. UnitsOf(S \cup T) = A \cup B
  BY DEF UnitsOf
<1>2. A \cap B = {}
  BY DEF UnitsOf
<1>3. IsFiniteSet(A) /\ IsFiniteSet(B)
  BY UnitsFinite
<1> HIDE DEF A, B
<1>4. Cardinality(A \cup B) = Cardinality(A) + Cardinality(B) - Cardinality(A \cap B)
  BY <1>3, FS_Union
<1>5. Cardinality(A) \in Nat /\ Cardinality(B) \in Nat /\ Cardinality({}) = 0
  BY <1>3, FS_CardinalityType, FS_EmptySet
<1>6. Cardinality(A \cap B) = 0
  BY <1>2, FS_EmptySet, Zenon
<1>7. Cardinality(A \cup B) = Cardinality(A) + Cardinality(B)
  BY <1>4, <1>5, <1>6
<1> QED BY <1>1, <1>7 DEF A, B, Total

\* One more intent adds at most its amount, and exactly its amount if it is new.
LEMMA TotalAdd ==
  ASSUME NEW S \in SUBSET Intents, NEW i \in Intents
  PROVE  /\ Total(S \cup {i}) <= Total(S) + Amount[i]
         /\ i \notin S => Total(S \cup {i}) = Total(S) + Amount[i]
<1>1. UnitsOf({i}) = {i} \X (1 .. Amount[i])
  BY DEF UnitsOf
<1>2. Total({i}) = Amount[i]
  BY <1>1, UnitsOfOne DEF Total
<1>3. CASE i \notin S
  BY <1>2, <1>3, TotalDisjoint, TotalNat, AccountAssumption
<1>4. CASE i \in S
  <2>1. S \cup {i} = S
    BY <1>4
  <2> QED BY <1>4, <2>1, TotalNat, AccountAssumption
<1> QED BY <1>3, <1>4

----------------------------------------------------------------------------
(* Types.                                                                   *)

\* The sums a call reads are numbers, whatever the reservations and debits are.
LEMMA SumsAreNumbers ==
  ASSUME TypeOK
  PROVE  Total(Active) \in Nat /\ Available \in Int
<1>1. Active \in SUBSET Intents /\ reflected \in SUBSET Intents
  BY DEF TypeOK, Active
<1>2. Total(Active) \in Nat /\ Total(reflected) \in Nat
  BY <1>1, TotalNat
<1> QED BY <1>2, AccountAssumption DEF Available

\* Every step preserves TypeOK.
LEMMA NextTypeOK == TypeOK /\ [Next]_vars => TypeOK'
<1> SUFFICES ASSUME TypeOK, [Next]_vars PROVE TypeOK'
  OBVIOUS
<1> USE DEF TypeOK, callVars, bankVars, historyVars, Goto
<1>a. NoIntent \notin Intents
  BY AccountAssumption
<1>1. CASE UNCHANGED vars
  BY <1>1 DEF vars
<1>2. ASSUME NEW i \in Intents,
             \/ GateReads(i) \/ GateChecks(i) \/ HandOffWithoutHold(i) \/ GiveUp(i)
      PROVE  TypeOK'
  BY <1>2, <1>a, SumsAreNumbers
     DEF GateReads, GateChecks, HandOffWithoutHold, GiveUp
<1>3. ASSUME NEW i \in Intents, LockAccount(i) \/ SumHolds(i) \/ Grant(i)
      PROVE  TypeOK'
  BY <1>3, <1>a, SumsAreNumbers DEF LockAccount, SumHolds, Grant
<1>4. ASSUME NEW i \in Intents,
             RailAccepts(i) \/ Settle(i) \/ FailPayment(i) \/ BankDebits(i)
      PROVE  TypeOK'
  BY <1>4 DEF RailAccepts, Settle, Executes, FailPayment, BankDebits
<1>5. ASSUME NEW f \in Feeds, FeedReads(f) \/ FeedWrites(f)
      PROVE  TypeOK'
  BY <1>5 DEF FeedReads, FeedWrites
<1>6. CASE NewWindow
  BY <1>6 DEF NewWindow
<1> QED BY <1>1, <1>2, <1>3, <1>4, <1>5, <1>6 DEF Next

\* The account row is held by exactly the hand-off between its read of the balance
\* and its end, and every variable keeps its type.
THEOREM ReservationTypesCorrect == Spec => []TypeOK
<1>1. Init => TypeOK
  BY AccountAssumption DEF Init, TypeOK
<1>2. TypeOK /\ [Next]_vars => TypeOK'
  BY NextTypeOK
<1> QED BY <1>1, <1>2, PTL DEF Spec

----------------------------------------------------------------------------
(* What a reservation says of its intent, and a call of its reads.          *)

\* The hold of a payment is the one its status calls for, and a call in progress
\* is one for an approved intent.
HoldInv ==
    \A i \in Intents :
        /\ hold[i] = IF i \notin Holding \/ status[i] = "approved" THEN "none"
                     ELSE IF status[i] = "dispatching" THEN "active"
                     ELSE IF status[i] = "executed" THEN "consumed" ELSE "released"
        /\ step[i] # "idle" => status[i] = "approved"
        /\ step[i] \in {"locked", "summed"} => i \in Holding

\* While a hand-off holds the account row, the balance it read is the balance of
\* the row, and the reservations are no more than it summed.
ReadInv ==
    \A i \in Intents :
        /\ step[i] \in {"locked", "summed"} => saw[i] = Available
        /\ step[i] = "summed" => Total(Active) <= held[i]

\* Every step preserves HoldInv.
LEMMA NextHoldInv == TypeOK /\ HoldInv /\ [Next]_vars => HoldInv'
<1> SUFFICES ASSUME TypeOK, HoldInv, [Next]_vars PROVE HoldInv'
  OBVIOUS
<1> USE DEF TypeOK, HoldInv, callVars, bankVars, historyVars, Goto
<1>1. CASE UNCHANGED vars
  BY <1>1 DEF vars
<1>2. ASSUME NEW i \in Intents,
             \/ GateReads(i) \/ GateChecks(i) \/ HandOffWithoutHold(i) \/ GiveUp(i)
      PROVE  HoldInv'
  BY <1>2 DEF GateReads, GateChecks, HandOffWithoutHold, GiveUp
<1>3. ASSUME NEW i \in Intents, LockAccount(i) \/ SumHolds(i) \/ Grant(i)
      PROVE  HoldInv'
  BY <1>3 DEF LockAccount, SumHolds, Grant
<1>4. ASSUME NEW i \in Intents,
             RailAccepts(i) \/ Settle(i) \/ FailPayment(i) \/ BankDebits(i)
      PROVE  HoldInv'
  BY <1>4 DEF RailAccepts, Settle, Executes, FailPayment, BankDebits
<1>5. ASSUME NEW f \in Feeds, FeedReads(f) \/ FeedWrites(f)
      PROVE  HoldInv'
  BY <1>5 DEF FeedReads, FeedWrites
<1>6. CASE NewWindow
  BY <1>6 DEF NewWindow
<1> QED BY <1>1, <1>2, <1>3, <1>4, <1>5, <1>6 DEF Next

\* What a step can do to the reservations: grant the one its transaction holds the
\* account row for, or take some away.
LEMMA ActiveSteps ==
  ASSUME TypeOK, HoldInv, [Next]_vars
  PROVE  \/ Active' \subseteq Active /\ \A i \in Intents : hold'[i] = "active" => hold[i] = "active"
         \/ \E i \in Intents :
              /\ Grant(i)
              /\ i \notin Active
              /\ Active' = Active \cup {i}
<1> USE DEF TypeOK, Active, callVars, bankVars, historyVars
<1>1. CASE UNCHANGED vars
  BY <1>1 DEF vars
<1>2. ASSUME NEW i \in Intents,
             \/ GateReads(i) \/ GateChecks(i) \/ HandOffWithoutHold(i) \/ GiveUp(i)
             \/ LockAccount(i) \/ SumHolds(i) \/ RailAccepts(i) \/ BankDebits(i)
      PROVE  hold' = hold
  BY <1>2 DEF GateReads, GateChecks, HandOffWithoutHold, GiveUp, LockAccount, SumHolds,
              RailAccepts, BankDebits
<1>3. ASSUME NEW i \in Intents, Grant(i)
      PROVE  i \notin Active /\ Active' = Active \cup {i}
  BY <1>3 DEF Grant, HoldInv
<1>4. ASSUME NEW i \in Intents, Settle(i) \/ FailPayment(i)
      PROVE  \A j \in Intents : hold'[j] = "active" => hold[j] = "active"
  BY <1>4 DEF Settle, Executes, FailPayment
<1>5. ASSUME NEW f \in Feeds, FeedReads(f) \/ FeedWrites(f)
      PROVE  hold' = hold
  BY <1>5 DEF FeedReads, FeedWrites
<1>6. NewWindow => hold' = hold
  BY DEF NewWindow
<1> QED BY <1>1, <1>2, <1>3, <1>4, <1>5, <1>6 DEF Next

\* A step that changes what the account row shows is a feed's, while nobody holds
\* the row.
LEMMA BalanceSteps ==
  ASSUME TypeOK, [Next]_vars, reflected' # reflected
  PROVE  lock = NoIntent /\ UNCHANGED <<step, saw, held, status, hold, blind>>
  BY DEF TypeOK, Next, vars, callVars, bankVars, historyVars, GateReads, GateChecks,
         LockAccount, SumHolds, Grant, HandOffWithoutHold, GiveUp, RailAccepts, Settle,
         Executes, FailPayment, BankDebits, FeedReads, FeedWrites, NewWindow

\* What one step does to a call that holds the account row.
LEMMA CallSteps ==
  ASSUME TypeOK, [Next]_vars, NEW i \in Intents, step'[i] \in {"locked", "summed"}
  PROVE  \/ LockAccount(i)
         \/ SumHolds(i)
         \/ step'[i] = step[i] /\ saw'[i] = saw[i] /\ held'[i] = held[i]
  BY DEF TypeOK, Next, vars, callVars, bankVars, historyVars, Goto, GateReads, GateChecks,
         LockAccount, SumHolds, Grant, HandOffWithoutHold, GiveUp, RailAccepts, Settle,
         Executes, FailPayment, BankDebits, FeedReads, FeedWrites, NewWindow

\* Every step preserves ReadInv: the row lock keeps feeds and other hand-offs out.
LEMMA NextReadInv == TypeOK /\ HoldInv /\ ReadInv /\ [Next]_vars => ReadInv'
<1> SUFFICES ASSUME TypeOK, HoldInv, ReadInv, [Next]_vars, NEW i \in Intents,
                    step'[i] \in {"locked", "summed"}
             PROVE  /\ saw'[i] = Available'
                    /\ step'[i] = "summed" => Total(Active)' <= held'[i]
  BY DEF ReadInv
<1>a. TypeOK'
  BY NextTypeOK
<1>b. lock' = i
  BY <1>a DEF TypeOK
<1>c. i # NoIntent
  BY AccountAssumption
<1>1. CASE LockAccount(i)
  <2>1. reflected' = reflected /\ step'[i] = "locked" /\ saw'[i] = Available
    BY <1>1 DEF LockAccount, bankVars, Goto, TypeOK
  <2> QED BY <2>1 DEF Available
<1>2. CASE SumHolds(i)
  <2>1. reflected' = reflected /\ hold' = hold /\ saw' = saw /\ held'[i] = Total(Active)
    BY <1>2 DEF SumHolds, bankVars, TypeOK
  <2>2. saw[i] = Available
    BY <1>2 DEF SumHolds, ReadInv
  <2>3. Active' = Active
    BY <2>1 DEF Active
  <2>4. Total(Active)' = Total(Active) /\ Total(Active) \in Nat
    BY <2>3, SumsAreNumbers
  <2> QED BY <2>1, <2>2, <2>4 DEF Available
<1>3. CASE step'[i] = step[i] /\ saw'[i] = saw[i] /\ held'[i] = held[i]
  <2>1. lock = i
    BY <1>3 DEF TypeOK
  <2>2. reflected' = reflected
    BY <1>c, <2>1, BalanceSteps
  <2>3. saw[i] = Available /\ (step[i] = "summed" => Total(Active) <= held[i])
    BY <1>3 DEF ReadInv
  <2>4. Active' \subseteq Active
    <3>1. ASSUME NEW j \in Intents, Grant(j) PROVE FALSE
      <4>1. j = i
        BY <2>1, <3>1 DEF Grant, TypeOK
      <4> QED BY <1>3, <3>1, <4>1 DEF Grant, Goto, TypeOK
    <3> QED BY <3>1, ActiveSteps
  <2>5. Total(Active)' <= Total(Active)
    BY <2>4, TotalMonotone DEF Active
  <2>6. Total(Active) \in Nat /\ Total(Active') \in Nat /\ held[i] \in Nat
    BY SumsAreNumbers, TotalNat DEF Active, TypeOK
  <2> QED BY <1>3, <2>2, <2>3, <2>5, <2>6 DEF Available
<1> QED BY <1>1, <1>2, <1>3, CallSteps

\* The invariants the promises below rest on.
CallInv == TypeOK /\ HoldInv /\ ReadInv

\* CallInv holds throughout.
LEMMA CallInvariant == Spec => []CallInv
<1>1. Init => CallInv
  BY AccountAssumption DEF Init, CallInv, TypeOK, HoldInv, ReadInv
<1>2. CallInv /\ [Next]_vars => CallInv'
  BY NextTypeOK, NextHoldInv, NextReadInv DEF CallInv
<1> QED BY <1>1, <1>2, PTL DEF Spec

----------------------------------------------------------------------------
(* Reservations fit.                                                        *)

\* A grant fits into the balance the row shows, whatever was consumed, released or
\* attempted since the balance was read.
LEMMA GrantFits ==
  ASSUME CallInv, NEW i \in Intents, Grant(i), i \notin Active, Active' = Active \cup {i}
  PROVE  /\ Total(Active') <= Available
         /\ reflected' = reflected
<1>1. saw[i] = Available /\ Total(Active) <= held[i] /\ saw[i] >= Amount[i] + held[i]
  BY DEF Grant, CallInv, ReadInv
<1>2. Active \in SUBSET Intents
  BY DEF Active
<1>3. Total(Active \cup {i}) = Total(Active) + Amount[i]
  BY <1>2, TotalAdd
<1>4. Total(Active) \in Nat /\ Available \in Int /\ Amount[i] \in Nat /\ held[i] \in Nat
  BY SumsAreNumbers, AccountAssumption DEF CallInv, TypeOK
<1>5. reflected' = reflected
  BY DEF Grant, bankVars
<1> QED BY <1>1, <1>3, <1>4, <1>5

\* Two hand-offs never reserve the same balance.
THEOREM ReservationsAlwaysFit == Spec => ReservationsFit
<1>1. CallInv /\ [Next]_vars
        => [(\E i \in Intents : hold[i] # "active" /\ hold'[i] = "active")
              => Total(Active') <= Available']_vars
  <2> SUFFICES ASSUME CallInv, [Next]_vars,
                      NEW j \in Intents, hold[j] # "active", hold'[j] = "active"
               PROVE  Total(Active') <= Available'
    OBVIOUS
  <2>1. PICK i \in Intents : Grant(i) /\ i \notin Active /\ Active' = Active \cup {i}
    BY ActiveSteps DEF CallInv
  <2>2. Total(Active') <= Available /\ reflected' = reflected
    BY <2>1, GrantFits
  <2> QED BY <2>2 DEF Available
<1> QED BY <1>1, CallInvariant, PTL DEF Spec, ReservationsFit

----------------------------------------------------------------------------
(* Funds are promised once.                                                 *)

Promised == Active \cup Gone

\* Apart from a grant no step promises more.
LEMMA PromisedSteps ==
  ASSUME CallInv, [Next]_vars, NEW j \in Promised', j \notin Promised
  PROVE  Grant(j)
<1> USE DEF CallInv, TypeOK, HoldInv, Promised, Active, Gone, callVars, bankVars,
            historyVars
<1>0. j \in Intents
  BY AccountAssumption
<1>1. CASE UNCHANGED vars
  BY <1>1 DEF vars
<1>2. ASSUME NEW i \in Intents,
             \/ GateReads(i) \/ GateChecks(i) \/ GiveUp(i)
             \/ LockAccount(i) \/ SumHolds(i) \/ RailAccepts(i) \/ BankDebits(i)
      PROVE  FALSE
  BY <1>2 DEF GateReads, GateChecks, GiveUp, LockAccount, SumHolds,
              RailAccepts, BankDebits
<1>3. ASSUME NEW i \in Intents, HandOffWithoutHold(i)
      PROVE  FALSE
  BY <1>3 DEF HandOffWithoutHold
<1>4. ASSUME NEW i \in Intents, Grant(i)
      PROVE  j = i
  BY <1>4 DEF Grant
<1>5. ASSUME NEW i \in Intents, Settle(i) \/ FailPayment(i)
      PROVE  FALSE
  BY <1>5 DEF Settle, Executes, FailPayment
<1>6. ASSUME NEW f \in Feeds, FeedReads(f) \/ FeedWrites(f)
      PROVE  FALSE
  BY <1>6 DEF FeedReads, FeedWrites
<1>7. NewWindow => FALSE
  BY DEF NewWindow
<1> QED BY <1>1, <1>2, <1>3, <1>4, <1>5, <1>6, <1>7 DEF Next

\* A grant that misses no debit promises no more than the bank had.
LEMMA SeeingGrant ==
  ASSUME CallInv, [Next]_vars, NEW i \in Intents, Grant(i), blind' = {}
  PROVE  Total(Promised') <= Opening
<1>1. i \notin Active /\ Active' = Active \cup {i}
  BY DEF CallInv, TypeOK, HoldInv, Grant, Active
<1>2. Total(Active') <= Available /\ reflected' = reflected
  BY <1>1, GrantFits
<1>3. Gone' \subseteq reflected
  BY <1>1 DEF Grant, Gone, bankVars
<1> DEFINE A == Active'
           E == Gone'
<1>5. A \in SUBSET Intents /\ E \in SUBSET Intents /\ reflected \in SUBSET Intents
  BY <1>3 DEF Active, CallInv, TypeOK
<1>6. A \cap E = {}
  BY DEF Gone
<1>7. Promised' = A \cup E
  BY DEF Promised
<1>8. Total(A) <= Opening - Total(reflected)
  BY <1>2 DEF Available
<1> HIDE DEF A, E
<1>9. Total(A \cup E) = Total(A) + Total(E)
  BY <1>5, <1>6, TotalDisjoint
<1>10. Total(E) <= Total(reflected)
  BY <1>3, <1>5, TotalMonotone DEF E
<1>11. Total(A) \in Nat /\ Total(E) \in Nat /\ Total(reflected) \in Nat /\ Opening \in Nat
  BY <1>5, TotalNat, AccountAssumption
<1> QED BY <1>7, <1>8, <1>9, <1>10, <1>11

\* The history of blind grants only grows.
LEMMA BlindGrows ==
  ASSUME [Next]_vars
  PROVE  blind \subseteq blind'
  BY DEF Next, vars, callVars, bankVars, historyVars, GateReads, GateChecks,
         LockAccount, SumHolds, Grant, HandOffWithoutHold, GiveUp, RailAccepts, Settle,
         Executes, FailPayment, BankDebits, FeedReads, FeedWrites, NewWindow

\* With an up-to-date balance at every grant, no money is promised twice.
THEOREM FundsArePromisedOnce == Spec => []FundsPromisedOnce
<1>1. Init => FundsPromisedOnce
  <2> SUFFICES ASSUME Init PROVE FundsPromisedOnce
    OBVIOUS
  <2>1. Active \cup Gone = {}
    BY DEF Init, Active, Gone
  <2> QED BY <2>1, TotalEmpty, AccountAssumption DEF FundsPromisedOnce
<1>2. CallInv /\ FundsPromisedOnce /\ [Next]_vars => FundsPromisedOnce'
  <2> SUFFICES ASSUME CallInv, FundsPromisedOnce, [Next]_vars, blind' = {}
               PROVE  Total(Promised') <= Opening
    BY DEF FundsPromisedOnce, Promised
  <2>1. CASE \E i \in Intents : Grant(i)
    BY <2>1, SeeingGrant
  <2>2. CASE ~ \E i \in Intents : Grant(i)
    <3>0. Promised' \in SUBSET Intents /\ Promised \in SUBSET Intents
      BY AccountAssumption DEF Promised, Active, Gone
    <3>1. Promised' \subseteq Promised
      BY <2>2, <3>0, PromisedSteps
    <3>2. Total(Promised) <= Opening
      BY BlindGrows DEF FundsPromisedOnce, Promised
    <3>3. Total(Promised') <= Total(Promised)
      BY <3>0, <3>1, TotalMonotone
    <3>4. Total(Promised') \in Nat /\ Total(Promised) \in Nat
      BY <3>0, TotalNat
    <3> QED BY <3>2, <3>3, <3>4, AccountAssumption
  <2> QED BY <2>1, <2>2
<1> QED BY <1>1, <1>2, CallInvariant, PTL DEF Spec

----------------------------------------------------------------------------
(* The window cap.                                                          *)

\* A payment past its gate that nothing has overtaken still fits into the window,
\* and a window over the cap holds a payment that was overtaken.
CapInv ==
    /\ CapExactWhenSequential
    /\ \A i \in Intents :
         InFlight(i) /\ i \notin overtaken => Total(spent) + Amount[i] <= WindowCap

\* A settlement preserves CapInv: it overtakes all others in flight.
LEMMA SettleCapInv ==
  ASSUME CallInv, CapInv, NEW i \in Intents, Settle(i)
  PROVE  CapInv'
<1>1. InFlight(i)
  BY DEF Settle, Executes, InFlight
<1>2. spent' = spent \cup {i} /\ spent \in SUBSET Intents /\ overtaken \subseteq overtaken'
  BY DEF Settle, Executes, CallInv, TypeOK
<1>3. Total(spent') <= Total(spent) + Amount[i]
  BY <1>2, TotalAdd
<1>4. Total(spent') \in Nat /\ Total(spent) \in Nat
  BY <1>2, TotalNat
<1>5. CapExactWhenSequential'
  <2>1. CASE i \in overtaken
    BY <1>2, <2>1 DEF CapExactWhenSequential
  <2>2. CASE i \notin overtaken
    <3>1. Total(spent) + Amount[i] <= WindowCap
      BY <1>1, <2>2 DEF CapInv
    <3>2. Total(spent') <= WindowCap
      BY <1>3, <1>4, <3>1, AccountAssumption
    <3> QED BY <1>4, <3>2, AccountAssumption DEF CapExactWhenSequential
  <2> QED BY <2>1, <2>2
<1>6. ASSUME NEW j \in Intents, InFlight(j)', j \notin overtaken'
      PROVE  FALSE
  <2>1. step' = step /\ status' = [status EXCEPT ![i] = "executed"]
    BY DEF Settle, Executes, callVars
  <2>2. CASE j # i
    <3>1. InFlight(j)
      BY <1>6, <2>1, <2>2 DEF InFlight, CallInv, TypeOK
    <3> QED BY <1>6, <2>2, <3>1 DEF Settle, Executes
  <2>3. CASE j = i
    BY <1>6, <2>1, <2>3 DEF InFlight, Settle, Executes, CallInv, TypeOK, HoldInv
  <2> QED BY <2>2, <2>3
<1> QED BY <1>5, <1>6 DEF CapInv

\* The gate preserves CapInv: it lets through only what fits.
LEMMA GateCapInv ==
  ASSUME CallInv, CapInv, NEW i \in Intents, GateChecks(i)
  PROVE  CapInv'
<1>1. spent' = spent /\ overtaken' = overtaken /\ Total(spent) + Amount[i] <= WindowCap
  BY DEF GateChecks, historyVars
<1>2. \A j \in Intents \ {i} : InFlight(j)' => InFlight(j)
  BY DEF GateChecks, InFlight, Goto, CallInv, TypeOK
<1> QED BY <1>1, <1>2 DEF CapInv, CapExactWhenSequential

\* The other steps bring nothing past its gate and spend nothing.
LEMMA OtherCapSteps ==
  ASSUME CallInv, [Next]_vars,
         ~ \E i \in Intents : Settle(i) \/ GateChecks(i)
  PROVE  /\ \A i \in Intents : InFlight(i)' => InFlight(i)
         /\ spent' = spent \/ spent' = {}
         /\ overtaken' = overtaken
<1> USE DEF CallInv, TypeOK, HoldInv, InFlight, callVars, bankVars, historyVars, Goto
<1>1. CASE UNCHANGED vars
  BY <1>1 DEF vars
<1>2. ASSUME NEW i \in Intents,
             \/ GateReads(i) \/ LockAccount(i) \/ SumHolds(i) \/ Grant(i)
             \/ HandOffWithoutHold(i) \/ GiveUp(i)
      PROVE  (\A j \in Intents : InFlight(j)' => InFlight(j))
             /\ UNCHANGED <<spent, overtaken>>
  BY <1>2 DEF GateReads, LockAccount, SumHolds, Grant, HandOffWithoutHold, GiveUp
<1>3. ASSUME NEW i \in Intents, RailAccepts(i) \/ FailPayment(i) \/ BankDebits(i)
      PROVE  (\A j \in Intents : InFlight(j)' => InFlight(j))
             /\ UNCHANGED <<spent, overtaken>>
  BY <1>3 DEF RailAccepts, FailPayment, BankDebits
<1>4. ASSUME NEW f \in Feeds, FeedReads(f) \/ FeedWrites(f)
      PROVE  UNCHANGED <<step, status, spent, overtaken>>
  BY <1>4 DEF FeedReads, FeedWrites
<1>5. NewWindow => UNCHANGED <<step, status, overtaken>> /\ spent' = {}
  BY DEF NewWindow
<1> QED BY <1>1, <1>2, <1>3, <1>4, <1>5 DEF Next

\* The window cap is exact for payments that follow one another.
THEOREM CapIsExactWhenSequential == Spec => []CapExactWhenSequential
<1>1. Init => CapInv
  <2> SUFFICES ASSUME Init PROVE CapInv
    OBVIOUS
  <2>1. Total(spent) = 0
    BY TotalEmpty DEF Init
  <2> QED BY <2>1, AccountAssumption DEF Init, CapInv, CapExactWhenSequential, InFlight
<1>2. CallInv /\ CapInv /\ [Next]_vars => CapInv'
  <2> SUFFICES ASSUME CallInv, CapInv, [Next]_vars PROVE CapInv'
    OBVIOUS
  <2>1. CASE \E i \in Intents : Settle(i) \/ GateChecks(i)
    BY <2>1, SettleCapInv, GateCapInv
  <2>2. CASE ~ \E i \in Intents : Settle(i) \/ GateChecks(i)
    <3>1. /\ \A i \in Intents : InFlight(i)' => InFlight(i)
          /\ spent' = spent \/ spent' = {}
          /\ overtaken' = overtaken
      BY <2>2, OtherCapSteps
    <3>2. CASE spent' = spent
      BY <3>1, <3>2 DEF CapInv, CapExactWhenSequential
    <3>3. CASE spent' = {}
      <4>1. Total(spent') = 0 /\ Total(spent) \in Nat
        BY <3>3, TotalEmpty, TotalNat DEF CallInv, TypeOK
      <4>2. CapExactWhenSequential'
        BY <4>1, AccountAssumption DEF CapExactWhenSequential
      <4>3. ASSUME NEW i \in Intents, InFlight(i)', i \notin overtaken'
            PROVE  Total(spent') + Amount[i] <= WindowCap
        <5>1. Total(spent) + Amount[i] <= WindowCap
          BY <3>1, <4>3 DEF CapInv
        <5> QED BY <4>1, <5>1, AccountAssumption
      <4> QED BY <4>2, <4>3 DEF CapInv
    <3> QED BY <3>1, <3>2, <3>3
  <2> QED BY <2>1, <2>2
<1>3. CapInv => CapExactWhenSequential
  BY DEF CapInv
<1> QED BY <1>1, <1>2, <1>3, CallInvariant, PTL DEF Spec

----------------------------------------------------------------------------
(* The reservations implement PaymentSettlement.                            *)

\* What the settlement sees of a status.
LEMMA Views ==
  /\ PhaseOf("approved") = "open"
  /\ PhaseOf("dispatching") = "committed"
  /\ PhaseOf("executed") = "settled"
  /\ PhaseOf("failed") = "failed"
  BY DEF PhaseOf

\* Moving one intent moves its phase and no other.
LEMMA PhaseOfMove ==
  ASSUME TypeOK, NEW i \in Intents, NEW st, status' = [status EXCEPT ![i] = st]
  PROVE  phase' = [phase EXCEPT ![i] = PhaseOf(st)]
  BY DEF phase, TypeOK

\* A hand-off is a commitment.
LEMMA HandOffSimulates ==
  ASSUME CallInv, NEW i \in Intents, Grant(i) \/ HandOffWithoutHold(i)
  PROVE  Settlement!Commit(i)
<1>1. /\ status[i] = "approved"
      /\ status' = [status EXCEPT ![i] = "dispatching"]
      /\ hold' = [hold EXCEPT ![i] = IF i \in Holding THEN "active" ELSE "none"]
  BY DEF CallInv, TypeOK, HoldInv, Grant, HandOffWithoutHold
<1>2. phase[i] = "open"
  BY <1>1, Views DEF phase
<1>3. phase' = [phase EXCEPT ![i] = PhaseOf("dispatching")]
  BY <1>1, PhaseOfMove DEF CallInv
<1>4. posted' = posted
  BY <1>1 DEF posted, CallInv, TypeOK
<1> QED BY <1>1, <1>2, <1>3, <1>4, Views DEF Settlement!Commit

\* A settlement is a posting.
LEMMA SettleSimulates ==
  ASSUME CallInv, NEW i \in Intents, Settle(i)
  PROVE  Settlement!Post(i)
<1>1. /\ status[i] = "dispatching"
      /\ status' = [status EXCEPT ![i] = "executed"]
      /\ hold' = [hold EXCEPT ![i] = IF i \in Holding THEN "consumed" ELSE "none"]
  BY DEF CallInv, TypeOK, HoldInv, Settle, Executes
<1>2. phase[i] = "committed"
  BY <1>1, Views DEF phase
<1>3. phase' = [phase EXCEPT ![i] = PhaseOf("executed")]
  BY <1>1, PhaseOfMove DEF CallInv
<1>4. posted' = [posted EXCEPT ![i] = 1]
  BY <1>1 DEF posted, CallInv, TypeOK
<1> QED BY <1>1, <1>2, <1>3, <1>4, Views DEF Settlement!Post

\* A failed payment is a failure.
LEMMA FailSimulates ==
  ASSUME CallInv, NEW i \in Intents, FailPayment(i)
  PROVE  Settlement!Fail(i)
<1>1. /\ status[i] = "dispatching"
      /\ status' = [status EXCEPT ![i] = "failed"]
      /\ hold' = [hold EXCEPT ![i] = IF i \in Holding THEN "released" ELSE "none"]
  BY DEF CallInv, TypeOK, HoldInv, FailPayment
<1>2. phase[i] = "committed"
  BY <1>1, Views DEF phase
<1>3. phase' = [phase EXCEPT ![i] = PhaseOf("failed")]
  BY <1>1, PhaseOfMove DEF CallInv
<1>4. posted' = posted
  BY <1>1 DEF posted, CallInv, TypeOK
<1> QED BY <1>1, <1>2, <1>3, <1>4, Views DEF Settlement!Fail

\* Every other step leaves the settlement alone.
LEMMA OthersStutter ==
  ASSUME [Next]_vars,
         ~ \E i \in Intents : Grant(i) \/ HandOffWithoutHold(i) \/ Settle(i) \/ FailPayment(i)
  PROVE  UNCHANGED <<phase, hold, posted>>
<1>1. UNCHANGED <<status, hold>>
  BY DEF Next, vars, callVars, bankVars, historyVars, GateReads, GateChecks, LockAccount,
         SumHolds, GiveUp, RailAccepts, BankDebits, FeedReads, FeedWrites, NewWindow
<1> QED BY <1>1 DEF phase, posted

\* The reservations keep PaymentSettlement's promise, whatever calls, feeds and
\* settlements do in between.
THEOREM ReservationsImplementSettlement == Spec => ImplementsSettlement
<1>1. Init => Settlement!Start
  <2> SUFFICES ASSUME Init PROVE Settlement!Start
    OBVIOUS
  <2>1. phase = [i \in Intents |-> "open"]
    BY Views DEF Init, phase
  <2>2. posted = [i \in Intents |-> 0]
    BY DEF Init, posted
  <2> QED BY <2>1, <2>2 DEF Init, Settlement!Start
<1>2. CallInv /\ [Next]_vars => [Settlement!Advance]_(Settlement!settlementVars)
  <2> SUFFICES ASSUME CallInv, [Next]_vars
               PROVE  Settlement!Advance \/ UNCHANGED <<phase, hold, posted>>
    BY DEF Settlement!settlementVars
  <2> QED BY HandOffSimulates, SettleSimulates, FailSimulates, OthersStutter
          DEF Settlement!Advance
<1> QED BY <1>1, <1>2, CallInvariant, PTL DEF Spec, ImplementsSettlement, Settlement!Spec
=============================================================================
