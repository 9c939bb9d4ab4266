-------------------------- MODULE LLMChain_proofs --------------------------
(***************************************************************************)
(* Theorems about LLMChain, for every number of calls, providers and       *)
(* slots.  The inductive invariant adds to the invariants checked by TLC   *)
(* that a call has no result before it has returned.                       *)
(***************************************************************************)
EXTENDS LLMChain, FiniteSetTheorems, TLAPS

NoResultYet == \A c \in Calls : pc[c] # "returned" => result[c] = "none"

IInv == TypeOK /\ SlotsAreHeld /\ UsageOfModelAnswersOnly /\ NoResultYet

\* The calls that hold a slot are finitely many.
LEMMA HoldersFinite == IsFiniteSet(Holders)
  BY ChainAssumption, FS_Subset DEF Holders

\* A step that leaves slots alone and moves no call into or out of Holding.
LEMMA SameHolders ==
    ASSUME SlotsAreHeld, UNCHANGED slots, Holders' = Holders
    PROVE  SlotsAreHeld'
  BY DEF SlotsAreHeld, Capped

\* A call that leaves Holding through Release gives back the slot it held.
LEMMA ReleaseKeepsSlots ==
    ASSUME TypeOK, SlotsAreHeld, NEW c \in Calls, NEW v \in Results,
           pc[c] \in Holding, Return(c, v), Release
    PROVE  SlotsAreHeld' /\ slots' \in Nat
  <1>1. c \in Holders
    BY DEF Holders
  <1>2. Holders' = Holders \ {c}
    BY DEF Holders, Return, TypeOK, Holding
  <1>3. /\ Cardinality(Holders') = Cardinality(Holders) - 1
        /\ Cardinality(Holders) \in Nat
        /\ Cardinality(Holders') \in Nat
    <2>1. IsFiniteSet(Holders')
      BY <1>2, HoldersFinite, FS_Subset
    <2>2. Cardinality(Holders') \in Nat
      BY <2>1, FS_CardinalityType
    <2> QED BY <1>1, <1>2, <2>2, HoldersFinite, FS_RemoveElement, FS_CardinalityType
  <1>4. CASE Capped
    <2>1. slots = Cardinality(Holders) /\ slots <= MaxConcurrent
      BY <1>4 DEF SlotsAreHeld
    <2>2. slots' = slots - 1
      BY <1>4 DEF Release
    <2> QED BY <1>3, <2>1, <2>2, ChainAssumption DEF SlotsAreHeld, Capped
  <1>5. CASE ~Capped
    BY <1>5 DEF Release, SlotsAreHeld, Capped, TypeOK
  <1> QED BY <1>4, <1>5

\* A call that takes a slot fills one that was free.
LEMMA AcquireKeepsSlots ==
    ASSUME TypeOK, SlotsAreHeld, NEW c \in Calls, Acquire(c)
    PROVE  SlotsAreHeld' /\ slots' \in Nat
  <1>1. c \notin Holders /\ Holders' = Holders \cup {c}
    BY DEF Holders, Acquire, TypeOK, Holding
  <1>2. /\ Cardinality(Holders') = Cardinality(Holders) + 1
        /\ Cardinality(Holders) \in Nat
    BY <1>1, HoldersFinite, FS_AddElement, FS_CardinalityType
  <1> QED BY <1>2, ChainAssumption DEF Acquire, SlotsAreHeld, Capped, TypeOK

-----------------------------------------------------------------------------
\* The invariant holds initially.
LEMMA InitHolds == Init => IInv
  <1> SUFFICES ASSUME Init PROVE IInv
    OBVIOUS
  <1>1. Holders = {}
    BY DEF Init, Holders, Holding
  <1>2. Cardinality(Holders) = 0
    BY <1>1, FS_EmptySet
  <1>3. TypeOK
    BY ChainAssumption DEF Init, TypeOK, Labels, Results
  <1>4. SlotsAreHeld
    BY <1>2, ChainAssumption DEF Init, SlotsAreHeld, Capped
  <1> QED BY <1>3, <1>4 DEF IInv, Init, UsageOfModelAnswersOnly, NoResultYet

\* Every step of the chain preserves the invariant, one case per action.
LEMMA StepKeeps ==
    ASSUME IInv, Next
    PROVE  IInv'
  <1> USE DEF IInv
  <1>1. ASSUME NEW c \in Calls, Start(c) PROVE IInv'
    <2>1. TypeOK'
      BY <1>1 DEF Start, TypeOK, Labels, Holding
    <2>2. SlotsAreHeld'
      <3>1. CASE Capped
        <4>1. Holders' = Holders
          BY <1>1, <3>1 DEF Start, Holders, Holding, TypeOK
        <4> QED BY <1>1, <4>1, SameHolders DEF Start
      <3>2. CASE ~Capped
        BY <3>2 DEF SlotsAreHeld, Capped
      <3> QED BY <3>1, <3>2
    <2> QED BY <1>1, <2>1, <2>2 DEF Start, UsageOfModelAnswersOnly, NoResultYet, TypeOK
  <1>2. ASSUME NEW c \in Calls, Acquire(c) PROVE IInv'
    <2>1. SlotsAreHeld' /\ slots' \in Nat
      BY <1>2, AcquireKeepsSlots
    <2>2. TypeOK'
      BY <1>2, <2>1 DEF Acquire, TypeOK, Labels, Holding
    <2> QED BY <1>2, <2>1, <2>2 DEF Acquire, UsageOfModelAnswersOnly, NoResultYet, TypeOK
  <1>3. ASSUME NEW c \in Calls, GiveUp(c) PROVE IInv'
    <2>1. TypeOK'
      BY <1>3 DEF GiveUp, Return, TypeOK, Labels, Results
    <2>2. Holders' = Holders
      BY <1>3 DEF GiveUp, Return, Holders, Holding, TypeOK
    <2>3. SlotsAreHeld'
      BY <1>3, <2>2, SameHolders DEF GiveUp
    <2> QED BY <1>3, <2>1, <2>3 DEF GiveUp, Return, UsageOfModelAnswersOnly, NoResultYet, TypeOK
  <1>4. ASSUME NEW c \in Calls, Choose(c) PROVE IInv'
    <2>1. TypeOK'
      BY <1>4, ChainAssumption DEF Choose, TakesTemperature, TypeOK, Labels, Holding
    <2>2. Holders' = Holders
      BY <1>4 DEF Choose, Holders, Holding, TypeOK
    <2>3. SlotsAreHeld'
      BY <1>4, <2>2, SameHolders DEF Choose
    <2> QED BY <1>4, <2>1, <2>3 DEF Choose, UsageOfModelAnswersOnly, NoResultYet, TypeOK
  <1>5. ASSUME NEW c \in Calls, ProviderAnswers(c) PROVE IInv'
    <2>1. SlotsAreHeld' /\ slots' \in Nat
      BY <1>5, ReleaseKeepsSlots DEF ProviderAnswers, Holding, Results
    <2>2. TypeOK'
      BY <1>5, <2>1 DEF ProviderAnswers, Return, TypeOK, Labels, Results
    <2> QED BY <1>5, <2>1, <2>2 DEF ProviderAnswers, Return, UsageOfModelAnswersOnly, NoResultYet, TypeOK
  <1>6. ASSUME NEW c \in Calls, ProviderFails(c) PROVE IInv'
    <2>1. TypeOK'
      BY <1>6 DEF ProviderFails, TypeOK, Labels, Holding
    <2>2. Holders' = Holders
      BY <1>6 DEF ProviderFails, Holders, Holding, TypeOK
    <2>3. SlotsAreHeld'
      BY <1>6, <2>2, SameHolders DEF ProviderFails
    <2> QED BY <1>6, <2>1, <2>3 DEF ProviderFails, UsageOfModelAnswersOnly, NoResultYet, TypeOK
  <1>7. ASSUME NEW c \in Calls, RejectTemperature(c) PROVE IInv'
    <2>1. TypeOK'
      BY <1>7, ChainAssumption DEF RejectTemperature, TypeOK
    <2>2. Holders' = Holders
      BY <1>7 DEF RejectTemperature, Holders
    <2>3. SlotsAreHeld'
      BY <1>7, <2>2, SameHolders DEF RejectTemperature
    <2> QED BY <1>7, <2>1, <2>3 DEF RejectTemperature, UsageOfModelAnswersOnly, NoResultYet
  <1>8. ASSUME NEW c \in Calls, FallBack(c) PROVE IInv'
    <2>1. SlotsAreHeld' /\ slots' \in Nat
      BY <1>8, ReleaseKeepsSlots DEF FallBack, Holding, Results
    <2>2. TypeOK'
      BY <1>8, <2>1 DEF FallBack, Return, TypeOK, Labels, Results
    <2> QED BY <1>8, <2>1, <2>2 DEF FallBack, Return, UsageOfModelAnswersOnly, NoResultYet, TypeOK
  <1>9. ASSUME NEW c \in Calls, RecordUsage(c) PROVE IInv'
    <2>1. TypeOK'
      BY <1>9 DEF RecordUsage, TypeOK
    <2>2. SlotsAreHeld'
      BY <1>9, SameHolders DEF RecordUsage, Holders
    <2> QED BY <1>9, <2>1, <2>2 DEF RecordUsage, UsageOfModelAnswersOnly, NoResultYet, TypeOK
  <1>10. ASSUME NEW c \in Calls, Expire(c) PROVE IInv'
    <2>1. TypeOK'
      BY <1>10 DEF Expire, TypeOK
    <2>2. SlotsAreHeld'
      BY <1>10, SameHolders DEF Expire, Holders
    <2> QED BY <1>10, <2>1, <2>2 DEF Expire, UsageOfModelAnswersOnly, NoResultYet
  <1>11. CASE Finished
    BY <1>11, SameHolders DEF Finished, vars, Holders, TypeOK, UsageOfModelAnswersOnly, NoResultYet
  <1> QED BY <1>1, <1>2, <1>3, <1>4, <1>5, <1>6, <1>7, <1>8, <1>9, <1>10, <1>11 DEF Next, Step

\* The inductive invariant holds of every behaviour of the chain.
THEOREM Invariance == Spec => []IInv
  <1>1. IInv /\ UNCHANGED vars => IInv'
    BY DEF IInv, vars, Holders, SlotsAreHeld, Capped, TypeOK, UsageOfModelAnswersOnly, NoResultYet
  <1> QED BY InitHolds, StepKeeps, <1>1, PTL DEF Spec

\* The variables of the chain keep their types.
THEOREM TypeCorrect == Spec => []TypeOK
  BY Invariance, PTL DEF IInv

\* However many calls compete for however many slots, the tokens in the channel
\* are exactly those of the calls between acquire and their deferred release,
\* and never more than the limit (chained.go, acquire and Complete).
THEOREM NoSlotLeaks == Spec => []SlotsAreHeld
  BY Invariance, PTL DEF IInv

\* Usage is recorded for exactly the calls that a real model answered.
THEOREM UsageIsExact == Spec => []UsageOfModelAnswersOnly
  BY Invariance, PTL DEF IInv

\* The rejection of a temperature is never forgotten, and no call starts sending
\* one again to the provider it is at (anthropic.go, noTemperature).
THEOREM TemperatureStaysDropped == Spec => TemperatureDroppedForGood
  <1>1. IInv /\ [Next]_vars =>
            [/\ noTemperature \subseteq noTemperature'
             /\ \A c \in Calls : temperature'[c] /\ ~temperature[c] =>
                    at'[c] \notin noTemperature /\ at'[c] # at[c]]_vars
    <2> SUFFICES ASSUME IInv, Next
                 PROVE  /\ noTemperature \subseteq noTemperature'
                        /\ \A c \in Calls : temperature'[c] /\ ~temperature[c] =>
                               at'[c] \notin noTemperature /\ at'[c] # at[c]
      OBVIOUS
    <2>1. CASE \E c \in Calls : Choose(c)
      <3>1. PICK c \in Calls : Choose(c)
        BY <2>1
      <3>2. PICK p \in Configured :
                /\ p > at[c]
                /\ at' = [at EXCEPT ![c] = p]
                /\ temperature' = [temperature EXCEPT ![c] = p \notin noTemperature]
        BY <3>1 DEF Choose, IsNext, TakesTemperature
      <3>3. noTemperature' = noTemperature
        BY <3>1 DEF Choose
      <3>4. at[c] \in Nat /\ p \in Nat
        BY ChainAssumption DEF IInv, TypeOK
      <3>5. p # at[c]
        BY <3>2, <3>4
      <3> QED BY <3>2, <3>3, <3>5 DEF IInv, TypeOK
    <2>2. CASE \E c \in Calls : RejectTemperature(c)
      BY <2>2 DEF RejectTemperature, IInv, TypeOK
    <2>3. CASE UNCHANGED <<temperature, noTemperature>>
      BY <2>3
    <2> QED
      BY <2>1, <2>2, <2>3
      DEF Next, Step, Start, Acquire, GiveUp, ProviderAnswers, ProviderFails, FallBack,
          RecordUsage, Expire, Finished, vars
  <1> QED BY Invariance, <1>1, PTL DEF Spec, TemperatureDroppedForGood

-----------------------------------------------------------------------------
(* Who gets no reply, and how long a call can take                         *)

\* A call that has no slot yet has come to no provider, and waits only where
\* there is a cap; an error is for those whose deadline passed then.
ShedInv ==
    \A c \in Calls :
        /\ at[c] \in 0..Providers
        /\ pc[c] \in {"new", "waiting"} => at[c] = 0
        /\ pc[c] = "waiting" => Capped
        /\ result[c] = "error" /\ HasFallback => c \in expired /\ at[c] = 0 /\ Capped

LEMMA ShedInvInit == Init => ShedInv
  BY ChainAssumption DEF Init, ShedInv

\* Every step keeps it.
LEMMA ShedInvStep == IInv /\ ShedInv /\ [Next]_vars => ShedInv'
  <1> SUFFICES ASSUME IInv, ShedInv, [Next]_vars PROVE ShedInv'
    OBVIOUS
  <1> USE DEF ShedInv
  <1>1. TypeOK
    BY DEF IInv
  <1>2. ASSUME NEW c \in Calls, Start(c) PROVE ShedInv'
    BY <1>1, <1>2 DEF Start, TypeOK, Capped
  <1>3. ASSUME NEW c \in Calls, Acquire(c) PROVE ShedInv'
    BY <1>1, <1>3 DEF Acquire, TypeOK, Capped
  <1>4. ASSUME NEW c \in Calls, GiveUp(c) PROVE ShedInv'
    BY <1>1, <1>4 DEF GiveUp, Return, TypeOK, Capped
  <1>5. ASSUME NEW c \in Calls, Choose(c) PROVE ShedInv'
    <2>1. result[c] = "none"
      BY <1>5 DEF Choose, IInv, NoResultYet
    <2>2. at' \in [Calls -> 0..Providers]
      <3>1. PICK p \in Configured : at' = [at EXCEPT ![c] = p]
        BY <1>5 DEF Choose
      <3> QED BY <1>1, <3>1, ChainAssumption DEF TypeOK
    <2> QED BY <1>1, <1>5, <2>1, <2>2 DEF Choose, TypeOK, Capped
  <1>6. ASSUME NEW c \in Calls, ProviderAnswers(c) \/ FallBack(c) PROVE ShedInv'
    BY <1>1, <1>6 DEF ProviderAnswers, FallBack, Return, TypeOK, Capped
  <1>7. ASSUME NEW c \in Calls, ProviderFails(c) \/ RejectTemperature(c) PROVE ShedInv'
    BY <1>1, <1>7 DEF ProviderFails, RejectTemperature, TypeOK, Capped
  <1>8. ASSUME NEW c \in Calls, RecordUsage(c) \/ Expire(c) PROVE ShedInv'
    BY <1>1, <1>8 DEF RecordUsage, Expire, TypeOK, Capped
  <1>9. CASE UNCHANGED vars
    BY <1>9 DEF vars, Capped
  <1> QED
    BY <1>2, <1>3, <1>4, <1>5, <1>6, <1>7, <1>8, <1>9 DEF Next, Step, Finished

\* For every chain, cap and number of calls: with the rules client in place, a
\* call ends in an error only if there is a cap, its deadline has passed and it
\* came to no provider.
THEOREM SlotMeansReply == Spec => []OnlyShedCallsFail
  <1>1. ShedInv => OnlyShedCallsFail
    BY DEF ShedInv, OnlyShedCallsFail
  <1> QED BY <1>1, ShedInvInit, ShedInvStep, Invariance, PTL DEF Spec

\* How many steps call c has still to take, at most: at each provider that is
\* left it posts twice, first with and then without a temperature.
StepsLeft(c) ==
    CASE pc[c] = "returned" -> 0
      [] pc[c] = "choosing" -> 3 * (Providers - at[c]) + 1
      [] pc[c] = "posting"  -> 3 * (Providers - at[c]) + (IF temperature[c] THEN 3 ELSE 2)
      [] pc[c] = "waiting"  -> 3 * Providers + 2
      [] pc[c] = "new"      -> 3 * Providers + 3

StepsAreBounded == \A c \in Calls : StepsLeft(c) \in 0..(3 * Providers + 3)

\* Calls advance only; each step of a call is one step less.
CallsDescend ==
    \A c \in Calls : /\ StepsLeft(c)' <= StepsLeft(c)
                     /\ Step(c) => StepsLeft(c)' < StepsLeft(c)

\* The step of a call brings it nearer to its end.
LEMMA StepDescends ==
    ASSUME IInv, ShedInv, NEW c \in Calls, Step(c)
    PROVE  StepsLeft(c)' < StepsLeft(c)
  <1> USE ChainAssumption DEF StepsLeft
  <1>1. TypeOK /\ at[c] \in 0..Providers
    BY DEF IInv, ShedInv
  <1>2. CASE Start(c)
    <2>1. at[c] = 0 /\ at' = at
      BY <1>2 DEF Start, ShedInv
    <2> QED BY <1>1, <1>2, <2>1 DEF Start, TypeOK
  <1>3. CASE Acquire(c)
    <2>1. at[c] = 0 /\ at' = at
      BY <1>3 DEF Acquire, ShedInv
    <2> QED BY <1>1, <1>3, <2>1 DEF Acquire, TypeOK
  <1>4. CASE GiveUp(c)
    BY <1>1, <1>4 DEF GiveUp, Return, TypeOK
  <1>5. CASE Choose(c)
    <2>1. PICK p \in Configured : IsNext(c, p) /\ at' = [at EXCEPT ![c] = p]
      BY <1>5 DEF Choose
    <2>2. p \in 1..Providers /\ p > at[c] /\ at'[c] = p
      BY <1>1, <2>1 DEF IsNext, TypeOK
    <2>3. pc[c] = "choosing" /\ pc'[c] = "posting" /\ temperature'[c] \in BOOLEAN
      BY <1>1, <1>5 DEF Choose, TakesTemperature, TypeOK
    <2> QED BY <1>1, <2>2, <2>3
  <1>6. CASE ProviderAnswers(c)
    BY <1>1, <1>6 DEF ProviderAnswers, Return, TypeOK
  <1>7. CASE ProviderFails(c)
    BY <1>1, <1>7 DEF ProviderFails, TypeOK
  <1>8. CASE RejectTemperature(c)
    BY <1>1, <1>8 DEF RejectTemperature, TypeOK
  <1>9. CASE FallBack(c)
    BY <1>1, <1>9 DEF FallBack, Return, TypeOK
  <1> QED BY <1>2, <1>3, <1>4, <1>5, <1>6, <1>7, <1>8, <1>9 DEF Step

\* What others do leaves it where it is.
LEMMA OthersStandStill ==
    ASSUME IInv, [Next]_vars, NEW c \in Calls, ~Step(c)
    PROVE  StepsLeft(c)' = StepsLeft(c)
  <1>1. TypeOK
    BY DEF IInv
  <1>2. pc'[c] = pc[c] /\ at'[c] = at[c] /\ temperature'[c] = temperature[c]
    <2>1. ASSUME NEW d \in Calls, d # c, Step(d)
          PROVE  pc'[c] = pc[c] /\ at'[c] = at[c] /\ temperature'[c] = temperature[c]
      BY <1>1, <2>1 DEF Step, Start, Acquire, GiveUp, Choose, ProviderAnswers, ProviderFails,
         RejectTemperature, FallBack, Return, TypeOK
    <2>2. CASE UNCHANGED <<pc, at, temperature>>
      BY <2>2
    <2> QED BY <2>1, <2>2 DEF Next, RecordUsage, Expire, Finished, vars
  <1> QED BY <1>2 DEF StepsLeft

\* No call goes round in circles: whatever the providers, the deadlines and the
\* other calls do, it comes to an end within 3 * Providers + 3 steps, waits for a
\* slot once and posts to a provider twice at most.  (That it is not kept waiting
\* is EveryCallReturns, under fairness.)
THEOREM CallsRunOut == Spec => []StepsAreBounded /\ [][CallsDescend]_vars
  <1>1. IInv /\ ShedInv => StepsAreBounded
    <2> SUFFICES ASSUME IInv, ShedInv, NEW c \in Calls
                 PROVE  StepsLeft(c) \in 0..(3 * Providers + 3)
      BY DEF StepsAreBounded
    <2>1. at[c] \in 0..Providers /\ pc[c] \in Labels /\ temperature[c] \in BOOLEAN
      BY DEF IInv, TypeOK, ShedInv
    <2> QED BY <2>1, ChainAssumption DEF StepsLeft, Labels, Holding
  <1>2. /\ IInv /\ ShedInv /\ [Next]_vars
        /\ StepsAreBounded /\ StepsAreBounded'
        => [CallsDescend]_vars
    <2> SUFFICES ASSUME IInv, ShedInv, [Next]_vars, StepsAreBounded, StepsAreBounded', NEW c \in Calls
                 PROVE  /\ StepsLeft(c)' <= StepsLeft(c)
                        /\ Step(c) => StepsLeft(c)' < StepsLeft(c)
      BY DEF CallsDescend
    <2>1. StepsLeft(c) \in Int /\ StepsLeft(c)' \in Int
      BY ChainAssumption DEF StepsAreBounded
    <2>2. CASE Step(c)
      BY <2>1, <2>2, StepDescends
    <2>3. CASE ~Step(c)
      BY <2>1, <2>3, OthersStandStill
    <2> QED BY <2>2, <2>3
  <1> QED BY <1>1, <1>2, ShedInvInit, ShedInvStep, Invariance, PTL DEF Spec

=============================================================================
