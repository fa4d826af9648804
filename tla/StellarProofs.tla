--------------------------- MODULE StellarProofs ---------------------------
(***************************************************************************)
(* Proofs about the client of the node, for any number of callers and any  *)
(* limits: how far failures go once the breaker is open, that it then      *)
(* never closes, and when a window holds more requests than its limit.     *)
(***************************************************************************)
EXTENDS StellarClient, FiniteSetTheorems, SequenceTheorems, TLAPS

\* A caller's record; what its timer holds does not matter here.
Shaped(k) ==
    /\ DOMAIN k = DOMAIN Idle
    /\ k.kind \in AllKinds
    /\ k.attempt \in 1..MaxRetries
    /\ k.pc = "account" => k.kind = "fee"
    /\ k.pc = "backoff" => k.attempt < MaxRetries

ClientTyped ==
    /\ failures \in Nat
    /\ open \in BOOLEAN
    /\ call = [c \in Callers |-> call[c]]
    /\ \A c \in Callers : Shaped(call[c])

\* The attempts that calls in flight have left, the one under way included.
Left ==
    {a \in Callers \X (1..MaxRetries) :
        LET k == call[a[1]] IN
        /\ k.pc # "idle"
        /\ k.kind \in RetryKinds
        /\ k.attempt < a[2] \/ (k.attempt = a[2] /\ k.pc # "backoff")}

\* Every attempt left may still fail, and no more are added once the breaker is open.
StormLeft ==
    failures >= Threshold =>
        failures + Cardinality(Left) <= Threshold - 1 + MaxRetries * Cardinality(Callers)

IInv == ClientTyped /\ BreakerCounts /\ StormLeft

-----------------------------------------------------------------------------
LEMMA LeftIsFinite ==
    /\ IsFiniteSet(Left)
    /\ Cardinality(Left) \in Nat
    /\ Cardinality(Left) <= MaxRetries * Cardinality(Callers)
    /\ MaxRetries * Cardinality(Callers) \in Nat
  <1>1. IsFiniteSet(1..MaxRetries) /\ Cardinality(1..MaxRetries) = MaxRetries
    BY FS_Interval, StellarAssumption
  <1>2. /\ IsFiniteSet(Callers \X (1..MaxRetries))
        /\ Cardinality(Callers \X (1..MaxRetries)) = Cardinality(Callers) * MaxRetries
    BY <1>1, FS_Product, StellarAssumption
  <1>3. Left \in SUBSET (Callers \X (1..MaxRetries))
    BY DEF Left
  <1>4. IsFiniteSet(Left) /\ Cardinality(Left) <= Cardinality(Callers \X (1..MaxRetries))
    BY <1>2, <1>3, FS_Subset
  <1>5. Cardinality(Left) \in Nat /\ Cardinality(Callers) \in Nat
    BY <1>4, FS_CardinalityType, StellarAssumption
  <1>6. Cardinality(Callers) * MaxRetries = MaxRetries * Cardinality(Callers)
    BY <1>5, StellarAssumption
  <1>7. QED BY <1>2, <1>4, <1>5, <1>6, StellarAssumption

\* A step that counts no failure and adds no attempt.
LEMMA QuietStep ==
    ASSUME IInv, ClientTyped', Left' \subseteq Left, UNCHANGED <<failures, open>>
    PROVE  IInv'
  <1>1. Cardinality(Left') <= Cardinality(Left)
    BY LeftIsFinite, FS_Subset
  <1>2. Cardinality(Left') \in Nat
    BY LeftIsFinite, FS_Subset, FS_CardinalityType
  <1>3. StormLeft'
    BY <1>1, <1>2, LeftIsFinite, StellarAssumption DEF IInv, ClientTyped, StormLeft
  <1>4. QED BY <1>3 DEF IInv, BreakerCounts

\* One caller's record changes.
LEMMA CallMove ==
    ASSUME ClientTyped, NEW c \in Callers, NEW k, Shaped(k),
           call' = [call EXCEPT ![c] = k],
           failures' \in Nat, open' \in BOOLEAN
    PROVE  /\ ClientTyped'
           /\ call'[c] = k
           /\ \A d \in Callers \ {c} : call'[d] = call[d]
  <1>1. /\ call'[c] = k
        /\ \A d \in Callers \ {c} : call'[d] = call[d]
        /\ call' = [d \in Callers |-> call'[d]]
    BY DEF ClientTyped
  <1>2. \A d \in Callers : Shaped(call'[d])
    BY <1>1 DEF ClientTyped
  <1>3. QED BY <1>1, <1>2 DEF ClientTyped, Shaped

\* It adds no attempt if it is idle, asks for the fee, or has come no less far.
LEMMA LeftShrinks ==
    ASSUME ClientTyped, NEW c \in Callers,
           \A d \in Callers \ {c} : call'[d] = call[d],
           \/ call'[c].pc = "idle"
           \/ call'[c].kind \notin RetryKinds
           \/ /\ call[c].pc # "idle" /\ call'[c].kind = call[c].kind
              /\ call'[c].attempt >= call[c].attempt
              /\ call[c].pc = "backoff" =>
                    call'[c].pc = "backoff" \/ call'[c].attempt > call[c].attempt,
           call'[c].attempt \in Nat
    PROVE  Left' \subseteq Left
  <1> SUFFICES ASSUME NEW a \in Left' PROVE a \in Left
    OBVIOUS
  <1>1. /\ a \in Callers \X (1..MaxRetries) /\ a[1] \in Callers /\ a[2] \in 1..MaxRetries
        /\ call'[a[1]].pc # "idle" /\ call'[a[1]].kind \in RetryKinds
        /\ \/ call'[a[1]].attempt < a[2]
           \/ call'[a[1]].attempt = a[2] /\ call'[a[1]].pc # "backoff"
    BY DEF Left
  <1>2. CASE a[1] # c
    BY <1>1, <1>2 DEF Left
  <1>3. CASE a[1] = c
    <2>1. call[c].attempt \in Nat /\ a[2] \in Nat
      BY <1>1, StellarAssumption DEF ClientTyped, Shaped
    <2>2. /\ call[c].pc # "idle" /\ call[c].kind \in RetryKinds
          /\ call[c].attempt < a[2] \/ (call[c].attempt = a[2] /\ call[c].pc # "backoff")
      BY <1>1, <1>3, <2>1
    <2>3. QED BY <1>1, <1>3, <2>2 DEF Left
  <1>4. QED BY <1>2, <1>3

\* A step of one caller that counts nothing and adds no attempt.
LEMMA CallerMoves ==
    ASSUME IInv, NEW c \in Callers, NEW k, Shaped(k),
           call' = [call EXCEPT ![c] = k],
           UNCHANGED <<failures, open>>,
           \/ k.pc = "idle"
           \/ k.kind \notin RetryKinds
           \/ /\ call[c].pc # "idle" /\ k.kind = call[c].kind
              /\ k.attempt >= call[c].attempt
              /\ call[c].pc = "backoff" =>
                    k.pc = "backoff" \/ k.attempt > call[c].attempt
    PROVE  IInv'
  <1>1. ClientTyped /\ failures' \in Nat /\ open' \in BOOLEAN
    BY DEF IInv, ClientTyped
  <1>2. /\ ClientTyped' /\ call'[c] = k
        /\ \A d \in Callers \ {c} : call'[d] = call[d]
    BY <1>1, CallMove
  <1>3. k.attempt \in Nat
    BY StellarAssumption DEF Shaped
  <1>4. Left' \subseteq Left
    BY <1>1, <1>2, <1>3, LeftShrinks
  <1>5. QED BY <1>2, <1>4, QuietStep

LEMMA ShapeOf ==
    ASSUME IInv, NEW c \in Callers
    PROVE  /\ Shaped(call[c])
           /\ call[c].attempt \in Nat /\ call[c].attempt <= MaxRetries
           /\ failures \in Nat /\ open \in BOOLEAN
  BY StellarAssumption DEF IInv, ClientTyped, Shaped

\* A caller goes on to pc: it keeps its operation and its attempt.
LEMMA GoesKeepsInvariant ==
    ASSUME IInv, NEW c \in Callers, NEW pc, Goes(c, pc),
           call[c].pc # "idle", call[c].pc # "backoff",
           pc # "account", pc # "backoff",
           UNCHANGED <<failures, open>>
    PROVE  IInv'
  <1> DEFINE k == [call[c] EXCEPT !.pc = pc]
  <1>1. Shaped(call[c]) /\ call[c].attempt \in Nat
    BY ShapeOf
  <1>2. /\ Shaped(k)
        /\ k.kind = call[c].kind /\ k.attempt = call[c].attempt
    BY <1>1 DEF Shaped, Idle
  <1>3. call' = [call EXCEPT ![c] = k]
    BY DEF Goes
  <1> HIDE DEF k
  <1>4. /\ call[c].pc # "idle" /\ k.kind = call[c].kind
        /\ k.attempt >= call[c].attempt
        /\ call[c].pc = "backoff" =>
              k.pc = "backoff" \/ k.attempt > call[c].attempt
    BY <1>1, <1>2
  <1>5. Shaped(k) /\ call' = [call EXCEPT ![c] = k] /\ UNCHANGED <<failures, open>>
    BY <1>2, <1>3
  <1>6. QED BY <1>4, <1>5, CallerMoves

LEMMA MustWaitKeepsInvariant ==
    ASSUME IInv, NEW c \in Callers, MustWait(c)
    PROVE  IInv'
  <1> DEFINE t == WaitFor(sent[1])
             k == [call[c] EXCEPT !.pc = "waiting", !.timer = t]
  <1>1. Shaped(call[c]) /\ call[c].attempt \in Nat
    BY ShapeOf
  <1>2. call' = [call EXCEPT ![c] = k] /\ UNCHANGED <<failures, open>>
    BY DEF MustWait
  <1> HIDE DEF t
  <1>3. /\ Shaped(k)
        /\ k.kind = call[c].kind /\ k.attempt = call[c].attempt
    BY <1>1 DEF Shaped, Idle
  <1> HIDE DEF k
  <1>4. /\ call[c].pc # "idle" /\ k.kind = call[c].kind
        /\ k.attempt >= call[c].attempt
        /\ call[c].pc = "backoff" =>
              k.pc = "backoff" \/ k.attempt > call[c].attempt
    BY <1>1, <1>3 DEF MustWait
  <1>5. Shaped(k) /\ call' = [call EXCEPT ![c] = k] /\ UNCHANGED <<failures, open>>
    BY <1>2, <1>3
  <1>6. QED BY <1>4, <1>5, CallerMoves

LEMMA RetryKeepsInvariant ==
    ASSUME IInv, NEW c \in Callers, Retry(c)
    PROVE  IInv'
  <1> DEFINE n == call[c].attempt + 1
             k == [call[c] EXCEPT !.pc = "acquire", !.attempt = n]
  <1>1. /\ Shaped(call[c]) /\ call[c].attempt \in Nat
        /\ n \in 1..MaxRetries /\ n > call[c].attempt
    BY ShapeOf, StellarAssumption DEF Retry, Shaped
  <1>2. call' = [call EXCEPT ![c] = k] /\ UNCHANGED <<failures, open>>
    BY DEF Retry
  <1> HIDE DEF n
  <1>3. Shaped(k) /\ k.kind = call[c].kind /\ k.attempt = n
    BY <1>1 DEF Shaped, Idle
  <1> HIDE DEF k
  <1>4. /\ call[c].pc # "idle" /\ k.kind = call[c].kind
        /\ k.attempt >= call[c].attempt
        /\ call[c].pc = "backoff" =>
              k.pc = "backoff" \/ k.attempt > call[c].attempt
    BY <1>1, <1>3 DEF Retry
  <1>5. Shaped(k) /\ call' = [call EXCEPT ![c] = k] /\ UNCHANGED <<failures, open>>
    BY <1>2, <1>3
  <1>6. QED BY <1>4, <1>5, CallerMoves

\* The open breaker turns away everything but the fee.
LEMMA BeginKeepsInvariant ==
    ASSUME IInv, NEW c \in Callers, NEW kind \in Kinds, Begin(c, kind)
    PROVE  IInv'
  <1> DEFINE pc == IF Refused(kind) THEN "idle" ELSE FirstStep(kind)
             outcome == IF Refused(kind) THEN "failed" ELSE "none"
             k == [Idle EXCEPT !.pc = pc, !.kind = kind, !.outage = ~up, !.outcome = outcome]
  <1>1. Shaped(call[c]) /\ call[c].attempt \in Nat /\ kind \in AllKinds
    BY ShapeOf, StellarAssumption
  <1>2. call' = [call EXCEPT ![c] = k] /\ UNCHANGED <<failures, open>>
    BY DEF Begin
  <1>3. /\ pc = "account" => kind = "fee"
        /\ pc # "backoff"
    BY DEF FirstStep
  <1>4. open => pc = "idle" \/ kind = "fee"
    BY DEF Refused
  <1> HIDE DEF pc, outcome
  <1>5. /\ DOMAIN k = DOMAIN Idle
        /\ k.pc = pc /\ k.kind = kind /\ k.attempt = 1
    BY DEF Idle
  <1> HIDE DEF k
  <1>6. Shaped(k)
    BY <1>1, <1>3, <1>5, StellarAssumption DEF Shaped
  <1>7. CASE open
    BY <1>1, <1>2, <1>4, <1>5, <1>6, <1>7, CallerMoves DEF RetryKinds
  <1>8. CASE ~open
    <2>1. ClientTyped'
      BY <1>2, <1>6, CallMove, ShapeOf DEF IInv
    <2>2. failures \in Nat /\ ~(failures >= Threshold) /\ BreakerCounts
      BY <1>8, ShapeOf DEF IInv, BreakerCounts
    <2>3. BreakerCounts' /\ StormLeft'
      BY <1>2, <2>2 DEF BreakerCounts, StormLeft
    <2>4. QED BY <2>1, <2>3 DEF IInv
  <1>9. QED BY <1>7, <1>8, ShapeOf

LEMMA AnsweredKeepsInvariant ==
    ASSUME IInv, NEW c \in Callers, Answered(c)
    PROVE  IInv'
  <1> DEFINE k == [call[c] EXCEPT !.pc = "idle", !.attempt = 1, !.outcome = "ok"]
  <1>1. Shaped(call[c]) /\ failures \in Nat /\ open \in BOOLEAN /\ ClientTyped
    BY ShapeOf DEF IInv
  <1>2. call' = [call EXCEPT ![c] = k]
    BY DEF Answered, Ends
  <1>3. Shaped(k) /\ k.pc = "idle"
    BY <1>1, StellarAssumption DEF Shaped, Idle
  <1> HIDE DEF k
  <1>4. CASE call[c].kind \in RetryKinds
    <2>1. failures' = 0 /\ open' = FALSE
      BY <1>4 DEF Answered, Closes, Succeeds
    <2>2. ClientTyped'
      BY <1>1, <1>2, <1>3, <2>1, CallMove
    <2>3. BreakerCounts' /\ StormLeft'
      BY <2>1, StellarAssumption DEF BreakerCounts, StormLeft
    <2>4. QED BY <2>2, <2>3 DEF IInv
  <1>5. CASE call[c].kind \notin RetryKinds
    <2>1. UNCHANGED <<failures, open>>
      BY <1>5 DEF Answered, Closes
    <2>2. QED BY <1>2, <1>3, <2>1, CallerMoves
  <1>6. QED BY <1>4, <1>5

\* A failed attempt is one of those left, and it is used up.
LEMMA AttemptIsUsed ==
    ASSUME ClientTyped, NEW c \in Callers,
           \A d \in Callers \ {c} : call'[d] = call[d],
           call[c].pc # "idle", call[c].pc # "backoff", call[c].kind \in RetryKinds,
           \/ call'[c].pc = "idle"
           \/ /\ call'[c].pc = "backoff" /\ call'[c].kind = call[c].kind
              /\ call'[c].attempt = call[c].attempt,
           call'[c].attempt \in Nat
    PROVE  /\ Cardinality(Left') \in Nat
           /\ Cardinality(Left') + 1 <= Cardinality(Left)
  <1> DEFINE a == <<c, call[c].attempt>>
  <1>1. call[c].attempt \in 1..MaxRetries /\ call[c].attempt \in Nat
    BY StellarAssumption DEF ClientTyped, Shaped
  <1>2. a \in Left
    BY <1>1 DEF Left
  <1>3. Left' \subseteq Left
    BY <1>1, LeftShrinks
  <1>4. a \notin Left'
    BY <1>1 DEF Left
  <1> HIDE DEF a
  <1>5. Left' \subseteq Left \ {a}
    BY <1>3, <1>4
  <1>6. IsFiniteSet(Left \ {a}) /\ Cardinality(Left \ {a}) = Cardinality(Left) - 1
    BY <1>2, LeftIsFinite, FS_RemoveElement
  <1>7. IsFiniteSet(Left') /\ Cardinality(Left') <= Cardinality(Left \ {a})
    BY <1>5, <1>6, FS_Subset
  <1>8. Cardinality(Left') \in Nat
    BY <1>7, FS_CardinalityType
  <1>9. QED BY <1>6, <1>7, <1>8, LeftIsFinite

LEMMA AttemptFailsKeepsInvariant ==
    ASSUME IInv, NEW c \in Callers, AttemptFails(c),
           call[c].pc # "idle", call[c].pc # "backoff"
    PROVE  IInv'
  <1> DEFINE t == InitialDelay * 2 ^ (call[c].attempt - 1)
             again == call[c].kind \in RetryKinds /\ call[c].attempt < MaxRetries
             back == [call[c] EXCEPT !.pc = "backoff", !.timer = t]
             end == [call[c] EXCEPT !.pc = "idle", !.attempt = 1, !.outcome = "failed"]
             k == IF again THEN back ELSE end
  <1>1. /\ Shaped(call[c]) /\ call[c].attempt \in Nat /\ failures \in Nat
        /\ open \in BOOLEAN /\ ClientTyped
    BY ShapeOf DEF IInv
  <1>2. call' = [call EXCEPT ![c] = k]
    BY DEF AttemptFails, Ends
  <1> HIDE DEF t
  <1>3. again => /\ Shaped(back) /\ back.pc = "backoff"
                 /\ back.kind = call[c].kind /\ back.attempt = call[c].attempt
    BY <1>1 DEF Shaped, Idle
  <1>4. Shaped(end) /\ end.pc = "idle"
    BY <1>1, StellarAssumption DEF Shaped, Idle
  <1> HIDE DEF back, end
  <1>5. /\ Shaped(k)
        /\ \/ k.pc = "idle"
           \/ /\ k.pc = "backoff" /\ k.kind = call[c].kind
              /\ k.attempt = call[c].attempt
    BY <1>3, <1>4
  <1>6. k.attempt \in Nat
    BY <1>5, StellarAssumption DEF Shaped
  <1> HIDE DEF k
  <1>7. CASE call[c].kind \in RetryKinds
    <2>1. failures' = failures + 1 /\ (open' <=> open \/ failures' >= Threshold)
          /\ open' \in BOOLEAN
      BY <1>1, <1>7, StellarAssumption DEF AttemptFails, Opens
    <2>2. /\ ClientTyped' /\ call'[c] = k
          /\ \A d \in Callers \ {c} : call'[d] = call[d]
      <3>1. failures' \in Nat
        BY <1>1, <2>1
      <3>2. QED BY <1>1, <1>2, <1>5, <2>1, <3>1, CallMove
    <2>3. /\ Cardinality(Left') \in Nat
          /\ Cardinality(Left') + 1 <= Cardinality(Left)
      BY <1>1, <1>5, <1>6, <1>7, <2>2, AttemptIsUsed
    <2>4. BreakerCounts'
      BY <1>1, <2>1, StellarAssumption DEF IInv, BreakerCounts
    <2>5. StormLeft'
      <3>1. SUFFICES ASSUME failures' >= Threshold
                     PROVE  failures' + Cardinality(Left') <=
                              Threshold - 1 + MaxRetries * Cardinality(Callers)
        BY DEF StormLeft
      <3>2. CASE failures >= Threshold
        BY <1>1, <2>1, <2>3, <3>2, LeftIsFinite, StellarAssumption DEF IInv, StormLeft
      <3>3. CASE ~(failures >= Threshold)
        BY <1>1, <2>1, <2>3, <3>1, <3>3, LeftIsFinite, StellarAssumption
      <3>4. QED BY <3>2, <3>3
    <2>6. QED BY <2>2, <2>4, <2>5 DEF IInv
  <1>8. CASE call[c].kind \notin RetryKinds
    <2>1. UNCHANGED <<failures, open>>
      BY <1>8 DEF AttemptFails
    <2>2. k.pc = "idle"
      BY <1>4, <1>8 DEF k
    <2>3. QED BY <1>2, <1>5, <2>1, <2>2, CallerMoves
  <1>9. QED BY <1>7, <1>8

\* A step of time or of the node: every caller stays where it is.
LEMMA EveryoneStays ==
    ASSUME IInv, call' = [c \in Callers |-> call'[c]],
           \A c \in Callers :
              /\ DOMAIN call'[c] = DOMAIN call[c]
              /\ call'[c].pc = call[c].pc
              /\ call'[c].kind = call[c].kind
              /\ call'[c].attempt = call[c].attempt,
           UNCHANGED <<failures, open>>
    PROVE  IInv'
  <1>1. \A c \in Callers : Shaped(call'[c])
    BY ShapeOf DEF Shaped
  <1>2. ClientTyped'
    BY <1>1 DEF IInv, ClientTyped
  <1>3. Left' = Left
    BY DEF Left
  <1>4. QED BY <1>2, <1>3, QuietStep

LEMMA TickKeepsInvariant ==
    ASSUME IInv, Tick
    PROVE  IInv'
  <1>1. \A c \in Callers : call'[c] = [call[c] EXCEPT !.timer = OneLess(@)]
    BY DEF Tick
  <1>2. \A c \in Callers :
              /\ DOMAIN call'[c] = DOMAIN call[c]
              /\ call'[c].pc = call[c].pc
              /\ call'[c].kind = call[c].kind
              /\ call'[c].attempt = call[c].attempt
    BY <1>1, ShapeOf DEF Shaped, Idle
  <1>3. call' = [c \in Callers |-> call'[c]] /\ UNCHANGED <<failures, open>>
    BY DEF Tick
  <1>4. QED BY <1>2, <1>3, EveryoneStays

LEMMA NodeTurnsKeepsInvariant ==
    ASSUME IInv, NodeTurns
    PROVE  IInv'
  <1>1. \A c \in Callers : call'[c] = [call[c] EXCEPT !.outage = @ \/ InFlight(c)]
    BY DEF NodeTurns
  <1>2. \A c \in Callers :
              /\ DOMAIN call'[c] = DOMAIN call[c]
              /\ call'[c].pc = call[c].pc
              /\ call'[c].kind = call[c].kind
              /\ call'[c].attempt = call[c].attempt
    BY <1>1, ShapeOf DEF Shaped, Idle
  <1>3. call' = [c \in Callers |-> call'[c]] /\ UNCHANGED <<failures, open>>
    BY DEF NodeTurns
  <1>4. QED BY <1>2, <1>3, EveryoneStays

-----------------------------------------------------------------------------
LEMMA InitInvariant == Init => IInv
  <1> SUFFICES ASSUME Init PROVE IInv
    OBVIOUS
  <1>1. Shaped(Idle)
    BY StellarAssumption DEF Shaped, Idle, AllKinds, RetryKinds
  <1>2. ClientTyped
    BY <1>1 DEF Init, ClientTyped
  <1>3. BreakerCounts /\ StormLeft
    BY StellarAssumption DEF Init, BreakerCounts, StormLeft
  <1>4. QED BY <1>2, <1>3 DEF IInv

LEMMA NextInvariant == IInv /\ [Next]_vars => IInv'
  <1> SUFFICES ASSUME IInv, [Next]_vars PROVE IInv'
    OBVIOUS
  <1>1. ASSUME NEW c \in Callers, NEW kind \in Kinds, Begin(c, kind) PROVE IInv'
    BY <1>1, BeginKeepsInvariant
  <1>2. ASSUME NEW c \in Callers, Step(c) PROVE IInv'
    <2>1. CASE AccountAnswered(c)
      BY <2>1, GoesKeepsInvariant DEF AccountAnswered
    <2>2. CASE Admitted(c)
      BY <2>2, GoesKeepsInvariant DEF Admitted
    <2>3. CASE MustWait(c)
      BY <2>3, MustWaitKeepsInvariant
    <2>4. CASE Woken(c)
      BY <2>4, GoesKeepsInvariant DEF Woken
    <2>5. CASE NoLimiter(c)
      BY <2>5, AttemptFailsKeepsInvariant DEF NoLimiter
    <2>6. CASE Answered(c)
      BY <2>6, AnsweredKeepsInvariant
    <2>7. CASE NotAnswered(c)
      BY <2>7, AttemptFailsKeepsInvariant DEF NotAnswered
    <2>8. CASE Retry(c)
      BY <2>8, RetryKeepsInvariant
    <2>9. QED
      BY <1>2, <2>1, <2>2, <2>3, <2>4, <2>5, <2>6, <2>7, <2>8 DEF Step
  <1>3. CASE Tick
    BY <1>3, TickKeepsInvariant
  <1>4. CASE NodeTurns
    BY <1>4, NodeTurnsKeepsInvariant
  <1>5. CASE UNCHANGED vars
    <2>1. call' = [c \in Callers |-> call'[c]] /\ call' = call /\ UNCHANGED <<failures, open>>
      BY <1>5 DEF vars, IInv, ClientTyped
    <2>2. QED BY <2>1, EveryoneStays
  <1>6. QED BY <1>1, <1>2, <1>3, <1>4, <1>5 DEF Next

LEMMA SpecInvariant == Spec => []IInv
  BY InitInvariant, NextInvariant, PTL DEF Spec

\* Once the breaker is open, no more than the attempts of the calls then in
\* flight are still made, whatever the callers and their order (withRetry).
THEOREM SpecStormBounded == Spec => []StormBounded
  <1>1. IInv => StormBounded
    <2> SUFFICES ASSUME IInv PROVE StormBounded
      OBVIOUS
    <2>1. failures \in Nat
      BY DEF IInv, ClientTyped
    <2>2. Cardinality(Callers) \in Nat
      BY FS_CardinalityType, StellarAssumption
    <2>3. CASE failures >= Threshold
      BY <2>1, <2>3, LeftIsFinite, StellarAssumption DEF IInv, StormLeft, StormBounded
    <2>4. CASE ~(failures >= Threshold)
      BY <2>1, <2>4, LeftIsFinite, StellarAssumption DEF StormBounded
    <2>5. QED BY <2>3, <2>4
  <1>2. QED BY <1>1, SpecInvariant, PTL

\* One caller moves: it is idle, or keeps its operation, or began one that is let through.
LEMMA DoomedStands ==
    ASSUME IInv, Doomed, NEW c \in Callers, NEW k,
           call' = [call EXCEPT ![c] = k], open',
           \/ k.pc = "idle"
           \/ k.kind \notin RetryKinds
           \/ call[c].pc # "idle" /\ k.kind = call[c].kind
    PROVE  Doomed'
  <1>1. call'[c] = k /\ \A d \in Callers \ {c} : call'[d] = call[d]
    BY DEF IInv, ClientTyped
  <1>2. QED BY <1>1 DEF Doomed, InFlight

\* An attempt can fail only of the health check or the fee, which count nothing.
LEMMA AttemptFailsDoomed ==
    ASSUME IInv, Doomed, NEW c \in Callers, AttemptFails(c), call[c].pc # "idle"
    PROVE  Doomed'
  <1> DEFINE k == [call[c] EXCEPT !.pc = "idle", !.attempt = 1, !.outcome = "failed"]
  <1>1. call[c].kind \notin RetryKinds
    BY DEF Doomed, InFlight
  <1>2. call' = [call EXCEPT ![c] = k] /\ open'
    BY <1>1 DEF AttemptFails, Ends, Doomed
  <1>3. k.pc = "idle"
    BY ShapeOf DEF Shaped, Idle
  <1> HIDE DEF k
  <1>4. QED BY <1>2, <1>3, DoomedStands

LEMMA NextDoomed == IInv /\ [Next]_vars /\ Doomed => Doomed'
  <1> SUFFICES ASSUME IInv, [Next]_vars, Doomed PROVE Doomed'
    OBVIOUS
  <1>1. open /\ \A c \in Callers : call[c].pc # "idle" => call[c].kind \notin RetryKinds
    BY DEF Doomed, InFlight
  <1>2. ASSUME NEW c \in Callers, NEW kind \in Kinds, Begin(c, kind) PROVE Doomed'
    <2> DEFINE pc == IF Refused(kind) THEN "idle" ELSE FirstStep(kind)
               outcome == IF Refused(kind) THEN "failed" ELSE "none"
               k == [Idle EXCEPT !.pc = pc, !.kind = kind, !.outage = ~up, !.outcome = outcome]
    <2>1. call' = [call EXCEPT ![c] = k] /\ open'
      BY <1>1, <1>2 DEF Begin
    <2>2. pc = "idle" \/ kind = "fee"
      BY <1>1 DEF Refused
    <2> HIDE DEF pc, outcome
    <2>3. k.pc = pc /\ k.kind = kind
      BY DEF Idle
    <2> HIDE DEF k
    <2>4. k.pc = "idle" \/ k.kind \notin RetryKinds
      BY <2>2, <2>3 DEF RetryKinds
    <2>5. QED BY <2>1, <2>4, DoomedStands
  <1>3. ASSUME NEW c \in Callers, Step(c) PROVE Doomed'
    <2>1. ASSUME NEW pc, Goes(c, pc), call[c].pc # "idle", open' = open PROVE Doomed'
      <3> DEFINE k == [call[c] EXCEPT !.pc = pc]
      <3>1. k.kind = call[c].kind
        BY ShapeOf DEF Shaped, Idle
      <3>2. call' = [call EXCEPT ![c] = k]
        BY <2>1 DEF Goes
      <3> HIDE DEF k
      <3>3. QED BY <1>1, <2>1, <3>1, <3>2, DoomedStands
    <2>2. CASE AccountAnswered(c) \/ Admitted(c) \/ Woken(c)
      BY <2>1, <2>2 DEF AccountAnswered, Admitted, Woken
    <2>3. CASE MustWait(c)
      <3> DEFINE t == WaitFor(sent[1])
                 k == [call[c] EXCEPT !.pc = "waiting", !.timer = t]
      <3>1. call' = [call EXCEPT ![c] = k] /\ open' = open /\ call[c].pc # "idle"
        BY <2>3 DEF MustWait
      <3> HIDE DEF t
      <3>2. k.kind = call[c].kind
        BY ShapeOf DEF Shaped, Idle
      <3> HIDE DEF k
      <3>3. QED BY <1>1, <3>1, <3>2, DoomedStands
    <2>4. CASE NoLimiter(c) \/ NotAnswered(c)
      BY <2>4, AttemptFailsDoomed DEF NoLimiter, NotAnswered
    <2>5. CASE Answered(c)
      <3> DEFINE k == [call[c] EXCEPT !.pc = "idle", !.attempt = 1, !.outcome = "ok"]
      <3>1. call[c].kind \notin RetryKinds
        BY <1>1, <2>5 DEF Answered
      <3>2. call' = [call EXCEPT ![c] = k] /\ open'
        BY <1>1, <2>5, <3>1 DEF Answered, Closes, Ends
      <3>3. k.pc = "idle"
        BY ShapeOf DEF Shaped, Idle
      <3> HIDE DEF k
      <3>4. QED BY <3>2, <3>3, DoomedStands
    <2>6. CASE Retry(c)
      <3> DEFINE k == [call[c] EXCEPT !.pc = "acquire", !.attempt = call[c].attempt + 1]
      <3>1. call' = [call EXCEPT ![c] = k] /\ open' = open /\ call[c].pc # "idle"
        BY <2>6 DEF Retry
      <3>2. k.kind = call[c].kind
        BY ShapeOf DEF Shaped, Idle
      <3> HIDE DEF k
      <3>3. QED BY <1>1, <3>1, <3>2, DoomedStands
    <2>7. QED BY <1>3, <2>2, <2>3, <2>4, <2>5, <2>6 DEF Step
  <1>4. ASSUME open' = open,
               \A c \in Callers : call'[c].pc = call[c].pc /\ call'[c].kind = call[c].kind
        PROVE  Doomed'
    BY <1>4 DEF Doomed, InFlight
  <1>5. CASE Tick
    <2>1. \A c \in Callers : call'[c].pc = call[c].pc /\ call'[c].kind = call[c].kind
      BY <1>5, ShapeOf DEF Tick, Shaped, Idle
    <2>2. QED BY <1>4, <1>5, <2>1 DEF Tick
  <1>6. CASE NodeTurns
    <2>1. \A c \in Callers : call'[c].pc = call[c].pc /\ call'[c].kind = call[c].kind
      BY <1>6, ShapeOf DEF NodeTurns, Shaped, Idle
    <2>2. QED BY <1>4, <1>6, <2>1 DEF NodeTurns
  <1>7. CASE UNCHANGED vars
    BY <1>4, <1>7 DEF vars
  <1>8. QED BY <1>2, <1>3, <1>5, <1>6, <1>7 DEF Next

\* Once the breaker is open and no call of withRetry is in flight, that is so for ever: the
\* breaker never closes and withRetry never calls the node again, whatever the health check
\* and the fee's event, which do not tell it of a success, and the node itself may do.
THEOREM SpecOpenForGood == Spec => OpenForGood /\ [](Doomed => []Doomed)
  <1>1. Spec => [][Doomed => Doomed']_vars
    BY NextDoomed, SpecInvariant, PTL DEF Spec
  <1>2. UNCHANGED vars /\ Doomed => Doomed'
    BY DEF vars, Doomed, InFlight
  <1>3. QED BY <1>1, <1>2, PTL DEF OpenForGood

-----------------------------------------------------------------------------
(* The limiter's window.  A caller that waits alone finds, when its wait   *)
(* is over, that the request it waited for has left: nobody else came, so  *)
(* there is room.                                                          *)

\* The oldest requests come first.
InOrder == \A i, j \in 1..Len(sent) : i <= j => sent[j] <= sent[i]

WindowTyped == sent \in Seq(0..(Window - 1)) /\ InOrder

Waits(c) == call[c].pc = "waiting"

\* There is room for the waiting caller, or it sleeps until the oldest request leaves.
RoomFor(c) == Len(sent) < MaxRequests \/ sent[1] + call[c].timer >= Window

InLimit ==
    ~met => /\ Len(sent) <= MaxRequests
            /\ \A c, d \in Callers : Waits(c) /\ Waits(d) => c = d
            /\ \A c \in Callers : Waits(c) => RoomFor(c)

LimitInv ==
    /\ WindowTyped
    /\ met \in BOOLEAN
    /\ \A c \in Callers : Waits(c) => call[c].timer \in Nat
    /\ InLimit

\* A step that sends nothing and makes nobody wait.
LEMMA NothingSent ==
    ASSUME LimitInv, sent' = sent, met' = met,
           \A c \in Callers : Waits(c)' => Waits(c) /\ call'[c].timer = call[c].timer
    PROVE  LimitInv'
  BY DEF LimitInv, WindowTyped, InOrder, InLimit, RoomFor

\* Of one caller.
LEMMA NobodyWaits ==
    ASSUME LimitInv, NEW c \in Callers, sent' = sent, met' = met,
           \A d \in Callers \ {c} : call'[d] = call[d], call'[c].pc # "waiting"
    PROVE  LimitInv'
  <1>1. \A d \in Callers : Waits(d)' => Waits(d) /\ call'[d].timer = call[d].timer
    BY DEF Waits
  <1>2. QED BY <1>1, NothingSent

\* A request is sent when there is room, and those who wait are as before.
LEMMA OneSent ==
    ASSUME WindowTyped, sent' = Append(sent, 0)
    PROVE  WindowTyped' /\ Len(sent') = Len(sent) + 1 /\ Len(sent) \in Nat
  <1>1. /\ Len(sent) \in Nat /\ sent \in Seq(0..(Window - 1)) /\ 0 \in 0..(Window - 1)
    BY StellarAssumption DEF WindowTyped
  <1>2. /\ sent' \in Seq(0..(Window - 1)) /\ Len(sent') = Len(sent) + 1
        /\ sent'[Len(sent) + 1] = 0
        /\ \A i \in 1..Len(sent) : sent'[i] = sent[i] /\ sent[i] >= 0
    <2>1. /\ sent' \in Seq(0..(Window - 1)) /\ Len(sent') = Len(sent) + 1
          /\ sent'[Len(sent) + 1] = 0
          /\ \A i \in 1..Len(sent) : sent'[i] = sent[i]
      BY <1>1, AppendProperties
    <2>2. \A i \in 1..Len(sent) : sent[i] \in 0..(Window - 1)
      BY <1>1, ElementOfSeq
    <2>3. QED BY <2>1, <2>2, StellarAssumption
  <1>3. WindowTyped'
    BY <1>1, <1>2 DEF WindowTyped, InOrder
  <1>4. QED BY <1>1, <1>2, <1>3

\* The first entry of a window that has one.
LEMMA FirstEntry ==
    ASSUME WindowTyped, Len(sent) # 0
    PROVE  sent[1] \in 0..(Window - 1) /\ Len(sent) \in Nat
  <1>1. sent \in Seq(0..(Window - 1)) /\ Len(sent) \in Nat
    BY DEF WindowTyped
  <1>2. 1 \in 1..Len(sent)
    BY <1>1
  <1>3. QED BY <1>1, <1>2, ElementOfSeq

\* What leaves the window with a tick is a prefix.
LEMMA TickShifts ==
    ASSUME WindowTyped, Tick
    PROVE  \E k \in 0..Len(sent) :
              /\ sent' \in Seq(0..(Window - 1))
              /\ Len(sent') = Len(sent) - k
              /\ \A i \in 1..Len(sent') : i + k \in 1..Len(sent) /\ sent'[i] = sent[i + k] + 1
  <1> DEFINE L == Len(sent)
             out == {i \in DOMAIN Aged : ~InWindow(Aged[i])}
             k == Cardinality(out)
  <1>1. /\ L \in Nat /\ Aged \in Seq(Nat) /\ Len(Aged) = L /\ DOMAIN Aged = 1..L
        /\ \A i \in 1..L : Aged[i] = sent[i] + 1 /\ sent[i] \in 0..(Window - 1)
    <2>1. sent \in Seq(0..(Window - 1)) /\ Window \in Nat
      BY StellarAssumption DEF WindowTyped
    <2>2. L \in Nat /\ DOMAIN sent = 1..L /\ \A i \in 1..L : sent[i] \in 0..(Window - 1)
      BY SMTT(30), <2>1
    <2>3. Aged = [i \in 1..L |-> sent[i] + 1]
      BY <2>2 DEF Aged
    <2>4. \A i \in 1..L : sent[i] + 1 \in Nat
      BY SMTT(30), <2>1, <2>2
    <2> HIDE DEF L
    <2>5. Aged \in Seq(Nat) /\ Len(Aged) = L /\ DOMAIN Aged = 1..L
      BY SMTT(30), <2>2, <2>3, <2>4
    <2>6. QED BY <2>2, <2>3, <2>5
  <1>2. IsFiniteSet(out) /\ k \in 0..L
    <2>1. out \in SUBSET (1..L)
      BY <1>1
    <2> HIDE DEF out
    <2>2. IsFiniteSet(1..L) /\ Cardinality(1..L) = L
      <3>1. L \in Int /\ 1 \in Int /\ (1 > L => L = 0)
        BY <1>1
      <3> HIDE DEF L
      <3>2. QED BY <3>1, FS_Interval
    <2>3. IsFiniteSet(out) /\ Cardinality(out) \in Nat /\ Cardinality(out) <= L
      BY <2>1, <2>2, FS_Subset, FS_CardinalityType
    <2>4. QED BY <1>1, <2>3
  <1>3. \A i, j \in 1..L : i <= j /\ j \in out => i \in out
    BY SMTT(30), ZenonT(30), <1>1, StellarAssumption DEF WindowTyped, InOrder, InWindow
  <1>4. \A i \in (k + 1)..L : i \notin out
    <2> SUFFICES ASSUME NEW i \in (k + 1)..L, i \in out PROVE FALSE
      OBVIOUS
    <2>1. 1..i \in SUBSET out /\ i \in Nat /\ i > k
      BY <1>1, <1>2, <1>3
    <2>2. Cardinality(1..i) = i
      BY <2>1, FS_Interval
    <2> HIDE DEF out
    <2>3. QED BY <1>2, <2>1, <2>2, FS_Subset
  <1>5. sent' = SubSeq(Aged, k + 1, L)
    BY <1>1 DEF Tick
  <1> HIDE DEF k, out
  <1>6. /\ Len(sent') = L - k
        /\ \A i \in 1..(L - k) : i + k \in (k + 1)..L /\ sent'[i] = Aged[i + k]
        /\ sent' \in Seq(Nat)
    <2>1. k + 1 \in Int /\ L \in Int /\ k \in Nat /\ L - k \in Nat
      BY <1>1, <1>2
    <2>2. \A i \in (k + 1)..L : Aged[i] \in Nat
      BY <1>1, <2>1
    <2>3. /\ sent' \in Seq(Nat)
          /\ Len(sent') = IF k + 1 <= L THEN L - (k + 1) + 1 ELSE 0
          /\ \A i \in 1..(L - (k + 1) + 1) : sent'[i] = Aged[(k + 1) + i - 1]
      <3> HIDE DEF L
      <3>1. QED BY <1>5, <2>1, <2>2, SubSeqProperties
    <2>4. Len(sent') = L - k
      BY <1>2, <2>1, <2>3
    <2>5. ASSUME NEW i \in 1..(L - k)
          PROVE  i + k \in (k + 1)..L /\ sent'[i] = Aged[i + k]
      <3>1. i \in 1..(L - (k + 1) + 1) /\ (k + 1) + i - 1 = i + k
        BY <2>1
      <3>2. sent'[i] = Aged[(k + 1) + i - 1]
        BY <2>3, <3>1
      <3>3. QED BY <2>1, <3>1, <3>2
    <2>6. QED BY <2>3, <2>4, <2>5
  <1>7. \A i \in 1..(L - k) : sent'[i] \in 0..(Window - 1)
    <2> SUFFICES ASSUME NEW i \in 1..(L - k) PROVE sent'[i] \in 0..(Window - 1)
      OBVIOUS
    <2>1. i + k \in (k + 1)..L /\ sent'[i] = Aged[i + k]
      BY <1>6
    <2>2. i + k \in 1..L
      BY <1>1, <1>2, <2>1
    <2>3. InWindow(Aged[i + k])
      BY <1>1, <1>4, <2>1, <2>2 DEF out
    <2>4. Aged[i + k] \in Nat /\ Window \in Nat
      BY <1>1, <2>2, StellarAssumption
    <2>5. QED BY <2>1, <2>3, <2>4 DEF InWindow
  <1>8. sent' \in Seq(0..(Window - 1))
    <2>1. L - k \in Nat /\ sent' = [i \in 1..(L - k) |-> sent'[i]]
      BY <1>1, <1>2, <1>6
    <2>2. sent' \in [1..(L - k) -> 0..(Window - 1)]
      BY <1>7, <2>1
    <2>3. QED BY <2>1, <2>2, SeqDef
  <1>9. QED BY <1>1, <1>2, <1>6, <1>8

LEMMA TickInLimit ==
    ASSUME IInv, LimitInv, Tick
    PROVE  LimitInv'
  <1> DEFINE L == Len(sent)
  <1>1. PICK k \in 0..L :
              /\ sent' \in Seq(0..(Window - 1))
              /\ Len(sent') = L - k
              /\ \A i \in 1..Len(sent') : i + k \in 1..L /\ sent'[i] = sent[i + k] + 1
    BY TickShifts DEF LimitInv
  <1>2. L \in Nat /\ sent \in Seq(0..(Window - 1)) /\ met \in BOOLEAN
    BY DEF LimitInv, WindowTyped
  <1>3. WindowTyped'
    <2> SUFFICES ASSUME NEW i \in 1..(L - k), NEW j \in 1..(L - k), i <= j
                 PROVE  sent'[j] <= sent'[i]
      BY <1>1 DEF WindowTyped, InOrder
    <2>1. i + k \in 1..L /\ j + k \in 1..L /\ i + k <= j + k
      BY <1>1, <1>2
    <2>2. sent[j + k] <= sent[i + k] /\ sent[j + k] \in Nat /\ sent[i + k] \in Nat
      BY SMTT(30), ZenonT(30), <1>2, <2>1, StellarAssumption DEF LimitInv, WindowTyped, InOrder
    <2>3. QED BY <1>1, <2>2
  <1>4. \A c \in Callers : /\ call'[c].pc = call[c].pc
                           /\ call'[c].timer = OneLess(call[c].timer)
    BY ShapeOf DEF Tick, Shaped, Idle
  <1>5. /\ \A c \in Callers : Waits(c)' <=> Waits(c)
        /\ \A c \in Callers : Waits(c)' => call'[c].timer \in Nat
    BY <1>4 DEF Waits, LimitInv, OneLess
  <1>6. met' \in BOOLEAN /\ (~met' => ~met \/ (Len(sent') <= MaxRequests /\ \A c \in Callers : ~Waits(c)))
    <2>1. met' = (met /\ (Len(sent') > MaxRequests \/ \E c \in Callers : Waits(c)))
      BY DEF Tick, Waits
    <2>2. Len(sent') > MaxRequests \/ Len(sent') <= MaxRequests
      BY <1>1, <1>2, StellarAssumption
    <2>3. QED BY ZenonT(30), <2>1, <2>2
  <1>7. CASE ~met
    <2>1. ASSUME NEW c \in Callers, Waits(c)' PROVE RoomFor(c)'
      <3>1. Waits(c) /\ RoomFor(c) /\ L <= MaxRequests /\ call[c].timer \in Nat
        BY <1>5, <1>7, <2>1 DEF LimitInv, InLimit
      <3>2. CASE Len(sent') < MaxRequests
        BY <3>2 DEF RoomFor
      <3>3. CASE ~(Len(sent') < MaxRequests)
        <4>1. k = 0 /\ L = MaxRequests
          BY <1>1, <1>2, <3>1, <3>3, StellarAssumption
        <4>2. sent[1] + call[c].timer >= Window /\ sent[1] \in 0..(Window - 1)
          BY <1>2, <3>1, <4>1, FirstEntry, StellarAssumption DEF RoomFor, LimitInv
        <4>3. sent'[1] = sent[1] + 1 /\ call'[c].timer = call[c].timer - 1
          <5>1. 1 \in 1..Len(sent')
            BY <1>1, <1>2, <4>1, StellarAssumption
          <5>2. sent'[1] = sent[1 + k] + 1 /\ 1 + k = 1
            BY <1>1, <4>1, <5>1
          <5>3. call[c].timer # 0
            BY <4>2, StellarAssumption
          <5>4. QED BY <1>4, <5>2, <5>3 DEF OneLess
        <4>4. sent'[1] + call'[c].timer >= Window
          BY SMTT(30), <3>1, <4>2, <4>3, StellarAssumption
        <4>5. QED BY <4>4 DEF RoomFor
      <3>4. QED BY <3>2, <3>3
    <2>2. Len(sent') <= MaxRequests
      BY <1>1, <1>2, <1>7, StellarAssumption DEF LimitInv, InLimit
    <2>3. \A c, d \in Callers : Waits(c)' /\ Waits(d)' => c = d
      BY <1>5, <1>7 DEF LimitInv, InLimit
    <2>4. QED BY <1>3, <1>5, <1>6, <2>1, <2>2, <2>3 DEF LimitInv, InLimit
  <1>8. CASE met
    <2>1. ~met' => Len(sent') <= MaxRequests /\ \A c \in Callers : ~Waits(c)'
      BY <1>5, <1>6, <1>8
    <2>2. QED BY <1>3, <1>5, <1>6, <2>1 DEF LimitInv, InLimit
  <1>9. QED BY <1>2, <1>7, <1>8

\* A caller let in with room: nobody waits, or they meet.
LEMMA AdmittedInLimit ==
    ASSUME IInv, LimitInv, NEW c \in Callers, Admitted(c)
    PROVE  LimitInv'
  <1>1. /\ WindowTyped' /\ Len(sent') = Len(sent) + 1 /\ Len(sent) \in Nat
        /\ Len(sent) < MaxRequests
    BY OneSent DEF Admitted, LimitInv
  <1>2. /\ call'[c].pc = "asked" /\ \A d \in Callers \ {c} : call'[d] = call[d]
    <2> DEFINE k == [call[c] EXCEPT !.pc = "asked"]
    <2>1. k.pc = "asked"
      BY ShapeOf DEF Shaped, Idle
    <2>2. call' = [call EXCEPT ![c] = k]
      BY DEF Admitted, Goes
    <2> HIDE DEF k
    <2>3. QED BY <2>1, <2>2 DEF IInv, ClientTyped
  <1>3. met' = (met \/ \E o \in Callers \ {c} : Waits(o))
    BY DEF Admitted, Meets, Waits
  <1>4. \A d \in Callers : Waits(d)' => d # c /\ Waits(d) /\ call'[d].timer = call[d].timer
    BY <1>2 DEF Waits
  <1>5. ~met' => \A d \in Callers : ~Waits(d)'
    BY <1>3, <1>4
  <1>6. Len(sent') <= MaxRequests
    BY <1>1, StellarAssumption
  <1>7. QED BY <1>1, <1>3, <1>4, <1>5, <1>6 DEF LimitInv, InLimit

\* A caller whose wait is over: it was the only one, and there is room.
LEMMA WokenInLimit ==
    ASSUME IInv, LimitInv, NEW c \in Callers, Woken(c)
    PROVE  LimitInv'
  <1>1. WindowTyped' /\ Len(sent') = Len(sent) + 1 /\ Len(sent) \in Nat
    BY OneSent DEF Woken, LimitInv
  <1>2. /\ call'[c].pc = "asked" /\ \A d \in Callers \ {c} : call'[d] = call[d]
    <2> DEFINE k == [call[c] EXCEPT !.pc = "asked"]
    <2>1. k.pc = "asked"
      BY ShapeOf DEF Shaped, Idle
    <2>2. call' = [call EXCEPT ![c] = k]
      BY DEF Woken, Goes
    <2> HIDE DEF k
    <2>3. QED BY <2>1, <2>2 DEF IInv, ClientTyped
  <1>3. met' = met /\ Waits(c) /\ call[c].timer = 0
    BY DEF Woken, WaitIsOver, Waits
  <1>4. \A d \in Callers : Waits(d)' => d # c /\ Waits(d) /\ call'[d].timer = call[d].timer
    BY <1>2 DEF Waits
  <1>5. ASSUME ~met PROVE Len(sent) < MaxRequests /\ \A d \in Callers : ~Waits(d)'
    <2>1. RoomFor(c) /\ Len(sent) <= MaxRequests /\ \A d \in Callers : Waits(d) => d = c
      BY <1>3, <1>5 DEF LimitInv, InLimit
    <2>2. CASE Len(sent) = 0
      BY <1>4, <2>1, <2>2, StellarAssumption
    <2>3. CASE Len(sent) # 0
      <3>1. sent[1] \in 0..(Window - 1)
        BY <2>3, FirstEntry DEF LimitInv
      <3>2. QED BY <1>3, <1>4, <2>1, <3>1, StellarAssumption DEF RoomFor
    <2>4. QED BY <2>2, <2>3
  <1>6. ~met' => Len(sent') <= MaxRequests /\ \A d \in Callers : ~Waits(d)'
    BY <1>1, <1>3, <1>5, StellarAssumption
  <1>7. met' \in BOOLEAN /\ \A d \in Callers : Waits(d)' => call'[d].timer \in Nat
    BY <1>3, <1>4 DEF LimitInv
  <1>8. QED BY <1>1, <1>6, <1>7 DEF LimitInv, InLimit

\* A caller that must wait sleeps for what the oldest request has left.
LEMMA MustWaitInLimit ==
    ASSUME IInv, LimitInv, NEW c \in Callers, MustWait(c)
    PROVE  LimitInv'
  <1> DEFINE t == WaitFor(sent[1])
             k == [call[c] EXCEPT !.pc = "waiting", !.timer = t]
  <1>1. Len(sent) \in Nat /\ Len(sent) >= MaxRequests /\ sent[1] \in 0..(Window - 1)
    BY FirstEntry, StellarAssumption DEF MustWait, LimitInv, WindowTyped
  <1>2. t \in Nat /\ sent[1] + t >= Window
    BY <1>1, StellarAssumption DEF WaitFor
  <1>3. call' = [call EXCEPT ![c] = k]
    BY DEF MustWait
  <1> HIDE DEF t
  <1>4. k.timer = t
    BY ShapeOf DEF Shaped, Idle
  <1> HIDE DEF k
  <1>5. call'[c].timer = t /\ \A d \in Callers \ {c} : call'[d] = call[d]
    BY <1>3, <1>4 DEF IInv, ClientTyped
  <1>6. sent' = sent /\ met' = (met \/ \E o \in Callers \ {c} : Waits(o))
    BY DEF MustWait, Meets, Waits
  <1>7. \A d \in Callers \ {c} : Waits(d)' <=> Waits(d)
    BY <1>5 DEF Waits
  <1>8. WindowTyped' /\ met' \in BOOLEAN
    BY <1>6 DEF LimitInv, WindowTyped, InOrder
  <1>9. \A d \in Callers : Waits(d)' => call'[d].timer \in Nat
    BY <1>2, <1>5, <1>7 DEF LimitInv
  <1>10. ASSUME ~met'
         PROVE  /\ Len(sent') <= MaxRequests
                /\ \A d \in Callers : Waits(d)' => d = c
                /\ RoomFor(c)'
    BY <1>2, <1>5, <1>6, <1>7, <1>10 DEF LimitInv, InLimit, RoomFor
  <1>11. QED BY <1>8, <1>9, <1>10 DEF LimitInv, InLimit

LEMMA AttemptFailsInLimit ==
    ASSUME IInv, LimitInv, NEW c \in Callers, AttemptFails(c)
    PROVE  LimitInv'
  <1> DEFINE t == InitialDelay * 2 ^ (call[c].attempt - 1)
             again == [call[c] EXCEPT !.pc = "backoff", !.timer = t]
             end == [call[c] EXCEPT !.pc = "idle", !.attempt = 1, !.outcome = "failed"]
  <1>1. call' = [call EXCEPT ![c] = again] \/ call' = [call EXCEPT ![c] = end]
    BY DEF AttemptFails, Ends
  <1> HIDE DEF t
  <1>2. again.pc = "backoff" /\ end.pc = "idle"
    BY ShapeOf DEF Shaped, Idle
  <1> HIDE DEF again, end
  <1>3. call'[c].pc # "waiting" /\ \A d \in Callers \ {c} : call'[d] = call[d]
    BY <1>1, <1>2 DEF IInv, ClientTyped
  <1>4. sent' = sent /\ met' = met
    BY DEF AttemptFails
  <1>5. QED BY <1>3, <1>4, NobodyWaits

\* A caller goes elsewhere than to the limiter's queue.
LEMMA ElsewhereInLimit ==
    ASSUME IInv, LimitInv, NEW c \in Callers,
           AccountAnswered(c) \/ Answered(c) \/ Retry(c)
    PROVE  LimitInv'
  <1> DEFINE goes == [call[c] EXCEPT !.pc = "acquire"]
             end == [call[c] EXCEPT !.pc = "idle", !.attempt = 1, !.outcome = "ok"]
             again == [call[c] EXCEPT !.pc = "acquire", !.attempt = call[c].attempt + 1]
  <1>1. \E k \in {goes, end, again} : call' = [call EXCEPT ![c] = k]
    BY DEF AccountAnswered, Answered, Retry, Goes, Ends
  <1>2. goes.pc = "acquire" /\ end.pc = "idle" /\ again.pc = "acquire"
    BY ShapeOf DEF Shaped, Idle
  <1> HIDE DEF goes, end, again
  <1>3. call'[c].pc # "waiting" /\ \A d \in Callers \ {c} : call'[d] = call[d]
    BY <1>1, <1>2 DEF IInv, ClientTyped
  <1>4. sent' = sent /\ met' = met
    BY DEF AccountAnswered, Answered, Retry
  <1>5. QED BY <1>3, <1>4, NobodyWaits

LEMMA BeginInLimit ==
    ASSUME IInv, LimitInv, NEW c \in Callers, NEW kind \in Kinds, Begin(c, kind)
    PROVE  LimitInv'
  <1> DEFINE pc == IF Refused(kind) THEN "idle" ELSE FirstStep(kind)
             outcome == IF Refused(kind) THEN "failed" ELSE "none"
             k == [Idle EXCEPT !.pc = pc, !.kind = kind, !.outage = ~up, !.outcome = outcome]
  <1>1. call'[c] = k /\ \A d \in Callers \ {c} : call'[d] = call[d]
    BY DEF Begin, IInv, ClientTyped
  <1>2. pc # "waiting"
    BY DEF FirstStep
  <1> HIDE DEF pc, outcome
  <1>3. k.pc = pc
    BY DEF Idle
  <1> HIDE DEF k
  <1>4. sent' = sent /\ met' = met
    BY DEF Begin
  <1>5. QED BY <1>1, <1>2, <1>3, <1>4, NobodyWaits

LEMMA NodeTurnsInLimit ==
    ASSUME IInv, LimitInv, NodeTurns
    PROVE  LimitInv'
  <1>1. \A c \in Callers : call'[c] = [call[c] EXCEPT !.outage = @ \/ InFlight(c)]
    BY DEF NodeTurns
  <1>2. \A c \in Callers : call'[c].pc = call[c].pc /\ call'[c].timer = call[c].timer
    BY <1>1, ShapeOf DEF Shaped, Idle
  <1>3. QED BY <1>2, NothingSent DEF NodeTurns, Waits

LEMMA NextLimitInv == IInv /\ LimitInv /\ [Next]_vars => LimitInv'
  <1> SUFFICES ASSUME IInv, LimitInv, [Next]_vars PROVE LimitInv'
    OBVIOUS
  <1>1. ASSUME NEW c \in Callers, Step(c) PROVE LimitInv'
    <2>1. CASE AccountAnswered(c) \/ Answered(c) \/ Retry(c)
      BY <2>1, ElsewhereInLimit
    <2>2. CASE Admitted(c)
      BY <2>2, AdmittedInLimit
    <2>3. CASE MustWait(c)
      BY <2>3, MustWaitInLimit
    <2>4. CASE Woken(c)
      BY <2>4, WokenInLimit
    <2>5. CASE NoLimiter(c) \/ NotAnswered(c)
      BY <2>5, AttemptFailsInLimit DEF NoLimiter, NotAnswered
    <2>6. QED BY <1>1, <2>1, <2>2, <2>3, <2>4, <2>5 DEF Step
  <1>2. CASE UNCHANGED vars
    BY <1>2, NothingSent DEF vars, Waits
  <1>3. QED BY <1>1, <1>2, BeginInLimit, TickInLimit, NodeTurnsInLimit DEF Next

LEMMA InitLimitInv == Init => LimitInv
  <1> SUFFICES ASSUME Init PROVE LimitInv
    OBVIOUS
  <1>1. sent = <<>> /\ sent \in Seq(0..(Window - 1)) /\ Len(sent) = 0 /\ met = FALSE
    BY DEF Init
  <1>2. \A c \in Callers : ~Waits(c)
    BY DEF Init, Idle, Waits
  <1>3. WindowTyped
    BY <1>1 DEF WindowTyped, InOrder
  <1>4. Len(sent) <= MaxRequests
    BY <1>1, StellarAssumption
  <1>5. QED BY <1>1, <1>2, <1>3, <1>4 DEF LimitInv, InLimit

\* A window of the limiter (acquire) holds more requests than maxRequests only if a caller
\* came to the limiter while another was waiting in it, however long a tick is.
THEOREM SpecLimitHoldsAlone == Spec => []LimitHoldsAlone
  <1>1. LimitInv => LimitHoldsAlone
    BY DEF LimitInv, InLimit, LimitHoldsAlone
  <1>2. Spec => []LimitInv
    BY InitLimitInv, NextLimitInv, SpecInvariant, PTL DEF Spec
  <1>3. QED BY <1>1, <1>2, PTL
=============================================================================
