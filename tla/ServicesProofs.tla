--------------------------- MODULE ServicesProofs ---------------------------
(***************************************************************************)
(* Proofs about the circuit breaker, for any number of requests and every  *)
(* config, about the workflow executor, for any number of executors and    *)
(* every definition, and about the tuple space, for any clients, tuples,   *)
(* patterns and watchers.                                                  *)
(***************************************************************************)
EXTENDS Services, FiniteSetTheorems, SequenceTheorems, TLAPS

(***************************************************************************)
(* The fields of the breaker's config.                                     *)
(***************************************************************************)
LEMMA ConfigFacts ==
    ASSUME BreakerTypeOK
    PROVE  /\ Strategy \in {"consecutive", "sliding_window", "error_rate"}
           /\ FailureThreshold \in Nat /\ SuccessThreshold \in Nat
           /\ MaxHalfOpen \in Nat /\ WindowSize \in Nat
           /\ FailureCap \in Nat \ {0}
<1>1. config \in ConfigType
    BY ConfigAssumption DEF BreakerTypeOK
<1> QED BY <1>1 DEF ConfigType, Strategy, FailureThreshold, SuccessThreshold, MaxHalfOpen,
                    WindowSize, FailureCap

(***************************************************************************)
(* A counter that saturates stays within its cap.                          *)
(***************************************************************************)
LEMMA MinFacts ==
    ASSUME NEW n \in Nat, NEW m \in Nat
    PROVE  Min2(n, m) \in 0..m /\ Min2(n, m) <= n /\ (n <= m => Min2(n, m) = n)
BY DEF Min2

(***************************************************************************)
(* The window keeps its size limit: what has expired goes, then the new    *)
(* result is added, then the oldest is dropped if there is no room.        *)
(***************************************************************************)
LEMMA WindowStep ==
    ASSUME BreakerTypeOK, NEW b \in BOOLEAN, AddToWindow(b)
    PROVE  window' \in Seq(BOOLEAN) /\ Len(window') <= WindowSize
<1>1. window \in Seq(BOOLEAN) /\ Len(window) <= WindowSize /\ WindowSize \in Nat /\ Len(window) \in Nat
    BY ConfigFacts, LenProperties DEF BreakerTypeOK
<1>2. CASE WindowSize = 0
    BY <1>1, <1>2 DEF AddToWindow
<1>3. CASE WindowSize # 0
    <2> DEFINE w(k) == Append(SubSeq(window, k + 1, Len(window)), b)
    <2>1. PICK k \in 0..Len(window) :
            window' = IF Len(w(k)) > WindowSize THEN Tail(w(k)) ELSE w(k)
        BY <1>3 DEF AddToWindow
    <2> DEFINE v == SubSeq(window, k + 1, Len(window))
    <2>2. v \in Seq(BOOLEAN) /\ Len(v) = Len(window) - k
        <3>1. \A i \in k + 1..Len(window) : window[i] \in BOOLEAN
            BY <1>1, ElementOfSeq
        <3>2. k + 1 \in Int /\ Len(window) \in Int
            BY <1>1
        <3>3. /\ SubSeq(window, k + 1, Len(window)) \in Seq(BOOLEAN)
              /\ Len(SubSeq(window, k + 1, Len(window))) =
                    IF k + 1 <= Len(window) THEN Len(window) - (k + 1) + 1 ELSE 0
            BY <1>1, <3>1, <3>2, SubSeqProperties
        <3> QED BY <1>1, <3>3
    <2> HIDE DEF v
    <2>3. w(k) = Append(v, b)
        BY DEF v
    <2> HIDE DEF w
    <2>4. w(k) \in Seq(BOOLEAN) /\ Len(w(k)) = Len(v) + 1
        BY <2>2, <2>3, AppendProperties
    <2>5. Len(w(k)) <= WindowSize + 1 /\ w(k) # <<>> /\ Len(w(k)) \in Nat
        BY <1>1, <2>2, <2>4, EmptySeq
    <2>6. Tail(w(k)) \in Seq(BOOLEAN) /\ Len(Tail(w(k))) = Len(w(k)) - 1
        BY <2>4, <2>5, HeadTailProperties
    <2>7. CASE Len(w(k)) > WindowSize
        <3>1. window' = Tail(w(k))
            BY <2>1, <2>7
        <3>2. Len(Tail(w(k))) <= WindowSize
            BY <1>1, <2>5, <2>6
        <3> QED BY <2>6, <3>1, <3>2, Zenon
    <2>8. CASE ~(Len(w(k)) > WindowSize)
        <3>1. window' = w(k)
            BY <2>1, <2>8
        <3>2. Len(w(k)) <= WindowSize
            BY <1>1, <2>5, <2>8
        <3> QED BY <2>4, <3>1, <3>2, Zenon
    <2> QED BY <2>7, <2>8
<1> QED BY <1>2, <1>3

(***************************************************************************)
(* No request leaves the half-open period as its probe.                    *)
(***************************************************************************)
LEMMA AgedFacts ==
    ASSUME NEW r \in [Callers -> {"idle", "probe", "before"}]
    PROVE  Aged(r) \in [Callers -> {"idle", "probe", "before"}] /\ \A c \in Callers : Aged(r)[c] # "probe"
BY DEF Aged

(***************************************************************************)
(* Opening, for whatever reason and with whatever counters.                *)
(***************************************************************************)
LEMMA OpenStep ==
    ASSUME BreakerInv, NEW f \in 0..FailureCap, NEW s \in 0..SuccessThreshold,
           NEW r \in [Callers -> {"idle", "probe", "before"}], TransitionToOpen(f, s, r),
           window' \in Seq(BOOLEAN), Len(window') <= WindowSize
    PROVE  BreakerInv'
<1>1. BreakerTypeOK
    BY DEF BreakerInv
<1>2. /\ config' = config /\ state' = "open" /\ elapsed' = FALSE /\ halfOpen' = 0 /\ failures' = f
      /\ successes' = s /\ fresh' = 0 /\ probes' = 0 /\ lost' = FALSE /\ req' = Aged(r)
    BY DEF TransitionToOpen
<1>3. /\ FailureCap' = FailureCap /\ SuccessThreshold' = SuccessThreshold
      /\ MaxHalfOpen' = MaxHalfOpen /\ WindowSize' = WindowSize
    BY <1>2 DEF FailureCap, SuccessThreshold, MaxHalfOpen, WindowSize, Strategy, FailureThreshold
<1>4. Probing' = {}
    BY <1>2, AgedFacts DEF Probing
<1>5. BreakerTypeOK'
    <2>1. /\ halfOpen' \in 0..MaxHalfOpen /\ fresh' \in 0..FailureCap /\ probes' \in 0..(MaxHalfOpen + 2)
          /\ failures' \in 0..FailureCap /\ successes' \in 0..SuccessThreshold
        BY <1>1, <1>2, ConfigFacts
    <2>2. req' \in [Callers -> {"idle", "probe", "before"}] /\ lost' \in BOOLEAN /\ elapsed' \in BOOLEAN
          /\ state' \in {"closed", "open", "half_open"} /\ config' \in Configs
        BY <1>1, <1>2, AgedFacts DEF BreakerTypeOK
    <2> QED BY <1>3, <2>1, <2>2 DEF BreakerTypeOK
<1>6. ProbesBounded' /\ PlacesCounted'
    <2>1. IsFiniteSet({}) /\ Cardinality({}) = 0
        BY FS_EmptySet
    <2>2. 0 <= MaxHalfOpen + 1
        BY <1>1, ConfigFacts
    <2> QED BY <1>2, <1>3, <1>4, <2>1, <2>2 DEF ProbesBounded, PlacesCounted
<1>7. ThresholdsAct' /\ NothingHeldOver'
    BY <1>2 DEF ThresholdsAct, NothingHeldOver
<1> QED BY <1>5, <1>6, <1>7 DEF BreakerInv

(***************************************************************************)
(* Closing: every counter starts again.                                    *)
(***************************************************************************)
LEMMA CloseStep ==
    ASSUME BreakerInv, NEW r \in [Callers -> {"idle", "probe", "before"}], TransitionToClosed(r),
           window' \in Seq(BOOLEAN), Len(window') <= WindowSize
    PROVE  BreakerInv'
<1>1. BreakerTypeOK
    BY DEF BreakerInv
<1>2. /\ config' = config /\ state' = "closed" /\ elapsed' = elapsed /\ halfOpen' = 0 /\ failures' = 0
      /\ successes' = 0 /\ fresh' = 0 /\ probes' = 0 /\ lost' = FALSE /\ req' = Aged(r)
    BY DEF TransitionToClosed
<1>3. /\ FailureCap' = FailureCap /\ SuccessThreshold' = SuccessThreshold /\ Strategy' = Strategy
      /\ FailureThreshold' = FailureThreshold
      /\ MaxHalfOpen' = MaxHalfOpen /\ WindowSize' = WindowSize
    BY <1>2 DEF FailureCap, SuccessThreshold, MaxHalfOpen, WindowSize, Strategy, FailureThreshold
<1>4. Probing' = {}
    BY <1>2, AgedFacts DEF Probing
<1>5. BreakerTypeOK'
    <2>1. /\ halfOpen' \in 0..MaxHalfOpen /\ fresh' \in 0..FailureCap /\ probes' \in 0..(MaxHalfOpen + 2)
          /\ failures' \in 0..FailureCap /\ successes' \in 0..SuccessThreshold
        BY <1>1, <1>2, ConfigFacts
    <2>2. req' \in [Callers -> {"idle", "probe", "before"}] /\ lost' \in BOOLEAN /\ elapsed' \in BOOLEAN
          /\ state' \in {"closed", "open", "half_open"} /\ config' \in Configs
        BY <1>1, <1>2, AgedFacts DEF BreakerTypeOK
    <2> QED BY <1>3, <2>1, <2>2 DEF BreakerTypeOK
<1>6. ProbesBounded' /\ PlacesCounted'
    <2>1. IsFiniteSet({}) /\ Cardinality({}) = 0
        BY FS_EmptySet
    <2>2. 0 <= MaxHalfOpen + 1
        BY <1>1, ConfigFacts
    <2> QED BY <1>2, <1>3, <1>4, <2>1, <2>2 DEF ProbesBounded, PlacesCounted
<1>7. ThresholdsAct' /\ NothingHeldOver'
    BY <1>1, <1>2, <1>3, ConfigFacts DEF ThresholdsAct, NothingHeldOver
<1> QED BY <1>5, <1>6, <1>7 DEF BreakerInv

(***************************************************************************)
(* A request that ends is no probe any more.                               *)
(***************************************************************************)
LEMMA DoneFacts ==
    ASSUME BreakerInv, NEW c \in Callers
    PROVE  /\ Done(c) \in [Callers -> {"idle", "probe", "before"}]
           /\ LET left == {d \in Callers : Done(c)[d] = "probe"} IN
              /\ left \subseteq Probing
              /\ IsFiniteSet(left) /\ Cardinality(left) <= probes
<1> DEFINE left == {d \in Callers : Done(c)[d] = "probe"}
<1>1. req \in [Callers -> {"idle", "probe", "before"}] /\ probes \in Nat
    BY ConfigFacts DEF BreakerInv, BreakerTypeOK
<1>2. Done(c) \in [Callers -> {"idle", "probe", "before"}] /\ left \subseteq Probing
    BY <1>1 DEF Done, Probing
<1>3. IsFiniteSet(Probing) /\ Cardinality(Probing) <= probes
    BY DEF BreakerInv, ProbesBounded
<1>4. IsFiniteSet(left) /\ Cardinality(left) <= Cardinality(Probing)
    BY <1>2, <1>3, FS_Subset
<1>5. Cardinality(left) \in Nat /\ Cardinality(Probing) \in Nat
    BY <1>3, <1>4, FS_CardinalityType
<1> HIDE DEF left
<1>6. Cardinality(left) <= probes
    BY <1>1, <1>3, <1>4, <1>5
<1> QED BY <1>2, <1>4, <1>6 DEF left

(***************************************************************************)
(* A result that moves no breaker: its counters stay below what they       *)
(* trigger.                                                                *)
(***************************************************************************)
LEMMA StayStep ==
    ASSUME BreakerInv, NEW c \in Callers, NEW f \in 0..FailureCap, NEW s \in 0..SuccessThreshold,
           Stay(f, s, Done(c)), fresh' \in 0..FailureCap,
           window' \in Seq(BOOLEAN), Len(window') <= WindowSize,
           state = "closed" => /\ f <= fresh'
                               /\ Strategy = "consecutive" => f = 0 \/ f < FailureThreshold,
           state = "half_open" => f = 0 /\ s < SuccessThreshold
    PROVE  BreakerInv'
<1>1. BreakerTypeOK
    BY DEF BreakerInv
<1>2. /\ failures' = f /\ successes' = s /\ req' = Done(c)
      /\ UNCHANGED <<config, state, elapsed, halfOpen, probes, lost>>
    BY DEF Stay
<1>3. /\ FailureCap' = FailureCap /\ SuccessThreshold' = SuccessThreshold /\ Strategy' = Strategy
      /\ FailureThreshold' = FailureThreshold
      /\ MaxHalfOpen' = MaxHalfOpen /\ WindowSize' = WindowSize
    BY <1>2 DEF FailureCap, SuccessThreshold, MaxHalfOpen, WindowSize, Strategy, FailureThreshold
<1>4. Probing' \subseteq Probing /\ IsFiniteSet(Probing') /\ Cardinality(Probing') <= probes
    <2>1. Probing' = {d \in Callers : Done(c)[d] = "probe"}
        BY <1>2 DEF Probing
    <2> QED BY <2>1, DoneFacts
<1>5. BreakerTypeOK'
    <2>1. req' \in [Callers -> {"idle", "probe", "before"}]
        BY <1>2, DoneFacts
    <2> QED BY <1>1, <1>2, <1>3, <2>1 DEF BreakerTypeOK
<1>6. ProbesBounded' /\ PlacesCounted'
    BY <1>2, <1>3, <1>4 DEF BreakerInv, ProbesBounded, PlacesCounted
<1>7. ThresholdsAct' /\ NothingHeldOver'
    BY <1>2, <1>3 DEF BreakerInv, ThresholdsAct, NothingHeldOver
<1> QED BY <1>5, <1>6, <1>7 DEF BreakerInv

(***************************************************************************)
(* record_success.                                                         *)
(***************************************************************************)
LEMMA SucceedStep ==
    ASSUME BreakerInv, NEW c \in Callers, Succeed(c)
    PROVE  BreakerInv'
<1> DEFINE s == Min2(successes + 1, SuccessThreshold)
<1>1. /\ BreakerTypeOK /\ successes \in Nat /\ SuccessThreshold \in Nat
      /\ FailureThreshold \in Nat /\ FailureCap \in Nat /\ fresh \in 0..FailureCap
    BY ConfigFacts DEF BreakerInv, BreakerTypeOK
<1>2. s \in 0..SuccessThreshold
    BY <1>1, MinFacts
<1>3. /\ AddToWindow(TRUE)
      /\ IF state = "half_open" /\ s >= SuccessThreshold
         THEN TransitionToClosed(Done(c)) ELSE Stay(0, s, Done(c)) /\ UNCHANGED fresh
    BY DEF Succeed, RecordSuccess
<1> HIDE DEF s
<1>4. window' \in Seq(BOOLEAN) /\ Len(window') <= WindowSize
    BY <1>1, <1>3, WindowStep
<1>5. Done(c) \in [Callers -> {"idle", "probe", "before"}]
    BY DoneFacts
<1>6. CASE state = "half_open" /\ s >= SuccessThreshold
    BY <1>3, <1>4, <1>5, <1>6, CloseStep
<1>7. CASE ~(state = "half_open" /\ s >= SuccessThreshold)
    <2>1. /\ Stay(0, s, Done(c)) /\ fresh' = fresh /\ 0 \in 0..FailureCap
          /\ state = "half_open" => s < SuccessThreshold
          /\ 0 <= fresh
        BY <1>1, <1>2, <1>3, <1>7
    <2>2. fresh' \in 0..FailureCap
        BY <1>1, <2>1
    <2> QED BY <1>2, <1>4, <2>1, <2>2, StayStep
<1> QED BY <1>6, <1>7

(***************************************************************************)
(* record_failure: it opens a half-open breaker and a closed one at its    *)
(* threshold.                                                              *)
(***************************************************************************)
LEMMA FailStep ==
    ASSUME BreakerInv, NEW c \in Callers, Fail(c)
    PROVE  BreakerInv'
<1> DEFINE f == Min2(failures + 1, FailureCap)
<1>1. /\ BreakerTypeOK /\ SuccessThreshold \in Nat /\ failures \in Nat
      /\ FailureThreshold \in Nat /\ FailureCap \in Nat /\ fresh \in 0..FailureCap
    BY ConfigFacts DEF BreakerInv, BreakerTypeOK
<1>2. f \in 0..FailureCap
    BY <1>1, MinFacts
<1>3. /\ AddToWindow(FALSE)
      /\ IF state = "half_open" \/ (state = "closed" /\ ShouldTrip(f, window'))
         THEN TransitionToOpen(f, 0, Done(c))
         ELSE /\ Stay(f, 0, Done(c))
              /\ fresh' = IF state = "closed" THEN Min2(fresh + 1, FailureCap) ELSE fresh
    BY DEF Fail, RecordFailure
<1>4. window' \in Seq(BOOLEAN) /\ Len(window') <= WindowSize
    BY <1>1, <1>3, WindowStep
<1>5. Done(c) \in [Callers -> {"idle", "probe", "before"}] /\ 0 \in 0..SuccessThreshold
    <2>1. 0 \in 0..SuccessThreshold
        BY <1>1
    <2> QED BY <2>1, DoneFacts
<1>6. state = "closed" => f <= Min2(fresh + 1, FailureCap)
    BY <1>1 DEF Min2, BreakerInv, NothingHeldOver
<1>7. Min2(fresh + 1, FailureCap) \in 0..FailureCap
    BY <1>1, MinFacts
<1> HIDE DEF f
<1>8. CASE state = "half_open" \/ (state = "closed" /\ ShouldTrip(f, window'))
    BY <1>2, <1>3, <1>4, <1>5, <1>8, OpenStep
<1>9. CASE ~(state = "half_open" \/ (state = "closed" /\ ShouldTrip(f, window')))
    <2>1. /\ Stay(f, 0, Done(c)) /\ state # "half_open"
          /\ fresh' = IF state = "closed" THEN Min2(fresh + 1, FailureCap) ELSE fresh
        BY <1>3, <1>9
    <2>2. state = "closed" /\ Strategy = "consecutive" => f < FailureThreshold
        BY <1>1, <1>2, <1>9 DEF ShouldTrip
    <2>3. fresh' \in 0..FailureCap
        BY <1>1, <1>7, <2>1
    <2>4. state = "closed" => f <= fresh'
        BY <1>6, <2>1
    <2> QED BY <1>2, <1>4, <1>5, <2>1, <2>2, <2>3, <2>4, StayStep
<1> QED BY <1>8, <1>9

(***************************************************************************)
(* is_request_allowed, for a request or for a query: one more place of the *)
(* half-open period is taken, and a request takes it as a probe.           *)
(***************************************************************************)
LEMMA AllowStep ==
    ASSUME BreakerInv, AllowClosed \/ AllowElapsed \/ AllowHalfOpen, lost' \in BOOLEAN,
           \/ req' = req
           \/ \E c \in Callers : req' = [req EXCEPT ![c] = IF state' = "half_open" THEN "probe" ELSE "before"]
    PROVE  BreakerInv'
<1>1. /\ BreakerTypeOK /\ SuccessThreshold \in Nat /\ MaxHalfOpen \in Nat /\ FailureCap \in Nat
      /\ halfOpen \in 0..MaxHalfOpen /\ probes \in Nat
      /\ req \in [Callers -> {"idle", "probe", "before"}]
    BY ConfigFacts DEF BreakerInv, BreakerTypeOK
<1>2. config' = config /\ fresh' = fresh /\ window' = window /\ elapsed' = elapsed
    BY DEF AllowClosed, AllowElapsed, AllowHalfOpen, breaker
<1>3. /\ FailureCap' = FailureCap /\ SuccessThreshold' = SuccessThreshold /\ Strategy' = Strategy
      /\ FailureThreshold' = FailureThreshold
      /\ MaxHalfOpen' = MaxHalfOpen /\ WindowSize' = WindowSize
    BY <1>2 DEF FailureCap, SuccessThreshold, MaxHalfOpen, WindowSize, Strategy, FailureThreshold
<1>4. /\ req' \in [Callers -> {"idle", "probe", "before"}]
      /\ state' # "half_open" => Probing' \subseteq Probing
      /\ Probing' \subseteq Probing \/ \E c \in Callers : Probing' \subseteq Probing \union {c}
    BY <1>1 DEF Probing
<1>5. IsFiniteSet(Probing) /\ Cardinality(Probing) <= probes /\ Cardinality(Probing) \in Nat
    BY FS_CardinalityType DEF BreakerInv, ProbesBounded
<1>6. IsFiniteSet(Probing') /\ Cardinality(Probing') <= Cardinality(Probing) + 1 /\ Cardinality(Probing') \in Nat
    <2>1. CASE Probing' \subseteq Probing
        <3>1. IsFiniteSet(Probing') /\ Cardinality(Probing') <= Cardinality(Probing)
            BY <1>5, <2>1, FS_Subset
        <3> QED BY <1>5, <3>1, FS_CardinalityType
    <2>2. ASSUME NEW c \in Callers, Probing' \subseteq Probing \union {c}
          PROVE  IsFiniteSet(Probing') /\ Cardinality(Probing') <= Cardinality(Probing) + 1
                 /\ Cardinality(Probing') \in Nat
        <3>1. /\ IsFiniteSet(Probing \union {c}) /\ Cardinality(Probing \union {c}) \in Nat
              /\ Cardinality(Probing \union {c}) <= Cardinality(Probing) + 1
            <4>1. /\ IsFiniteSet(Probing \union {c})
                  /\ \/ Cardinality(Probing \union {c}) = Cardinality(Probing)
                     \/ Cardinality(Probing \union {c}) = Cardinality(Probing) + 1
                BY <1>5, FS_AddElement
            <4> QED BY <1>5, <4>1
        <3>2. IsFiniteSet(Probing') /\ Cardinality(Probing') <= Cardinality(Probing \union {c})
            BY <2>2, <3>1, FS_Subset
        <3> QED BY <1>5, <3>1, <3>2, FS_CardinalityType
    <2> QED BY <1>4, <2>1, <2>2
<1>7. CASE AllowClosed
    <2>1. state = "closed" /\ UNCHANGED <<state, failures, successes, halfOpen, probes>>
        BY <1>7 DEF AllowClosed, breaker
    <2>2. Probing' = {} /\ probes = 0
        BY <1>4, <2>1 DEF BreakerInv, PlacesCounted
    <2>3. BreakerTypeOK'
        BY <1>1, <1>2, <1>3, <1>4, <2>1 DEF BreakerTypeOK
    <2>4. ProbesBounded' /\ PlacesCounted'
        <3>1. IsFiniteSet({}) /\ Cardinality({}) = 0
            BY FS_EmptySet
        <3> QED BY <1>1, <1>3, <2>1, <2>2, <3>1 DEF ProbesBounded, PlacesCounted
    <2> QED BY <1>2, <1>3, <2>1, <2>3, <2>4 DEF BreakerInv, ThresholdsAct, NothingHeldOver
<1>8. CASE AllowElapsed
    <2>1. /\ state = "open" /\ state' = "half_open" /\ failures' = 0 /\ successes' = 0
          /\ halfOpen' = 0 /\ probes' = 1
        BY <1>8 DEF AllowElapsed
    <2>2. Probing = {} /\ Cardinality({}) = 0
        BY <2>1, FS_EmptySet DEF BreakerInv, PlacesCounted
    <2>3. BreakerTypeOK'
        <3>1. /\ failures' \in 0..FailureCap /\ successes' \in 0..SuccessThreshold
              /\ halfOpen' \in 0..MaxHalfOpen /\ probes' \in 0..(MaxHalfOpen + 2)
            BY <1>1, <2>1
        <3> QED BY <1>1, <1>2, <1>3, <1>4, <2>1, <3>1 DEF BreakerTypeOK
    <2>4. ProbesBounded' /\ PlacesCounted'
        <3>1. Cardinality(Probing') <= 1
            BY <1>6, <2>2
        <3> QED BY <1>1, <1>3, <1>6, <2>1, <3>1 DEF ProbesBounded, PlacesCounted
    <2>5. ThresholdsAct' /\ NothingHeldOver'
        BY <1>1, <1>3, <2>1 DEF ThresholdsAct, NothingHeldOver
    <2> QED BY <2>3, <2>4, <2>5 DEF BreakerInv
<1>9. CASE AllowHalfOpen
    <2>1. /\ state = "half_open" /\ halfOpen < MaxHalfOpen /\ halfOpen' = halfOpen + 1
          /\ probes' = Min2(probes + 1, MaxHalfOpen + 2)
          /\ UNCHANGED <<state, failures, successes>>
        BY <1>9 DEF AllowHalfOpen
    <2>2. probes = halfOpen + 1
        BY <2>1 DEF BreakerInv, PlacesCounted
    <2>3. probes' = probes + 1 /\ probes' <= MaxHalfOpen + 1
        BY <1>1, <2>1, <2>2 DEF Min2
    <2>4. BreakerTypeOK'
        <3>1. halfOpen' \in 0..MaxHalfOpen /\ probes' \in 0..(MaxHalfOpen + 2)
            BY <1>1, <2>1, <2>3
        <3> QED BY <1>1, <1>2, <1>3, <1>4, <2>1, <3>1 DEF BreakerTypeOK
    <2>5. ProbesBounded' /\ PlacesCounted'
        <3>1. Cardinality(Probing') <= probes'
            BY <1>1, <1>5, <1>6, <2>3
        <3> QED BY <1>1, <1>3, <1>6, <2>1, <2>2, <2>3, <3>1 DEF ProbesBounded, PlacesCounted
    <2>6. ThresholdsAct' /\ NothingHeldOver'
        BY <1>3, <2>1 DEF BreakerInv, ThresholdsAct, NothingHeldOver
    <2> QED BY <2>4, <2>5, <2>6 DEF BreakerInv
<1> QED BY <1>7, <1>8, <1>9

(***************************************************************************)
(* A new breaker is closed and has counted nothing.                        *)
(***************************************************************************)
LEMMA BreakerStart == BreakerInit => BreakerInv
<1> SUFFICES ASSUME BreakerInit PROVE BreakerInv
    OBVIOUS
<1>1. config \in ConfigType
    BY ConfigAssumption DEF BreakerInit
<1>2. /\ FailureThreshold \in Nat /\ SuccessThreshold \in Nat
      /\ MaxHalfOpen \in Nat /\ WindowSize \in Nat /\ FailureCap \in Nat \ {0}
    BY <1>1 DEF ConfigType, Strategy, FailureThreshold, SuccessThreshold, MaxHalfOpen,
                    WindowSize, FailureCap
<1>3. Probing = {} /\ IsFiniteSet({}) /\ Cardinality({}) = 0
    BY FS_EmptySet DEF Probing, BreakerInit
<1>4. BreakerTypeOK
    <2>1. window \in Seq(BOOLEAN) /\ Len(window) <= WindowSize
        BY <1>2 DEF BreakerInit
    <2>2. /\ failures \in 0..FailureCap /\ successes \in 0..SuccessThreshold /\ fresh \in 0..FailureCap
          /\ halfOpen \in 0..MaxHalfOpen /\ probes \in 0..(MaxHalfOpen + 2)
        BY <1>2 DEF BreakerInit
    <2> QED BY <2>1, <2>2 DEF BreakerTypeOK, BreakerInit
<1>5. ThresholdsAct /\ ProbesBounded /\ PlacesCounted /\ NothingHeldOver
    BY <1>2, <1>3 DEF BreakerInit, ThresholdsAct, ProbesBounded, PlacesCounted, NothingHeldOver
<1> QED BY <1>4, <1>5 DEF BreakerInv

(***************************************************************************)
(* Every call on the breaker, every result however late, every abandoned   *)
(* request and the timeout keep its invariant.                             *)
(***************************************************************************)
LEMMA BreakerStep == BreakerInv /\ [BreakerNext]_breakerVars => BreakerInv'
<1> SUFFICES ASSUME BreakerInv, [BreakerNext]_breakerVars PROVE BreakerInv'
    OBVIOUS
<1>0. /\ BreakerTypeOK /\ window \in Seq(BOOLEAN) /\ Len(window) <= WindowSize
      /\ req \in [Callers -> {"idle", "probe", "before"}]
      /\ failures \in 0..FailureCap /\ successes \in 0..SuccessThreshold
    BY DEF BreakerInv, BreakerTypeOK
<1>1. CASE Elapse
    <2>1. elapsed' = TRUE /\ UNCHANGED <<config, state, failures, successes, halfOpen, window, req, fresh, probes, lost>>
        BY <1>1 DEF Elapse
    <2>2. BreakerTypeOK'
        BY <1>0, <2>1 DEF BreakerTypeOK, FailureCap, SuccessThreshold, MaxHalfOpen, WindowSize,
                          Strategy, FailureThreshold
    <2> QED BY <2>1, <2>2 DEF BreakerInv, ThresholdsAct, ProbesBounded, PlacesCounted, NothingHeldOver,
                    Probing, SuccessThreshold, MaxHalfOpen, Strategy, FailureThreshold
<1>2. CASE Query
    <2>1. (AllowElapsed \/ AllowHalfOpen) /\ req' = req /\ lost' \in BOOLEAN
        BY <1>2 DEF Query
    <2> QED BY <2>1, AllowStep
<1>3. CASE Trip
    BY <1>0, <1>3, OpenStep DEF Trip
<1>4. CASE Reset
    BY <1>0, <1>4, CloseStep DEF Reset
<1>5. ASSUME NEW c \in Callers, Request(c) PROVE BreakerInv'
    <2>1. /\ AllowClosed \/ AllowElapsed \/ AllowHalfOpen
          /\ req' = [req EXCEPT ![c] = IF state' = "half_open" THEN "probe" ELSE "before"]
        BY <1>5 DEF Request
    <2>2. lost' \in BOOLEAN
        BY <1>0, <1>5 DEF Request, BreakerTypeOK
    <2> QED BY <2>1, <2>2, AllowStep
<1>6. ASSUME NEW c \in Callers, Abandon(c) PROVE BreakerInv'
    <2>1. UNCHANGED <<config, state, elapsed, failures, successes, halfOpen, window, fresh, probes>> /\ req' = Done(c)
        BY <1>6 DEF Abandon, breaker
    <2>2. lost' \in BOOLEAN
        BY <1>0, <1>6 DEF Abandon, BreakerTypeOK
    <2>3. Probing' \subseteq Probing /\ IsFiniteSet(Probing') /\ Cardinality(Probing') <= probes
        <3>1. Probing' = {d \in Callers : Done(c)[d] = "probe"}
            BY <2>1 DEF Probing
        <3> QED BY <3>1, DoneFacts
    <2>4. BreakerTypeOK'
        <3>1. req' \in [Callers -> {"idle", "probe", "before"}]
            BY <2>1, DoneFacts
        <3> QED BY <1>0, <2>1, <2>2, <3>1 DEF BreakerTypeOK, FailureCap, SuccessThreshold, MaxHalfOpen,
                          WindowSize, Strategy, FailureThreshold
    <2> QED BY <2>1, <2>3, <2>4 DEF BreakerInv, ThresholdsAct, ProbesBounded, PlacesCounted,
                    NothingHeldOver, SuccessThreshold, MaxHalfOpen, Strategy, FailureThreshold
<1>7. CASE UNCHANGED breakerVars
    BY <1>7 DEF breakerVars, breaker, BreakerInv, BreakerTypeOK, ThresholdsAct, ProbesBounded,
                PlacesCounted, NothingHeldOver, Probing, FailureCap, SuccessThreshold, MaxHalfOpen,
                WindowSize, Strategy, FailureThreshold
<1> QED BY <1>1, <1>2, <1>3, <1>4, <1>5, <1>6, <1>7, SucceedStep, FailStep DEF BreakerNext

(***************************************************************************)
(* For any number of concurrent requests and every config, whatever order  *)
(* their results arrive in: the thresholds act, and a half-open period     *)
(* lets in max_half_open_requests and the request that began it, never     *)
(* more (is_request_allowed, record_success, record_failure).              *)
(***************************************************************************)
THEOREM BreakerHolds == BreakerSpec => []BreakerInv
BY BreakerStart, BreakerStep, PTL DEF BreakerSpec

(***************************************************************************)
(* A failure that trips a closed breaker is the last of a full count.      *)
(***************************************************************************)
LEMMA FreshStep ==
    ASSUME BreakerInv, [BreakerNext]_breakerVars, state = "closed", state' = "open",
           Strategy = "consecutive"
    PROVE  fresh + 1 >= FailureThreshold \/ Trip
<1>1. /\ FailureThreshold \in Nat /\ (FailureThreshold > 0 => FailureCap = FailureThreshold)
      /\ FailureCap \in Nat
      /\ failures \in 0..FailureCap /\ fresh \in 0..FailureCap /\ failures <= fresh
    BY ConfigFacts DEF BreakerInv, BreakerTypeOK, NothingHeldOver, FailureCap
<1>2. ASSUME NEW c \in Callers, Fail(c) PROVE fresh + 1 >= FailureThreshold
    <2> DEFINE f == Min2(failures + 1, FailureCap)
    <2>1. ShouldTrip(f, window')
        BY <1>2 DEF Fail, RecordFailure, Stay
    <2>2. f >= FailureThreshold
        BY <2>1 DEF ShouldTrip
    <2> QED BY <1>1, <2>2 DEF Min2
<1>3. ASSUME NEW c \in Callers, Succeed(c) PROVE FALSE
    BY <1>3 DEF Succeed, RecordSuccess, TransitionToClosed, Stay
<1>4. ASSUME NEW c \in Callers, Request(c) \/ Abandon(c) PROVE FALSE
    BY <1>4 DEF Request, Abandon, AllowClosed, AllowElapsed, AllowHalfOpen, breaker
<1>5. CASE Elapse \/ Query \/ Reset \/ UNCHANGED breakerVars
    BY <1>5 DEF Elapse, Query, Reset, AllowElapsed, AllowHalfOpen, TransitionToClosed, breakerVars, breaker
<1> QED BY <1>2, <1>3, <1>4, <1>5 DEF BreakerNext

(***************************************************************************)
(* With consecutive failures counted, nothing from before the breaker      *)
(* closed helps to trip it: late results of requests that outlived the     *)
(* open or the half-open period count like any others, from zero.          *)
(***************************************************************************)
THEOREM FreshTripHolds == BreakerSpec => FreshTrip
<1>1. BreakerInv /\ [BreakerNext]_breakerVars =>
        [state = "closed" /\ state' = "open" /\ Strategy = "consecutive"
            => fresh + 1 >= FailureThreshold \/ Trip]_breakerVars
    BY FreshStep
<1> QED BY <1>1, BreakerHolds, PTL DEF BreakerSpec, FreshTrip

-----------------------------------------------------------------------------
(* The workflow executor.                                                  *)

(***************************************************************************)
(* What the type invariant says of definitions, rows and executors.        *)
(***************************************************************************)
LEMMA WorkflowFacts ==
    ASSUME WorkflowTypeOK
    PROVE  /\ steps \in Seq(StepType) /\ Len(steps) \in Nat /\ DOMAIN steps = 1..Len(steps)
           /\ \A s \in 1..Len(steps) : steps[s] \in StepType
           /\ rows \in Seq(Rows) /\ Len(rows) \in Nat /\ \A k \in 1..Len(rows) : rows[k] \in Rows
           /\ exec \in [Executors -> Execs] /\ \A e \in Executors : exec[e] \in Execs
           /\ signals \in Seq(Signal) /\ Len(signals) \in Nat
<1>1. steps \in Seq(StepType) /\ rows \in Seq(Rows) /\ exec \in [Executors -> Execs] /\ signals \in Seq(Signal)
    BY WorkflowAssumption DEF WorkflowTypeOK
<1>2. \A s \in 1..Len(steps) : steps[s] \in StepType
    BY <1>1, ElementOfSeq
<1>3. \A k \in 1..Len(rows) : rows[k] \in Rows
    BY <1>1, ElementOfSeq
<1> QED BY <1>1, <1>2, <1>3, LenProperties

LEMMA StepFacts ==
    ASSUME WorkflowTypeOK, NEW s \in 1..Len(steps)
    PROVE  /\ steps[s].next \in Nat /\ steps[s].max_attempts \in Nat /\ steps[s].items \in Nat
           /\ steps[s].max_concurrency \in Nat
BY WorkflowFacts DEF StepType

LEMMA ExecFacts ==
    ASSUME WorkflowTypeOK, NEW e \in Executors
    PROVE  /\ exec[e].cur \in Nat /\ exec[e].index \in Nat /\ exec[e].visited \in SUBSET Nat
           /\ exec[e].onChoice \in BOOLEAN /\ exec[e].attempt \in Nat /\ exec[e].row \in Nat
           /\ exec[e].ok \in BOOLEAN /\ exec[e].done \in Nat /\ exec[e].read \in Nat
BY WorkflowFacts DEF Execs

(***************************************************************************)
(* What an executor keeps is about its own record, rows and tasks: a step  *)
(* that leaves these alone keeps it.                                       *)
(***************************************************************************)
OwnInv(e) == InStep(e) /\ AttemptsNumbered(e) /\ VisitedCompleted(e) /\ KidsInTurn(e)

LEMMA OtherKeeps ==
    ASSUME WorkflowTypeOK, NEW d \in Executors, OwnInv(d), steps' = steps, exec'[d] = exec[d],
           Len(rows') \in Nat, Len(rows) <= Len(rows'),
           \A k \in 1..Len(rows) : rows[k].by = d => rows'[k] = rows[k],
           \A k \in 1..Len(rows') : rows'[k].by = d => k \in 1..Len(rows) /\ rows'[k] = rows[k],
           \A t \in tasks : t.by = d => t \in tasks',
           \A t \in tasks' : t.by = d => t \in tasks
    PROVE  OwnInv(d)'
<1>0. Len(rows) \in Nat
    BY WorkflowFacts
<1>1. \A s : {k \in {j \in 1..Len(rows') : rows'[j].step = s} : rows'[k].by = d} =
             {k \in {j \in 1..Len(rows) : rows[j].step = s} : rows[k].by = d}
    BY <1>0
<1>2. \A s : {t \in tasks' : t.by = d /\ t.step = s} = {t \in tasks : t.by = d /\ t.step = s}
    OBVIOUS
<1>3. InStep(d)'
    BY <1>0, <1>1, SMTT(30) DEF OwnInv, InStep, Exists, OwnRows, RowsOfStep, Is, Now
<1>4. AttemptsNumbered(d)'
    BY <1>0, <1>1 DEF OwnInv, AttemptsNumbered, OneByOne, Exists, OwnRows, RowsOfStep, Is, Now
<1>5. VisitedCompleted(d)'
    BY <1>0, <1>1 DEF OwnInv, VisitedCompleted, LastCompleted, OwnRows, RowsOfStep
<1>6. KidsInTurn(d)'
    BY <1>0, <1>1, <1>2 DEF OwnInv, KidsInTurn, TasksOf, Live, OwnRows, RowsOfStep, Is, Now
<1> QED BY <1>3, <1>4, <1>5, <1>6 DEF OwnInv

LEMMA OwnStep ==
    ASSUME WorkflowTypeOK, ExecutorInv, NEW e \in Executors, steps' = steps, OwnInv(e)',
           \A d \in Executors \ {e} : exec'[d] = exec[d],
           Len(rows') \in Nat, Len(rows) <= Len(rows'),
           \A k \in 1..Len(rows) : rows'[k].by = rows[k].by /\ (rows[k].by # e => rows'[k] = rows[k]),
           \A k \in 1..Len(rows') : k > Len(rows) => rows'[k].by = e,
           \A t \in tasks : t.by # e => t \in tasks',
           \A t \in tasks' : t.by # e => t \in tasks
    PROVE  ExecutorInv'
<1> SUFFICES ASSUME NEW d \in Executors PROVE OwnInv(d)'
    BY DEF ExecutorInv, OwnInv
<1>1. CASE d = e
    BY <1>1
<1>2. CASE d # e
    <2>1. OwnInv(d) /\ exec'[d] = exec[d] /\ Len(rows) \in Nat
        BY <1>2, WorkflowFacts DEF ExecutorInv, OwnInv
    <2>2. \A k \in 1..Len(rows) : rows[k].by = d => rows'[k] = rows[k]
        BY <1>2
    <2>3. \A k \in 1..Len(rows') : rows'[k].by = d => k \in 1..Len(rows) /\ rows'[k] = rows[k]
        BY <1>2, <2>1
    <2> QED BY <1>2, <2>1, <2>2, <2>3, OtherKeeps
<1> QED BY <1>1, <1>2

(***************************************************************************)
(* The record of an executor after a move.                                 *)
(***************************************************************************)
LEMMA ExecIs ==
    ASSUME WorkflowTypeOK, NEW e \in Executors, NEW y \in Execs, exec' = [exec EXCEPT ![e] = y]
    PROVE  /\ exec' \in [Executors -> Execs] /\ exec'[e] = y
           /\ \A d \in Executors \ {e} : exec'[d] = exec[d]
BY WorkflowFacts

Places == {"idle", "begin", "step", "work", "delete", "settle", "spawn", "join",
           "route", "fail", "output", "complete"} \cup Ended

LEMMA GoIs ==
    ASSUME WorkflowTypeOK, NEW e \in Executors, NEW l \in Places \ Ended, Go(e, l)
    PROVE  /\ exec' \in [Executors -> Execs] /\ exec'[e] \in Execs
           /\ \A d \in Executors \ {e} : exec'[d] = exec[d]
           /\ exec'[e].at = l /\ exec'[e].cur = exec[e].cur /\ exec'[e].index = exec[e].index
           /\ exec'[e].visited = exec[e].visited /\ exec'[e].onChoice = exec[e].onChoice
           /\ exec'[e].attempt = exec[e].attempt /\ exec'[e].row = exec[e].row
           /\ exec'[e].ok = exec[e].ok /\ exec'[e].done = exec[e].done /\ exec'[e].read = exec[e].read
<1> DEFINE y == [exec[e] EXCEPT !.at = l]
<1>1. exec' = [exec EXCEPT ![e] = y]
    BY DEF Go
<1>2. exec[e] \in Execs
    BY WorkflowFacts
<1>3. /\ y \in Execs /\ y.at = l /\ y.cur = exec[e].cur /\ y.index = exec[e].index
      /\ y.visited = exec[e].visited /\ y.onChoice = exec[e].onChoice
      /\ y.attempt = exec[e].attempt /\ y.row = exec[e].row
      /\ y.ok = exec[e].ok /\ y.done = exec[e].done /\ y.read = exec[e].read
    BY <1>2 DEF Execs, Places
<1> HIDE DEF y
<1> QED BY <1>1, <1>3, ExecIs

LEMMA EndIs ==
    ASSUME WorkflowTypeOK, NEW e \in Executors, NEW l \in Ended, Go(e, l)
    PROVE  /\ exec' \in [Executors -> Execs] /\ exec'[e] \in Execs
           /\ \A d \in Executors \ {e} : exec'[d] = exec[d]
           /\ exec'[e].at = l /\ exec'[e].attempt = 1 /\ exec'[e].visited = exec[e].visited
<1> DEFINE y == [NewExec EXCEPT !.at = l, !.visited = exec[e].visited]
<1>1. exec' = [exec EXCEPT ![e] = y]
    BY DEF Go
<1>2. exec[e].visited \in SUBSET Nat
    BY ExecFacts
<1>3. y \in Execs /\ y.at = l /\ y.attempt = 1 /\ y.visited = exec[e].visited
    BY <1>2 DEF Execs, NewExec
<1> HIDE DEF y
<1> QED BY <1>1, <1>3, ExecIs

(***************************************************************************)
(* An executor that is at its end, or about to call the execution failed,  *)
(* has nothing more to keep about its step.                                *)
(***************************************************************************)
LEMMA EndKeepsOwn ==
    ASSUME WorkflowTypeOK, NEW e \in Executors, OwnInv(e), NEW l \in Ended, Go(e, l),
           UNCHANGED <<steps, rows, tasks>>,
           l = "completed" => exec[e].at = "complete"
    PROVE  OwnInv(e)'
<1>1. exec'[e].at = l /\ exec'[e].attempt = 1 /\ exec'[e].visited = exec[e].visited
    BY EndIs
<1>2. InStep(e)'
    BY <1>1 DEF InStep, Working, Ended
<1>3. AttemptsNumbered(e)'
    BY <1>1 DEF OwnInv, AttemptsNumbered, OneByOne, OwnRows, RowsOfStep
<1>4. VisitedCompleted(e)'
    BY <1>1 DEF OwnInv, VisitedCompleted, LastCompleted, OwnRows, RowsOfStep, Ended, Working
<1>5. KidsInTurn(e)'
    BY <1>1 DEF OwnInv, KidsInTurn, TasksOf, Live, OwnRows, RowsOfStep, Ended
<1> QED BY <1>2, <1>3, <1>4, <1>5 DEF OwnInv

LEMMA FailKeepsOwn ==
    ASSUME WorkflowTypeOK, NEW e \in Executors, OwnInv(e), exec[e].at \notin {"join"} \cup Ended,
           Go(e, "fail"), UNCHANGED <<steps, rows, tasks>>
    PROVE  OwnInv(e)'
<1>1. /\ exec'[e].at = "fail" /\ exec'[e].attempt = exec[e].attempt
      /\ exec'[e].visited = exec[e].visited
    BY GoIs DEF Places, Ended
<1>2. InStep(e)'
    BY <1>1 DEF InStep, Working
<1>3. AttemptsNumbered(e)'
    BY <1>1 DEF OwnInv, AttemptsNumbered, OneByOne, OwnRows, RowsOfStep
<1>4. VisitedCompleted(e)'
    BY <1>1 DEF OwnInv, VisitedCompleted, Ended
<1>5. KidsInTurn(e)'
    BY <1>1 DEF OwnInv, KidsInTurn, TasksOf, Live, OwnRows, RowsOfStep, Ended
<1> QED BY <1>2, <1>3, <1>4, <1>5 DEF OwnInv

(***************************************************************************)
(* A move that changes nothing but the place of the executor.              *)
(***************************************************************************)
LEMMA MoveKeepsOwn ==
    ASSUME WorkflowTypeOK, NEW e \in Executors, OwnInv(e), NEW l \in Places \ Ended, Go(e, l),
           UNCHANGED <<steps, rows, tasks>>,
           \/ exec[e].at = "idle" /\ l = "begin" /\ e = Starter
           \/ exec[e].at \in {"idle", "begin"} /\ l \in {"complete", "step"} /\ (l = "step" => Len(steps) # 0)
           \/ exec[e].at = "step" /\ l = "output" /\ exec[e].attempt = 1
           \/ exec[e].at = "output" /\ l = "complete"
           \/ exec[e].at = "delete" /\ l = "settle"
           \/ /\ exec[e].at = "join" /\ \A t \in Live : t.by # e
              /\ l = IF exec[e].ok /\ exec[e].done < Now(e).items THEN "spawn" ELSE "settle"
    PROVE  OwnInv(e)'
<1>1. /\ exec'[e].at = l /\ exec'[e].cur = exec[e].cur /\ exec'[e].visited = exec[e].visited
      /\ exec'[e].attempt = exec[e].attempt /\ exec'[e].row = exec[e].row
      /\ exec'[e].ok = exec[e].ok /\ exec'[e].done = exec[e].done /\ exec'[e].read = exec[e].read
    BY GoIs
<1>2. Len(steps) \in Nat /\ exec[e].done \in Nat /\ exec[e].attempt \in Nat
    BY WorkflowFacts, ExecFacts
<1>3. InStep(e)'
    <2>1. CASE l \in {"begin", "complete", "step", "output"}
        BY <1>1, <1>2, <2>1 DEF OwnInv, InStep, Working, Exists
    <2>2. CASE l = "settle" /\ exec[e].at = "delete"
        BY <1>1, <2>2 DEF OwnInv, InStep, Working, Exists, OwnRows, RowsOfStep, Is, Now
    <2>3. CASE exec[e].at = "join"
        BY <1>1, <2>3 DEF OwnInv, InStep, Working, Exists, OwnRows, RowsOfStep, Is, Now
    <2> QED BY <2>1, <2>2, <2>3
<1>4. AttemptsNumbered(e)'
    BY <1>1, <1>2 DEF OwnInv, AttemptsNumbered, OneByOne, OwnRows, RowsOfStep, Ended
<1>5. VisitedCompleted(e)'
    BY <1>1, <1>2 DEF OwnInv, InStep, AttemptsNumbered, VisitedCompleted, LastCompleted, OwnRows, RowsOfStep, Ended, Working
<1>6. KidsInTurn(e)'
    <2>1. CASE exec[e].at # "join"
        BY <1>1, <2>1 DEF OwnInv, InStep, KidsInTurn, TasksOf, Live, OwnRows, RowsOfStep, Is, Now, Ended
    <2>2. CASE exec[e].at = "join"
        <3>1. Exists(exec[e].cur) /\ Now(e).items \in Nat
            BY <2>2, StepFacts DEF OwnInv, InStep, Working, Exists, Now
        <3>2. ASSUME l = "settle", exec[e].ok
              PROVE  /\ {t.kid : t \in TasksOf(e, exec[e].cur)} = 1..Now(e).items
                     /\ \A t \in TasksOf(e, exec[e].cur) : t.state = "completed"
            <4>1. exec[e].done = Now(e).items
                BY <1>2, <2>2, <3>1, <3>2 DEF OwnInv, KidsInTurn
            <4>2. \A t \in TasksOf(e, exec[e].cur) : t.state = "completed"
                BY <2>2, <3>2 DEF OwnInv, KidsInTurn, TasksOf, Live, WorkflowTypeOK, Tasks
            <4> QED BY <2>2, <4>1, <4>2 DEF OwnInv, KidsInTurn
        <3>3. l = "spawn" => exec[e].ok
            BY <2>2
        <3> QED BY <1>1, <2>2, <3>2, <3>3 DEF OwnInv, KidsInTurn, TasksOf, Live, OwnRows, RowsOfStep, Is, Now, Ended
    <2> QED BY <2>1, <2>2
<1> QED BY <1>3, <1>4, <1>5, <1>6 DEF OwnInv

(***************************************************************************)
(* The row of the step is settled.                                         *)
(***************************************************************************)
LEMMA SettledIs ==
    ASSUME WorkflowTypeOK, NEW k \in 1..Len(rows), NEW n \in Nat, NEW ok \in BOOLEAN,
           rows' = Settled(k, ok) \/ rows' = [Settled(k, ok) EXCEPT ![k].choice = n]
    PROVE  /\ rows' \in Seq(Rows) /\ Len(rows') = Len(rows)
           /\ \A j \in 1..Len(rows) : j # k => rows'[j] = rows[j]
           /\ rows'[k].by = rows[k].by /\ rows'[k].step = rows[k].step /\ rows'[k].attempt = rows[k].attempt
           /\ rows'[k].state = IF ok THEN "completed" ELSE "failed"
<1> DEFINE st == IF ok THEN "completed" ELSE "failed"
           r == [rows[k] EXCEPT !.state = st]
           q == [[rows[k] EXCEPT !.state = st] EXCEPT !.choice = n]
<1>1. rows \in Seq(Rows) /\ rows[k] \in Rows /\ Len(rows) \in Nat
    BY WorkflowFacts
<1>2. PICK p \in {r, q} : rows' = [rows EXCEPT ![k] = p]
    <2>1. Settled(k, ok) = [rows EXCEPT ![k] = r]
        BY DEF Settled
    <2>2. [[rows EXCEPT ![k] = r] EXCEPT ![k].choice = n] = [rows EXCEPT ![k] = q]
        BY <1>1
    <2> HIDE DEF r, q
    <2> QED BY <2>1, <2>2
<1>3. /\ p \in Rows /\ p.by = rows[k].by /\ p.step = rows[k].step /\ p.attempt = rows[k].attempt
      /\ p.state = st
    BY <1>1, <1>2 DEF Rows
<1> HIDE DEF st, r, q
<1>4. rows' \in Seq(Rows) /\ Len(rows') = Len(rows) /\ \A j \in 1..Len(rows) : rows'[j] = IF j = k THEN p ELSE rows[j]
    BY <1>1, <1>2, <1>3
<1> QED BY <1>3, <1>4 DEF st

LEMMA OnwardIs ==
    ASSUME WorkflowTypeOK, NEW x \in Execs, Exists(x.cur)
    PROVE  /\ Onward(x) \in Execs /\ Onward(x).at \in {"step", "output"} /\ Onward(x).attempt = 1
           /\ Onward(x).visited = x.visited /\ (Onward(x).at = "step" => Exists(Onward(x).cur))
<1> DEFINE n == steps[x.cur].next
           y == [x EXCEPT !.attempt = 1]
           z == [y EXCEPT !.at = "output"]
           u == [[[y EXCEPT !.at = "step"] EXCEPT !.cur = n] EXCEPT !.onChoice = FALSE]
           v == [[[y EXCEPT !.at = "step"] EXCEPT !.index = y.index + 1] EXCEPT !.cur = x.index + 1]
<1>1. n \in Nat
    BY StepFacts DEF Exists
<1>2. y \in Execs /\ y.attempt = 1 /\ y.visited = x.visited /\ x.index \in Nat /\ y.index \in Nat
    BY DEF Execs
<1> HIDE DEF y, n
<1>3. /\ z \in Execs /\ z.at = "output" /\ z.attempt = 1 /\ z.visited = x.visited
      /\ u \in Execs /\ u.at = "step" /\ u.attempt = 1 /\ u.visited = x.visited /\ u.cur = n
      /\ v \in Execs /\ v.at = "step" /\ v.attempt = 1 /\ v.visited = x.visited /\ v.cur = x.index + 1
    <2>1. z \in Execs /\ z.at = "output" /\ z.attempt = 1 /\ z.visited = x.visited
        BY <1>2 DEF Execs
    <2>2. u \in Execs /\ u.at = "step" /\ u.attempt = 1 /\ u.visited = x.visited /\ u.cur = n
        BY <1>1, <1>2 DEF Execs
    <2>3. v \in Execs /\ v.at = "step" /\ v.attempt = 1 /\ v.visited = x.visited /\ v.cur = x.index + 1
        <3> DEFINE v1 == [[y EXCEPT !.at = "step"] EXCEPT !.index = y.index + 1]
        <3>1. v1 \in Execs /\ v1.at = "step" /\ v1.attempt = 1 /\ v1.visited = x.visited
            <4> DEFINE w == [y EXCEPT !.at = "step"]
            <4>1. w \in Execs /\ w.at = "step" /\ w.attempt = 1 /\ w.visited = x.visited
                BY <1>2 DEF Execs
            <4>2. PICK m \in Nat : m = y.index + 1
                BY <1>2
            <4>3. v1 = [w EXCEPT !.index = m]
                BY <4>2
            <4> HIDE DEF w, v1
            <4> QED BY <4>1, <4>2, <4>3 DEF Execs
        <3>2. v = [v1 EXCEPT !.cur = x.index + 1]
            OBVIOUS
        <3> HIDE DEF v1, v
        <3> QED BY <1>2, <3>1, <3>2 DEF Execs
    <2> QED BY <2>1, <2>2, <2>3
<1>4. \/ Onward(x) = z
      \/ Onward(x) = u /\ Exists(n)
      \/ Onward(x) = v /\ Exists(x.index + 1)
    BY DEF Onward, y, n
<1> HIDE DEF z, u, v
<1> QED BY <1>3, <1>4

LEMMA SettleKeepsOwn ==
    ASSUME WorkflowTypeOK, NEW e \in Executors, OwnInv(e), UNCHANGED <<steps, tasks>>,
           exec[e].at \in {"work", "settle", "spawn"}, NEW n \in Nat, NEW ok \in BOOLEAN,
           rows' = Settled(exec[e].row, ok) \/ rows' = [Settled(exec[e].row, ok) EXCEPT ![exec[e].row].choice = n],
           exec'[e].visited = exec[e].visited,
           ok /\ Is(e, {"parallel", "map"}) =>
              /\ {t.kid : t \in TasksOf(e, exec[e].cur)} = 1..Now(e).items
              /\ \A t \in TasksOf(e, exec[e].cur) : t.state = "completed",
           \/ /\ ok /\ exec'[e].at \in {"step", "output"} /\ exec'[e].attempt = 1
              /\ exec'[e].at = "step" => Exists(exec'[e].cur)
           \/ /\ ok /\ exec'[e].at = "route" /\ exec'[e].attempt = exec[e].attempt
              /\ exec'[e].cur = exec[e].cur /\ exec'[e].row = exec[e].row /\ ~Is(e, {"task"})
           \/ /\ ~ok /\ exec'[e].at = "step" /\ exec'[e].attempt = exec[e].attempt + 1
              /\ exec'[e].cur = exec[e].cur /\ Is(e, {"task"}) /\ exec[e].attempt < Now(e).max_attempts
           \/ ~ok /\ exec'[e].at = "fail" /\ exec'[e].attempt = exec[e].attempt
    PROVE  OwnInv(e)'
<1>0. PICK k \in Nat, c \in Nat : k = exec[e].row /\ c = exec[e].cur
    BY ExecFacts
<1>1. /\ k \in OwnRows(e, c) /\ \A j \in OwnRows(e, c) : j <= k
      /\ rows[k].attempt = exec[e].attempt /\ Exists(c)
    BY <1>0 DEF OwnInv, InStep, Working
<1>2. k \in 1..Len(rows) /\ rows[k].by = e /\ rows[k].step = c /\ Len(rows) \in Nat /\ c \in 1..Len(steps)
    BY <1>1, WorkflowFacts DEF OwnRows, RowsOfStep, Exists
<1>3. /\ Len(rows') = Len(rows) /\ \A j \in 1..Len(rows) : j # k => rows'[j] = rows[j]
      /\ rows'[k].by = e /\ rows'[k].step = c /\ rows'[k].attempt = exec[e].attempt
      /\ rows'[k].state = IF ok THEN "completed" ELSE "failed"
    BY <1>0, <1>1, <1>2, SettledIs
<1>4. /\ \A s : {j \in {i \in 1..Len(rows') : rows'[i].step = s} : rows'[j].by = e} = OwnRows(e, s)
      /\ \A j \in 1..Len(rows) : rows'[j].attempt = rows[j].attempt /\ rows'[j].step = rows[j].step /\ rows'[j].by = rows[j].by
      /\ \A j \in 1..Len(rows) : rows[j].step # c => rows'[j] = rows[j]
    <2>1. \A j \in 1..Len(rows) : rows'[j].attempt = rows[j].attempt /\ rows'[j].step = rows[j].step /\ rows'[j].by = rows[j].by
        BY <1>1, <1>2, <1>3
    <2>2. \A j \in 1..Len(rows) : rows[j].step # c => rows'[j] = rows[j]
        BY <1>2, <1>3
    <2>3. \A s : {j \in {i \in 1..Len(rows') : rows'[i].step = s} : rows'[j].by = e} = OwnRows(e, s)
        BY <1>3, <2>1 DEF OwnRows, RowsOfStep
    <2> QED BY <2>1, <2>2, <2>3
<1>5. exec[e].attempt \in Nat /\ \A j \in 1..Len(rows) : rows[j].attempt \in Nat
    BY WorkflowFacts, ExecFacts DEF Rows
<1>6. exec'[e].at \in {"step", "output", "route", "fail"}
    OBVIOUS
<1>7. InStep(e)'
    <2>1. CASE exec'[e].at = "route"
        <3>1. exec'[e].cur = c /\ exec'[e].row = k
            BY <1>0, <2>1
        <3>2. k \in OwnRows(e, c)' /\ \A j \in OwnRows(e, c)' : j <= k
            BY <1>1, <1>4 DEF OwnRows, RowsOfStep
        <3> QED BY <1>1, <2>1, <3>1, <3>2 DEF InStep, Working, Exists
    <2>2. CASE exec'[e].at = "step"
        BY <1>0, <1>1, <2>2 DEF InStep, Working, Exists
    <2>3. CASE exec'[e].at \in {"output", "fail"}
        BY <2>3 DEF InStep, Working
    <2> QED BY <1>6, <2>1, <2>2, <2>3
<1>8. \A s \in DOMAIN steps : steps[s].type = "task" =>
         OneByOne(e, s)' /\ \A j \in OwnRows(e, s)' : rows'[j].attempt \in 1..steps[s].max_attempts
    <2> SUFFICES ASSUME NEW s \in DOMAIN steps, steps[s].type = "task"
                 PROVE  OneByOne(e, s)' /\ \A j \in OwnRows(e, s)' : rows'[j].attempt \in 1..steps[s].max_attempts
        OBVIOUS
    <2>1. OneByOne(e, s) /\ \A j \in OwnRows(e, s) : rows[j].attempt \in 1..steps[s].max_attempts
        BY DEF OwnInv, AttemptsNumbered
    <2>2. \A j \in OwnRows(e, s) : j \in 1..Len(rows) /\ (j = k \/ rows'[j] = rows[j]) /\ (s = c => j <= k)
        BY <1>1, <1>2, <1>3 DEF OwnRows, RowsOfStep
    <2>3. OneByOne(e, s)'
        <3>1. \A i, j \in OwnRows(e, s) : i < j => rows'[i].state = "failed" /\ rows'[i].attempt < rows'[j].attempt
            <4>1. SUFFICES ASSUME NEW i \in OwnRows(e, s), NEW j \in OwnRows(e, s), i < j
                           PROVE  rows'[i].state = "failed" /\ rows'[i].attempt < rows'[j].attempt
                OBVIOUS
            <4>2. rows[i].state = "failed" /\ rows[i].attempt < rows[j].attempt
                BY <2>1, <4>1 DEF OneByOne
            <4>3. i # k
                <5>1. CASE s = c
                    BY <1>2, <2>2, <4>1, <5>1
                <5>2. CASE s # c
                    BY <1>2, <5>2 DEF OwnRows, RowsOfStep
                <5> QED BY <5>1, <5>2
            <4> QED BY <1>4, <2>2, <4>2, <4>3
        <3> QED BY <1>4, <3>1 DEF OneByOne, OwnRows, RowsOfStep
    <2> QED BY <1>4, <2>1, <2>2, <2>3 DEF OwnRows, RowsOfStep
<1>9. AttemptsNumbered(e)'
    <2>1. AttemptsNumbered(e)
        BY DEF OwnInv
    <2>2. exec'[e].attempt >= 1
        BY <1>5, <2>1 DEF AttemptsNumbered
    <2>3. exec'[e].attempt > 1 /\ exec'[e].at \notin {"fail"} \cup Ended =>
            /\ exec'[e].cur = c /\ ~ok /\ Is(e, {"task"}) /\ exec'[e].attempt = exec[e].attempt + 1
            /\ exec'[e].attempt <= Now(e).max_attempts /\ exec'[e].at = "step"
        <3>1. Now(e).max_attempts \in Nat
            BY <1>0, <1>2, StepFacts DEF Now
        <3>2. exec'[e].at = "route" => exec[e].attempt <= 1
            BY <1>5, <2>1 DEF AttemptsNumbered, Ended
        <3> QED BY <1>0, <1>5, <3>1, <3>2
    <2>4. ~ok /\ Is(e, {"task"}) => \A j \in OwnRows(e, c) :
              rows'[j].state = "failed" /\ rows'[j].attempt < exec[e].attempt + 1
        <3> SUFFICES ASSUME ~ok, Is(e, {"task"}), NEW j \in OwnRows(e, c)
                     PROVE  rows'[j].state = "failed" /\ rows'[j].attempt < exec[e].attempt + 1
            OBVIOUS
        <3>1. OneByOne(e, c) /\ j <= k /\ j \in 1..Len(rows)
            BY <1>0, <1>1, <1>2, <2>1, WorkflowFacts DEF AttemptsNumbered, Is, Now, OwnRows, RowsOfStep
        <3>2. CASE j = k
            BY <1>3, <1>5, <3>2
        <3>3. CASE j # k
            <4>1. j < k
                BY <1>2, <3>1, <3>3
            <4>2. rows[j].state = "failed" /\ rows[j].attempt < rows[k].attempt
                BY <1>1, <3>1, <4>1 DEF OneByOne
            <4> QED BY <1>1, <1>2, <1>3, <1>5, <3>1, <3>3, <4>2
        <3> QED BY <3>2, <3>3
    <2>5. exec'[e].attempt > 1 /\ exec'[e].at \notin {"fail"} \cup Ended =>
            /\ Exists(exec[e].cur)' /\ Is(e, {"task"})' /\ exec'[e].attempt <= (Now(e).max_attempts)'
            /\ exec'[e].at \in {"step", "work"}
        BY <1>0, <1>1, <2>3 DEF Exists, Is, Now
    <2>6. exec'[e].attempt > 1 /\ exec'[e].at = "step" =>
            \A j \in OwnRows(e, c)' : rows'[j].state = "failed" /\ rows'[j].attempt < exec'[e].attempt
        BY <1>4, <2>3, <2>4 DEF OwnRows, RowsOfStep, Ended
    <2>7. exec'[e].attempt > 1 /\ exec'[e].at = "step" =>
            \A j \in OwnRows(e, exec[e].cur)' : rows'[j].state = "failed" /\ rows'[j].attempt < exec'[e].attempt
        BY <2>3, <2>6 DEF Ended
    <2> QED BY <1>8, <2>2, <2>5, <2>7 DEF AttemptsNumbered
<1>10. VisitedCompleted(e)'
    <2>1. VisitedCompleted(e)
        BY DEF OwnInv
    <2>2. ok => LastCompleted(e, c)'
        BY <1>1, <1>2, <1>3, <1>4 DEF LastCompleted, OwnRows, RowsOfStep
    <2>3. \A s : s # c /\ LastCompleted(e, s) => LastCompleted(e, s)'
        BY <1>4 DEF LastCompleted, OwnRows, RowsOfStep
    <2>4. \A s \in exec[e].visited : s = c \/ LastCompleted(e, s)
        BY <1>0, <2>1 DEF VisitedCompleted
    <2>5. exec'[e].at = "step" /\ ~ok => exec'[e].attempt > 1 /\ exec'[e].cur = c
        BY <1>0, <1>5, <2>1 DEF OwnInv, AttemptsNumbered
    <2> QED BY <1>0, <1>3, <1>4, <1>6, <2>1, <2>2, <2>3, <2>4, <2>5, SMTT(30) DEF VisitedCompleted, LastCompleted, OwnRows, RowsOfStep
<1>11. KidsInTurn(e)'
    <2>1. KidsInTurn(e) /\ \A t \in Live : t.by # e
        BY DEF OwnInv, KidsInTurn, Ended
    <2>2. TasksOf(e, c) \cap Live = {}
        BY <2>1 DEF TasksOf
    <2>3. ASSUME NEW s \in DOMAIN steps, steps[s].type \in {"parallel", "map"}, NEW j \in OwnRows(e, s)'
          PROVE  /\ rows'[j].state # "running" => TasksOf(e, s) \cap Live = {}
                 /\ rows'[j].state = "completed" =>
                      /\ {t.kid : t \in TasksOf(e, s)} = 1..steps[s].items
                      /\ \A t \in TasksOf(e, s) : t.state = "completed"
        <3>1. j \in OwnRows(e, s)
            BY <1>4, <2>3 DEF OwnRows, RowsOfStep
        <3>2. TasksOf(e, s) \cap Live = {}
            BY <2>1 DEF TasksOf
        <3>3. CASE j = k
            <4>1. s = c
                BY <1>2, <3>1, <3>3 DEF OwnRows, RowsOfStep
            <4> QED BY <1>0, <1>3, <2>3, <3>2, <3>3, <4>1 DEF Is, Now
        <3>4. CASE j # k
            <4>1. rows'[j] = rows[j]
                BY <1>3, <3>1, <3>4 DEF OwnRows, RowsOfStep
            <4> QED BY <2>1, <2>3, <3>1, <3>2, <4>1 DEF KidsInTurn
        <3> QED BY <3>3, <3>4
    <2> QED BY <1>6, <2>1, <2>3 DEF KidsInTurn, TasksOf, Live
<1> QED BY <1>7, <1>9, <1>10, <1>11 DEF OwnInv

(***************************************************************************)
(* create_step_execution: a new row, the newest one, for a step that was   *)
(* not visited or whose attempts have failed.                              *)
(***************************************************************************)
LEMMA NewRowIs ==
    ASSUME WorkflowTypeOK, NEW e \in Executors, rows' = NewRow(e)
    PROVE  /\ rows' \in Seq(Rows) /\ Len(rows') = Len(rows) + 1
           /\ \A j \in 1..Len(rows) : rows'[j] = rows[j]
           /\ rows'[Len(rows) + 1] = [step |-> exec[e].cur, by |-> e, attempt |-> exec[e].attempt,
                                      choice |-> 0, state |-> "running"]
<1> DEFINE r == [step |-> exec[e].cur, by |-> e, attempt |-> exec[e].attempt,
                 choice |-> 0, state |-> "running"]
<1>1. r \in Rows
    BY ExecFacts DEF Rows
<1>2. rows' = Append(rows, r)
    BY DEF NewRow
<1> HIDE DEF r
<1>3. /\ rows' \in Seq(Rows) /\ Len(rows') = Len(rows) + 1
      /\ \A j \in 1..Len(rows) : rows'[j] = rows[j]
      /\ rows'[Len(rows) + 1] = r
    BY <1>1, <1>2, WorkflowFacts, AppendProperties
<1> QED BY <1>3 DEF r

(***************************************************************************)
(* What is to be shown of the tasks of an executor outside the two places  *)
(* that spawn and join them and the one that settles their step.           *)
(***************************************************************************)
LEMMA KidsShow ==
    ASSUME NEW e \in Executors, KidsInTurn(e), UNCHANGED <<steps, tasks>>, \A t \in Live : t.by # e,
           exec'[e].at \notin {"join", "settle"},
           exec'[e].at = "spawn" => /\ exec'[e].done <= (Now(e).items)' /\ exec'[e].ok
                                    /\ ({t.kid : t \in TasksOf(e, exec[e].cur)})' = 1..exec'[e].done
                                    /\ \A t \in TasksOf(e, exec[e].cur)' : t.state \notin {"failed", "lost"},
           \A s \in DOMAIN steps : steps[s].type \in {"parallel", "map"} =>
             \A j \in OwnRows(e, s)' :
                 /\ rows'[j].state # "running" => TasksOf(e, s) \cap Live = {}
                 /\ rows'[j].state = "completed" =>
                      /\ {t.kid : t \in TasksOf(e, s)} = 1..steps[s].items
                      /\ \A t \in TasksOf(e, s) : t.state = "completed"
    PROVE  KidsInTurn(e)'
<1>1. Live' = Live /\ \A s : TasksOf(e, s)' = TasksOf(e, s)
    BY DEF TasksOf, Live
<1>2. \A s \in DOMAIN steps' : steps'[s].type \in {"parallel", "map"} =>
         \A j \in OwnRows(e, s)' :
           /\ rows'[j].state # "running" => (TasksOf(e, s) \cap Live = {})'
           /\ rows'[j].state = "completed" =>
                /\ ({t.kid : t \in TasksOf(e, s)} = 1..steps[s].items)'
                /\ (\A t \in TasksOf(e, s) : t.state = "completed")'
    BY <1>1
<1>3. \A s \in DOMAIN steps' : steps'[s].type = "map" =>
         (\E n \in 0..steps[s].items : \A t \in TasksOf(e, s) \cap Live :
           t.kid \in (n + 1)..(n + steps[s].max_concurrency))'
    BY <1>1 DEF KidsInTurn
<1>4. (\A t, u \in tasks : t.by = e /\ u.by = e /\ t.step = u.step /\ t.kid = u.kid => t = u)'
    BY DEF KidsInTurn
<1>5. (\A t \in Live : t.by # e)'
    BY <1>1
<1> QED BY <1>2, <1>3, <1>4, <1>5 DEF KidsInTurn

LEMMA EnterKeepsOwn ==
    ASSUME WorkflowTypeOK, NEW e \in Executors, OwnInv(e), UNCHANGED <<steps, tasks>>,
           exec[e].at = "step", ~(exec[e].cur \in exec[e].visited /\ exec[e].attempt = 1),
           ~(Is(e, {"task"}) /\ Now(e).max_attempts = 0), rows' = NewRow(e),
           exec'[e].at = IF Is(e, {"parallel", "map"}) THEN "spawn" ELSE "work",
           exec'[e].cur = exec[e].cur, exec'[e].visited = exec[e].visited \cup {exec[e].cur},
           exec'[e].attempt = exec[e].attempt, exec'[e].row = Len(rows) + 1,
           exec'[e].ok = TRUE, exec'[e].done = 0
    PROVE  OwnInv(e)'
<1>0. PICK k \in Nat, c \in Nat : k = Len(rows) + 1 /\ c = exec[e].cur
    BY ExecFacts, WorkflowFacts
<1>1. /\ Len(rows) \in Nat /\ Exists(c) /\ c \in 1..Len(steps) /\ exec[e].attempt \in Nat
      /\ exec[e].attempt >= 1 /\ steps[c].max_attempts \in Nat
    BY <1>0, WorkflowFacts, ExecFacts, StepFacts DEF OwnInv, InStep, AttemptsNumbered, Working, Exists
<1>2. /\ Len(rows') = k /\ \A j \in 1..Len(rows) : rows'[j] = rows[j]
      /\ rows'[k].step = c /\ rows'[k].by = e /\ rows'[k].attempt = exec[e].attempt /\ rows'[k].state = "running"
    <2>1. /\ Len(rows') = k /\ \A j \in 1..Len(rows) : rows'[j] = rows[j]
          /\ rows'[k] = [step |-> exec[e].cur, by |-> e, attempt |-> exec[e].attempt,
                         choice |-> 0, state |-> "running"]
        BY <1>0, NewRowIs
    <2> QED BY <1>0, <2>1
<1>3. /\ \A s : s # c => OwnRows(e, s)' = OwnRows(e, s)
      /\ OwnRows(e, c)' = OwnRows(e, c) \cup {k}
      /\ \A s : \A j \in OwnRows(e, s) : j \in 1..Len(rows) /\ j < k /\ rows'[j] = rows[j]
    BY <1>0, <1>1, <1>2 DEF OwnRows, RowsOfStep
<1>4. /\ exec[e].attempt > 1 \/ c \notin exec[e].visited
      /\ exec[e].attempt > 1 => /\ steps[c].type = "task" /\ exec[e].attempt <= steps[c].max_attempts
                                /\ \A j \in OwnRows(e, c) : rows[j].state = "failed" /\ rows[j].attempt < exec[e].attempt
    BY <1>0, <1>1 DEF OwnInv, AttemptsNumbered, Is, Now, Ended
<1>5. c \notin exec[e].visited => OwnRows(e, c) = {} /\ TasksOf(e, c) = {}
    BY DEF OwnInv, VisitedCompleted, OwnRows, RowsOfStep, TasksOf
<1>6. InStep(e)'
    <2>1. k \in OwnRows(e, c)' /\ \A j \in OwnRows(e, c)' : j <= k
        BY <1>0, <1>3
    <2>2. exec'[e].row = k /\ exec'[e].cur = c
        BY <1>0
    <2>3. exec'[e].at = IF steps[c].type \in {"parallel", "map"} THEN "spawn" ELSE "work"
        BY <1>0 DEF Is, Now
    <2>4. exec'[e].at = "spawn" => OwnRows(e, c)' = {k}
        BY <1>3, <1>4, <1>5, <2>3
    <2> QED BY <1>1, <1>2, <2>1, <2>2, <2>3, <2>4 DEF InStep, Working, Exists, Is, Now
<1>7. AttemptsNumbered(e)'
    <2>1. exec'[e].attempt > 1 => Exists(exec[e].cur)' /\ Is(e, {"task"})'
                                  /\ exec'[e].attempt <= (Now(e).max_attempts)' /\ exec'[e].at \in {"step", "work"}
        BY <1>0, <1>1, <1>4 DEF Exists, Is, Now
    <2>2. ASSUME NEW s \in DOMAIN steps, steps[s].type = "task"
          PROVE  OneByOne(e, s)' /\ \A j \in OwnRows(e, s)' : rows'[j].attempt \in 1..steps[s].max_attempts
        <3>1. OneByOne(e, s) /\ \A j \in OwnRows(e, s) : rows[j].attempt \in 1..steps[s].max_attempts
            BY <2>2 DEF OwnInv, AttemptsNumbered
        <3>2. CASE s # c
            BY <1>3, <3>1, <3>2 DEF OneByOne
        <3>3. CASE s = c
            <4>1. \A j \in OwnRows(e, c) : rows[j].state = "failed" /\ rows[j].attempt < exec[e].attempt
                BY <1>4, <1>5
            <4>2. exec[e].attempt \in 1..steps[c].max_attempts
                BY <1>0, <1>1, <1>4, <2>2, <3>3 DEF Is, Now
            <4>3. \A i, j \in OwnRows(e, c) \cup {k} : i < j => rows'[i].state = "failed" /\ rows'[i].attempt < rows'[j].attempt
                <5> SUFFICES ASSUME NEW i \in OwnRows(e, c) \cup {k}, NEW j \in OwnRows(e, c) \cup {k}, i < j
                             PROVE  rows'[i].state = "failed" /\ rows'[i].attempt < rows'[j].attempt
                    OBVIOUS
                <5>1. i \in OwnRows(e, c)
                    BY <1>0, <1>1, <1>3
                <5>2. CASE j = k
                    <6>1. rows'[i] = rows[i]
                        BY <1>3, <5>1
                    <6>2. rows[i].state = "failed" /\ rows[i].attempt < exec[e].attempt
                        BY <4>1, <5>1
                    <6> QED BY <1>2, <5>2, <6>1, <6>2
                <5>3. CASE j # k
                    BY <1>3, <3>1, <3>3, <5>1, <5>3 DEF OneByOne
                <5> QED BY <5>2, <5>3
            <4>4. OneByOne(e, c)'
                BY <1>3, <4>3 DEF OneByOne
            <4> QED BY <1>2, <1>3, <3>1, <3>3, <4>2, <4>4
        <3> QED BY <3>2, <3>3
    <2>3. exec'[e].at # "step"
        OBVIOUS
    <2> QED BY <1>1, <2>1, <2>2, <2>3 DEF AttemptsNumbered
<1>8. VisitedCompleted(e)'
    <2>1. VisitedCompleted(e)
        BY DEF OwnInv
    <2>2. \A j \in 1..Len(rows') : rows'[j].by = e => rows'[j].step \in exec'[e].visited
        BY <1>0, <1>1, <1>2, <2>1 DEF VisitedCompleted
    <2>3. \A s \in exec[e].visited : s # c => LastCompleted(e, s)
        BY <1>0, <2>1 DEF VisitedCompleted
    <2>4. \A s \in exec'[e].visited : s # c => LastCompleted(e, s)'
        BY <1>0, <1>3, <2>3 DEF LastCompleted
    <2>5. exec'[e].at \in Working /\ exec'[e].cur = c
        BY <1>0 DEF Working
    <2> QED BY <2>1, <2>2, <2>4, <2>5 DEF VisitedCompleted
<1>9. KidsInTurn(e)'
    <2>1. KidsInTurn(e) /\ \A t \in Live : t.by # e
        BY DEF OwnInv, KidsInTurn, Ended
    <2>2. exec'[e].at = "spawn" => TasksOf(e, c) = {} /\ {t.kid : t \in TasksOf(e, c)} = 1..0
        BY <1>0, <1>4, <1>5 DEF Is, Now
    <2>3. TasksOf(e, exec[e].cur)' = TasksOf(e, c) /\ Live' = Live /\ \A s : TasksOf(e, s)' = TasksOf(e, s)
        BY <1>0 DEF TasksOf, Live
    <2>4. Now(e)' = steps[c] /\ steps[c].items \in Nat
        BY <1>0, <1>1, StepFacts DEF Now
    <2>5. ASSUME NEW s \in DOMAIN steps, steps[s].type \in {"parallel", "map"}, NEW j \in OwnRows(e, s)'
          PROVE  /\ rows'[j].state # "running" => TasksOf(e, s) \cap Live = {}
                 /\ rows'[j].state = "completed" =>
                      /\ {t.kid : t \in TasksOf(e, s)} = 1..steps[s].items
                      /\ \A t \in TasksOf(e, s) : t.state = "completed"
        <3>1. CASE j = k
            BY <1>2, <3>1
        <3>2. CASE j # k
            <4>1. j \in OwnRows(e, s) /\ rows'[j] = rows[j]
                BY <1>3, <2>5, <3>2
            <4> QED BY <2>1, <2>5, <4>1 DEF KidsInTurn
        <3> QED BY <3>1, <3>2
    <2>6. exec'[e].at \in {"spawn", "work"}
        OBVIOUS
    <2>7. exec'[e].at = "spawn" => /\ exec'[e].done <= (Now(e).items)' /\ exec'[e].ok
                                   /\ ({t.kid : t \in TasksOf(e, exec[e].cur)})' = 1..exec'[e].done
                                   /\ \A t \in TasksOf(e, exec[e].cur)' : t.state \notin {"failed", "lost"}
        BY <2>2, <2>3, <2>4
    <2> QED BY <2>1, <2>3, <2>5, <2>6, <2>7, KidsShow
<1> QED BY <1>6, <1>7, <1>8, <1>9 DEF OwnInv

(***************************************************************************)
(* An executor that waits for a signal reads one, or gives up.             *)
(***************************************************************************)
LEMMA SignalKeepsOwn ==
    ASSUME WorkflowTypeOK, NEW e \in Executors, OwnInv(e), UNCHANGED <<steps, rows, tasks>>,
           exec[e].at = "work", Is(e, {"signal"}), exec'[e].at \in {"delete", "settle"},
           exec'[e].cur = exec[e].cur, exec'[e].visited = exec[e].visited,
           exec'[e].attempt = exec[e].attempt, exec'[e].row = exec[e].row,
           exec'[e].at = "delete" => exec'[e].read \in Signal
    PROVE  OwnInv(e)'
<1>1. InStep(e)'
    BY DEF OwnInv, InStep, Working, Exists, OwnRows, RowsOfStep, Is, Now
<1>2. AttemptsNumbered(e)'
    BY DEF OwnInv, AttemptsNumbered, OneByOne, OwnRows, RowsOfStep, Is, Now, Ended
<1>3. VisitedCompleted(e)'
    BY DEF OwnInv, VisitedCompleted, LastCompleted, OwnRows, RowsOfStep, Working
<1>4. KidsInTurn(e)'
    BY DEF OwnInv, KidsInTurn, TasksOf, Live, OwnRows, RowsOfStep, Is, Now, Ended
<1> QED BY <1>1, <1>2, <1>3, <1>4 DEF OwnInv

(***************************************************************************)
(* A choice was read: the loop goes on at its step, or ends.               *)
(***************************************************************************)
LEMMA RouteKeepsOwn ==
    ASSUME WorkflowTypeOK, NEW e \in Executors, OwnInv(e), UNCHANGED <<steps, rows, tasks>>,
           exec[e].at = "route", exec'[e].at \in {"step", "output"},
           exec'[e].at = "step" => Exists(exec'[e].cur),
           exec'[e].visited = exec[e].visited, exec'[e].attempt = exec[e].attempt
    PROVE  OwnInv(e)'
<1>1. InStep(e)'
    BY DEF InStep, Working, Exists
<1>2. exec[e].attempt \in Nat /\ ~(exec[e].attempt > 1)
    BY ExecFacts DEF OwnInv, AttemptsNumbered, Ended
<1>3. AttemptsNumbered(e)'
    BY <1>2 DEF OwnInv, AttemptsNumbered, OneByOne, OwnRows, RowsOfStep
<1>4. VisitedCompleted(e)'
    BY DEF OwnInv, VisitedCompleted, LastCompleted, OwnRows, RowsOfStep, Working
<1>5. KidsInTurn(e)'
    BY DEF OwnInv, KidsInTurn, TasksOf, Live, OwnRows, RowsOfStep, Ended
<1> QED BY <1>1, <1>3, <1>4, <1>5 DEF OwnInv

(***************************************************************************)
(* The next batch is numbered after the ones before, and is no larger than *)
(* a map allows.                                                           *)
(***************************************************************************)
LEMMA SpawnKeepsOwn ==
    ASSUME WorkflowTypeOK, NEW e \in Executors, OwnInv(e), UNCHANGED <<steps, rows>>,
           exec[e].at = "spawn", NEW last \in Nat, exec[e].done <= last, last <= Now(e).items,
           Is(e, {"map"}) => last <= exec[e].done + Now(e).max_concurrency,
           tasks' = Spawned(e, (exec[e].done + 1)..last),
           exec'[e].at \in {"join", "fail"}, exec'[e].at = "join" => exec'[e].done = last,
           exec'[e].cur = exec[e].cur, exec'[e].visited = exec[e].visited,
           exec'[e].attempt = exec[e].attempt, exec'[e].row = exec[e].row, exec'[e].ok = exec[e].ok
    PROVE  OwnInv(e)' /\ tasks' \subseteq Tasks /\ \A t \in tasks' : t.by # e => t \in tasks
<1>0. PICK c \in Nat, d \in Nat : c = exec[e].cur /\ d = exec[e].done
    BY ExecFacts
<1> DEFINE T(k) == [by |-> e, step |-> c, kid |-> k, state |-> "spawned"]
<1>1. /\ Exists(c) /\ c \in 1..Len(steps) /\ steps[c].items \in Nat /\ steps[c].max_concurrency \in Nat
      /\ Now(e) = steps[c] /\ steps[c].type \in {"parallel", "map"}
    BY <1>0, StepFacts DEF OwnInv, InStep, Working, Exists, Now, Is
<1>2. /\ KidsInTurn(e) /\ \A t \in Live : t.by # e
      /\ {t.kid : t \in TasksOf(e, c)} = 1..d /\ exec[e].ok
      /\ \A t \in TasksOf(e, c) : t.state \notin {"failed", "lost"}
    BY <1>0 DEF OwnInv, KidsInTurn, Ended
<1>3. tasks' = tasks \cup {T(k) : k \in (d + 1)..last}
    BY <1>0 DEF Spawned
<1>4. \A k \in (d + 1)..last : /\ T(k) \in Tasks /\ T(k).by = e /\ T(k).step = c /\ T(k).kid = k
                               /\ T(k).state = "spawned"
    BY <1>0 DEF Tasks
<1>5. \A t \in tasks' : t \in tasks \/ \E k \in (d + 1)..last : t = T(k)
    BY <1>3
<1>6. tasks' \subseteq Tasks /\ \A t \in tasks' : t.by # e => t \in tasks
    BY <1>4, <1>5 DEF WorkflowTypeOK
<1>7. \A t \in tasks' : t \in tasks \/ (t.by = e /\ t.step = c /\ t.kid \in (d + 1)..last /\ t.state = "spawned")
    BY <1>4, <1>5
<1>8. \A t \in tasks' : t.by = e /\ t.step # c => t \in tasks
    BY <1>7
<1>9. \A t \in tasks' : t.by = e /\ t.step = c /\ t \in tasks => t.kid \in 1..d
    BY <1>2 DEF TasksOf
<1>10. \A t \in tasks' : t.by = e /\ t.state \in {"spawned", "running"} => t.step = c /\ t.kid \in (d + 1)..last
    BY <1>2, <1>7 DEF Live
<1>11. {t.kid : t \in {u \in tasks' : u.by = e /\ u.step = c}} = 1..last
    <2>1. \A t \in tasks' : t.by = e /\ t.step = c => t.kid \in 1..last
        BY <1>0, <1>7, <1>9
    <2>2. \A k \in 1..last : \E t \in tasks' : t.by = e /\ t.step = c /\ t.kid = k
        <3> SUFFICES ASSUME NEW k \in 1..last PROVE \E t \in tasks' : t.by = e /\ t.step = c /\ t.kid = k
            OBVIOUS
        <3>1. CASE k \in 1..d
            BY <1>2, <1>3, <3>1 DEF TasksOf
        <3>2. CASE k \in (d + 1)..last
            BY <1>3, <1>4, <3>2
        <3> QED BY <1>0, <3>1, <3>2
    <2> QED BY <2>1, <2>2
<1>12. \A t, u \in tasks' : t.by = e /\ u.by = e /\ t.step = u.step /\ t.kid = u.kid => t = u
    <2> SUFFICES ASSUME NEW t \in tasks', NEW u \in tasks', t.by = e, u.by = e, t.step = u.step, t.kid = u.kid
                 PROVE  t = u
        OBVIOUS
    <2>1. CASE t \in tasks /\ u \in tasks
        BY <1>2, <2>1 DEF KidsInTurn
    <2>2. CASE t \notin tasks /\ u \notin tasks
        BY <1>4, <1>5, <2>2
    <2>3. CASE t \in tasks /\ u \notin tasks
        BY <1>7, <1>9, <2>3
    <2>4. CASE t \notin tasks /\ u \in tasks
        BY <1>7, <1>9, <2>4
    <2> QED BY <2>1, <2>2, <2>3, <2>4
<1>13. \A s : s # c => {t \in tasks' : t.by = e /\ t.step = s} = TasksOf(e, s)
    BY <1>3, <1>8 DEF TasksOf
<1>14. InStep(e)'
    BY DEF OwnInv, InStep, Working, Exists, OwnRows, RowsOfStep, Is, Now
<1>15. AttemptsNumbered(e)'
    BY DEF OwnInv, AttemptsNumbered, OneByOne, OwnRows, RowsOfStep, Ended
<1>16. VisitedCompleted(e)'
    <2>1. c \in exec[e].visited
        BY <1>0 DEF OwnInv, InStep, VisitedCompleted, Working, OwnRows, RowsOfStep
    <2>2. \A t \in tasks' : t.by = e => t.step \in exec[e].visited
        BY <1>7, <2>1 DEF OwnInv, VisitedCompleted
    <2> QED BY <2>2 DEF OwnInv, VisitedCompleted, LastCompleted, OwnRows, RowsOfStep, Working
<1>17. KidsInTurn(e)'
    <2>1. /\ exec'[e].cur = c /\ Now(e)' = steps[c] /\ last <= steps[c].items
          /\ exec'[e].at = "join" => exec'[e].done = last
        BY <1>0, <1>1 DEF Now
    <2>2. exec'[e].at = "join" => ({t.kid : t \in TasksOf(e, exec[e].cur)})' = 1..exec'[e].done
        BY <1>11, <2>1 DEF TasksOf
    <2>3. (\A t \in TasksOf(e, exec[e].cur) : t.state \notin {"failed", "lost"})'
        BY <1>2, <1>7, <2>1 DEF TasksOf
    <2>4. (\A t \in Live : t.by = e => t.step = exec[e].cur)'
        BY <1>10, <2>1 DEF Live
    <2>5. \A s \in DOMAIN steps : steps[s].type = "map" =>
            (\E n \in 0..steps[s].items : \A t \in TasksOf(e, s) \cap Live :
              t.kid \in (n + 1)..(n + steps[s].max_concurrency))'
        <3> SUFFICES ASSUME NEW s \in DOMAIN steps, steps[s].type = "map"
                     PROVE  (\E n \in 0..steps[s].items : \A t \in TasksOf(e, s) \cap Live :
                              t.kid \in (n + 1)..(n + steps[s].max_concurrency))'
            OBVIOUS
        <3>1. CASE s = c
            <4>1. d \in 0..steps[c].items /\ last <= d + steps[c].max_concurrency
                BY <1>0, <1>1, <3>1 DEF Is
            <4>2. \A t \in tasks' : t.by = e /\ t.state \in {"spawned", "running"} => t.kid \in (d + 1)..(d + steps[c].max_concurrency)
                BY <1>0, <1>1, <1>10, <4>1
            <4> QED BY <3>1, <4>1, <4>2 DEF TasksOf, Live
        <3>2. CASE s # c
            <4>1. (TasksOf(e, s) \cap Live)' = {}
                BY <1>10, <3>2 DEF TasksOf, Live
            <4>2. steps[s].items \in Nat /\ 0 \in 0..steps[s].items
                BY StepFacts, WorkflowFacts
            <4> QED BY <4>1, <4>2
        <3> QED BY <3>1, <3>2
    <2>6. \A s \in DOMAIN steps : steps[s].type \in {"parallel", "map"} =>
            \A j \in OwnRows(e, s)' :
              /\ rows'[j].state # "running" => (TasksOf(e, s) \cap Live = {})'
              /\ rows'[j].state = "completed" =>
                   /\ ({t.kid : t \in TasksOf(e, s)} = 1..steps[s].items)'
                   /\ (\A t \in TasksOf(e, s) : t.state = "completed")'
        <3> SUFFICES ASSUME NEW s \in DOMAIN steps, steps[s].type \in {"parallel", "map"}, NEW j \in OwnRows(e, s)',
                            rows'[j].state # "running"
                     PROVE  /\ (TasksOf(e, s) \cap Live = {})'
                            /\ rows'[j].state = "completed" =>
                                 /\ ({t.kid : t \in TasksOf(e, s)} = 1..steps[s].items)'
                                 /\ (\A t \in TasksOf(e, s) : t.state = "completed")'
            OBVIOUS
        <3>1. j \in OwnRows(e, s) /\ rows[j].state # "running" /\ rows'[j] = rows[j]
            BY DEF OwnRows, RowsOfStep
        <3>2. s # c
            <4> SUFFICES ASSUME s = c PROVE FALSE
                OBVIOUS
            <4>1. j = exec[e].row /\ rows[j].state = "running"
                BY <1>0, <3>1 DEF OwnInv, InStep, Working
            <4> QED BY <3>1, <4>1
        <3>3. (TasksOf(e, s) \cap Live = {})'
            BY <1>10, <3>2 DEF TasksOf, Live
        <3>4. TasksOf(e, s)' = TasksOf(e, s)
            BY <1>13, <3>2 DEF TasksOf
        <3> QED BY <1>2, <3>1, <3>3, <3>4 DEF KidsInTurn
    <2>7. exec'[e].at = "join" => exec'[e].done <= (Now(e).items)' /\ exec'[e].ok
        BY <1>2, <2>1
    <2>8. exec'[e].at \in {"join", "fail"} \cup Ended
        OBVIOUS
    <2> QED BY <1>12, <2>2, <2>3, <2>4, <2>5, <2>6, <2>7, <2>8 DEF KidsInTurn
<1> QED BY <1>6, <1>14, <1>15, <1>16, <1>17 DEF OwnInv

(***************************************************************************)
(* A task goes on or ends: its executor waits for it or is at its end, and *)
(* one that waits notes what has not completed.                            *)
(***************************************************************************)
LEMMA TaskIs ==
    ASSUME WorkflowTypeOK, NEW t \in Live, NEW st \in {"running", "completed", "failed", "lost"}, Become(t, st)
    PROVE  \E u \in Tasks : /\ u.by = t.by /\ u.step = t.step /\ u.kid = t.kid /\ u.state = st
                            /\ tasks' = (tasks \ {t}) \cup {u} /\ t \in tasks /\ t.by \in Executors
<1> DEFINE u == [t EXCEPT !.state = st]
<1>1. t \in Tasks /\ t \in tasks
    BY DEF Live, WorkflowTypeOK
<1>2. u \in Tasks /\ u.by = t.by /\ u.step = t.step /\ u.kid = t.kid /\ u.state = st /\ t.by \in Executors
    BY <1>1 DEF Tasks
<1>3. tasks' = (tasks \ {t}) \cup {u}
    BY DEF Become
<1> HIDE DEF u
<1> QED BY <1>1, <1>2, <1>3

LEMMA TaskKeepsOwn ==
    ASSUME WorkflowTypeOK, NEW t \in Live, NEW st \in {"running", "completed", "failed", "lost"}, Become(t, st),
           NEW e \in Executors, e = t.by, OwnInv(e), UNCHANGED <<steps, rows>>,
           exec'[e].at = exec[e].at, exec'[e].cur = exec[e].cur, exec'[e].visited = exec[e].visited,
           exec'[e].attempt = exec[e].attempt, exec'[e].row = exec[e].row, exec'[e].done = exec[e].done,
           exec'[e].read = exec[e].read,
           exec[e].at \notin Ended => /\ exec'[e].ok => exec[e].ok
                                      /\ st \in {"failed", "lost"} => ~exec'[e].ok
    PROVE  OwnInv(e)'
<1>1. PICK u \in Tasks : /\ u.by = e /\ u.step = t.step /\ u.kid = t.kid /\ u.state = st
                         /\ tasks' = (tasks \ {t}) \cup {u} /\ t \in tasks
    BY TaskIs
<1>2. KidsInTurn(e) /\ exec[e].at \in {"join", "fail"} \cup Ended /\ t.state \in {"spawned", "running"}
    BY DEF OwnInv, KidsInTurn, Live
<1>3. InStep(e)'
    BY <1>2 DEF OwnInv, InStep, Working, Exists, OwnRows, RowsOfStep, Is, Now, Ended
<1>4. AttemptsNumbered(e)'
    BY DEF OwnInv, AttemptsNumbered, OneByOne, OwnRows, RowsOfStep, Exists, Is, Now, Ended
<1>5. VisitedCompleted(e)'
    <2>1. \A v \in tasks' : v.by = e => v.step \in exec[e].visited
        BY <1>1 DEF OwnInv, VisitedCompleted
    <2> QED BY <2>1 DEF OwnInv, VisitedCompleted, LastCompleted, OwnRows, RowsOfStep
<1>6. KidsInTurn(e)'
    <2>1. (\A v, w \in tasks : v.by = e /\ w.by = e /\ v.step = w.step /\ v.kid = w.kid => v = w)'
        BY <1>1, <1>2 DEF KidsInTurn
    <2>2. \A s : ({v.kid : v \in TasksOf(e, s)})' = {v.kid : v \in TasksOf(e, s)}
        BY <1>1 DEF TasksOf
    <2>3. \A v \in tasks' : v = u \/ v \in tasks
        BY <1>1
    <2>4. exec[e].at = "join" =>
            /\ exec[e].done <= Now(e).items /\ {v.kid : v \in TasksOf(e, exec[e].cur)} = 1..exec[e].done
            /\ exec[e].ok => \A v \in TasksOf(e, exec[e].cur) : v.state \notin {"failed", "lost"}
            /\ \A v \in Live : v.by = e => v.step = exec[e].cur
        BY <1>2 DEF KidsInTurn
    <2>5. exec[e].at = "join" => /\ exec'[e].done <= (Now(e).items)'
                                 /\ ({v.kid : v \in TasksOf(e, exec[e].cur)})' = 1..exec'[e].done
        BY <2>2, <2>4 DEF Now
    <2>6. exec[e].at = "join" /\ exec'[e].ok => (\A v \in TasksOf(e, exec[e].cur) : v.state \notin {"failed", "lost"})'
        BY <1>1, <2>3, <2>4 DEF TasksOf, Ended
    <2>7. exec[e].at = "join" => (\A v \in Live : v.by = e => v.step = exec[e].cur)'
        BY <1>1, <2>3, <2>4 DEF Live
    <2>8. \A s \in DOMAIN steps : steps[s].type = "map" =>
            (\E n \in 0..steps[s].items : \A v \in TasksOf(e, s) \cap Live :
              v.kid \in (n + 1)..(n + steps[s].max_concurrency))'
        <3> SUFFICES ASSUME NEW s \in DOMAIN steps, steps[s].type = "map"
                     PROVE  (\E n \in 0..steps[s].items : \A v \in TasksOf(e, s) \cap Live :
                              v.kid \in (n + 1)..(n + steps[s].max_concurrency))'
            OBVIOUS
        <3>1. PICK n \in 0..steps[s].items : \A v \in TasksOf(e, s) \cap Live :
                v.kid \in (n + 1)..(n + steps[s].max_concurrency)
            BY <1>2 DEF KidsInTurn
        <3>2. \A v \in (TasksOf(e, s) \cap Live)' : v.kid \in (n + 1)..(n + steps[s].max_concurrency)
            BY <1>1, <2>3, <3>1 DEF TasksOf, Live
        <3> QED BY <3>1, <3>2
    <2>9. \A s \in DOMAIN steps : steps[s].type \in {"parallel", "map"} =>
            \A j \in OwnRows(e, s)' :
              /\ rows'[j].state # "running" => (TasksOf(e, s) \cap Live = {})'
              /\ rows'[j].state = "completed" =>
                   /\ ({v.kid : v \in TasksOf(e, s)} = 1..steps[s].items)'
                   /\ (\A v \in TasksOf(e, s) : v.state = "completed")'
        <3> SUFFICES ASSUME NEW s \in DOMAIN steps, steps[s].type \in {"parallel", "map"}, NEW j \in OwnRows(e, s)',
                            rows'[j].state # "running"
                     PROVE  /\ (TasksOf(e, s) \cap Live = {})'
                            /\ rows'[j].state = "completed" =>
                                 /\ ({v.kid : v \in TasksOf(e, s)} = 1..steps[s].items)'
                                 /\ (\A v \in TasksOf(e, s) : v.state = "completed")'
            OBVIOUS
        <3>1. j \in OwnRows(e, s) /\ rows[j].state # "running" /\ rows'[j] = rows[j]
            BY DEF OwnRows, RowsOfStep
        <3>2. /\ TasksOf(e, s) \cap Live = {}
              /\ rows[j].state = "completed" => /\ {v.kid : v \in TasksOf(e, s)} = 1..steps[s].items
                                                /\ \A v \in TasksOf(e, s) : v.state = "completed"
            BY <1>2, <3>1 DEF KidsInTurn
        <3>3. t.step # s
            BY <1>1, <3>2 DEF TasksOf
        <3>4. TasksOf(e, s)' = TasksOf(e, s)
            BY <1>1, <3>3 DEF TasksOf
        <3>5. (TasksOf(e, s) \cap Live = {})'
            BY <1>1, <3>2, <3>3 DEF TasksOf, Live
        <3> QED BY <3>1, <3>2, <3>4, <3>5
    <2> QED BY <1>2, <2>1, <2>5, <2>6, <2>7, <2>8, <2>9 DEF KidsInTurn, Ended
<1> QED BY <1>3, <1>4, <1>5, <1>6 DEF OwnInv

(***************************************************************************)
(* A crash takes the tasks of the executor with it.                        *)
(***************************************************************************)
LEMMA CrashKeepsOwn ==
    ASSUME WorkflowTypeOK, NEW e \in Executors, OwnInv(e), UNCHANGED <<steps, rows>>,
           exec'[e].at = "dropped", exec'[e].attempt = 1, exec'[e].visited = exec[e].visited,
           tasks' = {IF t \in Live /\ t.by = e THEN [t EXCEPT !.state = "lost"] ELSE t : t \in tasks}
    PROVE  /\ OwnInv(e)' /\ tasks' \subseteq Tasks
           /\ \A t \in tasks : t.by # e => t \in tasks'
           /\ \A t \in tasks' : t.by # e => t \in tasks
<1> DEFINE L(t) == IF t \in Live /\ t.by = e THEN [t EXCEPT !.state = "lost"] ELSE t
<1>1. \A t \in tasks : /\ L(t) \in Tasks /\ L(t).by = t.by /\ L(t).step = t.step /\ L(t).kid = t.kid
                       /\ t.by # e => L(t) = t
                       /\ t.state \notin {"spawned", "running"} => L(t) = t
                       /\ t.by = e => L(t).state \notin {"spawned", "running"}
    BY DEF WorkflowTypeOK, Tasks, Live
<1>2. tasks' = {L(t) : t \in tasks}
    OBVIOUS
<1> HIDE DEF L
<1>3. tasks' \subseteq Tasks /\ \A t \in tasks : t.by # e => t \in tasks'
    BY <1>1, <1>2
<1>4. \A t \in tasks' : t.by # e => t \in tasks
    BY <1>1, <1>2
<1>5. InStep(e)'
    BY DEF InStep, Working
<1>6. AttemptsNumbered(e)'
    BY DEF OwnInv, AttemptsNumbered, OneByOne, OwnRows, RowsOfStep
<1>7. VisitedCompleted(e)'
    <2>1. \A t \in tasks' : t.by = e => t.step \in exec[e].visited
        BY <1>1, <1>2 DEF OwnInv, VisitedCompleted
    <2> QED BY <2>1 DEF OwnInv, VisitedCompleted
<1>8. KidsInTurn(e)'
    <2>1. (\A t, u \in tasks : t.by = e /\ u.by = e /\ t.step = u.step /\ t.kid = u.kid => t = u)'
        BY <1>1, <1>2 DEF OwnInv, KidsInTurn
    <2>2. \A s : (TasksOf(e, s) \cap Live = {})'
        BY <1>1, <1>2 DEF TasksOf, Live
    <2>3. \A s \in DOMAIN steps : steps[s].type = "map" =>
            (\E n \in 0..steps[s].items : \A t \in TasksOf(e, s) \cap Live :
              t.kid \in (n + 1)..(n + steps[s].max_concurrency))'
        <3> SUFFICES ASSUME NEW s \in DOMAIN steps
                     PROVE  (\E n \in 0..steps[s].items : \A t \in TasksOf(e, s) \cap Live :
                              t.kid \in (n + 1)..(n + steps[s].max_concurrency))'
            OBVIOUS
        <3>1. steps[s].items \in Nat /\ 0 \in 0..steps[s].items
            BY StepFacts, WorkflowFacts
        <3> QED BY <2>2, <3>1
    <2>4. \A s \in DOMAIN steps : steps[s].type \in {"parallel", "map"} =>
            \A j \in OwnRows(e, s)' : rows'[j].state = "completed" =>
                   /\ ({t.kid : t \in TasksOf(e, s)} = 1..steps[s].items)'
                   /\ (\A t \in TasksOf(e, s) : t.state = "completed")'
        <3> SUFFICES ASSUME NEW s \in DOMAIN steps, steps[s].type \in {"parallel", "map"}, NEW j \in OwnRows(e, s)',
                            rows'[j].state = "completed"
                     PROVE  /\ ({t.kid : t \in TasksOf(e, s)} = 1..steps[s].items)'
                            /\ (\A t \in TasksOf(e, s) : t.state = "completed")'
            OBVIOUS
        <3>1. j \in OwnRows(e, s) /\ rows[j].state = "completed"
            BY DEF OwnRows, RowsOfStep
        <3>2. /\ {t.kid : t \in TasksOf(e, s)} = 1..steps[s].items
              /\ \A t \in TasksOf(e, s) : t.state = "completed"
            BY <3>1 DEF OwnInv, KidsInTurn
        <3>3. TasksOf(e, s)' = TasksOf(e, s)
            <4>1. \A t \in TasksOf(e, s) : L(t) = t
                BY <1>1, <3>2 DEF TasksOf
            <4>2. \A t \in tasks' : t.by = e /\ t.step = s => t \in TasksOf(e, s)
                BY <1>1, <1>2, <4>1 DEF TasksOf
            <4>3. \A t \in TasksOf(e, s) : t \in tasks'
                BY <1>2, <4>1 DEF TasksOf
            <4> QED BY <4>2, <4>3 DEF TasksOf
        <3> QED BY <3>2, <3>3
    <2> QED BY <2>1, <2>2, <2>3, <2>4 DEF KidsInTurn, Ended
<1> QED BY <1>3, <1>4, <1>5, <1>6, <1>7, <1>8 DEF OwnInv

(***************************************************************************)
(* What every executor keeps, step by step.                                *)
(***************************************************************************)
LEMMA GoStep ==
    ASSUME WorkflowTypeOK, ExecutorInv, NEW e \in Executors, NEW l \in Places, Go(e, l),
           UNCHANGED <<steps, rows, tasks>>,
           \/ l \in Ended /\ (l = "completed" => exec[e].at = "complete")
           \/ l = "fail" /\ exec[e].at \notin {"join"} \cup Ended
           \/ exec[e].at = "idle" /\ l = "begin" /\ e = Starter
           \/ exec[e].at \in {"idle", "begin"} /\ l \in {"complete", "step"} /\ (l = "step" => Len(steps) # 0)
           \/ exec[e].at = "step" /\ l = "output" /\ exec[e].attempt = 1
           \/ exec[e].at = "output" /\ l = "complete"
           \/ exec[e].at = "delete" /\ l = "settle"
           \/ /\ exec[e].at = "join" /\ \A t \in Live : t.by # e
              /\ l = IF exec[e].ok /\ exec[e].done < Now(e).items THEN "spawn" ELSE "settle"
    PROVE  /\ exec' \in [Executors -> Execs] /\ ExecutorInv'
           /\ \A d \in Executors \ {e} : exec'[d] = exec[d]
           /\ exec'[e].at = l /\ exec'[e].visited = exec[e].visited
<1>1. OwnInv(e) /\ Len(rows) \in Nat
    BY WorkflowFacts DEF ExecutorInv, OwnInv
<1>2. CASE l \in Ended
    <2>1. OwnInv(e)'
        BY <1>1, <1>2, EndKeepsOwn DEF Ended
    <2>2. /\ exec' \in [Executors -> Execs] /\ \A d \in Executors \ {e} : exec'[d] = exec[d]
          /\ exec'[e].at = l /\ exec'[e].visited = exec[e].visited
        BY <1>2, EndIs
    <2> QED BY <1>1, <2>1, <2>2, OwnStep
<1>3. CASE l \notin Ended
    <2>1. OwnInv(e)'
        <3>1. CASE l = "fail"
            BY <1>1, <1>3, <3>1, FailKeepsOwn DEF Ended
        <3>2. CASE l # "fail"
            BY <1>1, <1>3, <3>2, MoveKeepsOwn DEF Ended
        <3> QED BY <3>1, <3>2
    <2>2. /\ exec' \in [Executors -> Execs] /\ \A d \in Executors \ {e} : exec'[d] = exec[d]
          /\ exec'[e].at = l /\ exec'[e].visited = exec[e].visited
        BY <1>3, GoIs
    <2> QED BY <1>1, <2>1, <2>2, OwnStep
<1> QED BY <1>2, <1>3

LEMMA OwnRowsStep ==
    ASSUME WorkflowTypeOK, ExecutorInv, NEW e \in Executors, NEW y \in Execs, exec' = [exec EXCEPT ![e] = y],
           UNCHANGED <<steps, tasks>>, OwnInv(e)', NEW k \in 1..Len(rows), rows[k].by = e,
           \/ rows' = rows
           \/ /\ Len(rows') = Len(rows) /\ rows'[k].by = e
              /\ \A j \in 1..Len(rows) : j # k => rows'[j] = rows[j]
    PROVE  ExecutorInv'
<1>1. Len(rows) \in Nat /\ \A d \in Executors \ {e} : exec'[d] = exec[d]
    BY WorkflowFacts, ExecIs
<1>2. /\ Len(rows') = Len(rows)
      /\ \A j \in 1..Len(rows) : rows'[j].by = rows[j].by /\ (rows[j].by # e => rows'[j] = rows[j])
    OBVIOUS
<1> QED BY <1>1, <1>2, OwnStep

(***************************************************************************)
(* A step whose row is settled: a task, a wait, a choice, the tasks of a   *)
(* batch, a signal.                                                        *)
(***************************************************************************)
LEMMA SettleStepKeeps ==
    ASSUME WorkflowTypeOK, ExecutorInv, NEW e \in Executors, UNCHANGED <<steps, tasks>>,
           exec[e].at \in {"work", "settle", "spawn"}, NEW n \in Nat, NEW ok \in BOOLEAN,
           rows' = Settled(exec[e].row, ok) \/ rows' = [Settled(exec[e].row, ok) EXCEPT ![exec[e].row].choice = n],
           NEW y \in Execs, exec' = [exec EXCEPT ![e] = y], y.visited = exec[e].visited,
           ok /\ Is(e, {"parallel", "map"}) =>
              /\ {t.kid : t \in TasksOf(e, exec[e].cur)} = 1..Now(e).items
              /\ \A t \in TasksOf(e, exec[e].cur) : t.state = "completed",
           \/ /\ ok /\ y.at \in {"step", "output"} /\ y.attempt = 1
              /\ y.at = "step" => Exists(y.cur)
           \/ /\ ok /\ y.at = "route" /\ y.attempt = exec[e].attempt
              /\ y.cur = exec[e].cur /\ y.row = exec[e].row /\ ~Is(e, {"task"})
           \/ /\ ~ok /\ y.at = "step" /\ y.attempt = exec[e].attempt + 1
              /\ y.cur = exec[e].cur /\ Is(e, {"task"}) /\ exec[e].attempt < Now(e).max_attempts
           \/ ~ok /\ y.at = "fail" /\ y.attempt = exec[e].attempt
    PROVE  exec' \in [Executors -> Execs] /\ rows' \in Seq(Rows) /\ ExecutorInv'
<1>1. OwnInv(e)
    BY DEF ExecutorInv, OwnInv
<1>2. exec' \in [Executors -> Execs] /\ exec'[e] = y
    BY ExecIs
<1>3. OwnInv(e)'
    BY <1>1, <1>2, SettleKeepsOwn
<1>4. PICK k \in 1..Len(rows) : k = exec[e].row /\ rows[k].by = e
    BY <1>1 DEF OwnInv, InStep, Working, OwnRows, RowsOfStep
<1>5. /\ rows' \in Seq(Rows) /\ Len(rows') = Len(rows) /\ \A j \in 1..Len(rows) : j # k => rows'[j] = rows[j]
      /\ rows'[k].by = rows[k].by
    BY <1>4, SettledIs
<1> QED BY <1>2, <1>3, <1>4, <1>5, OwnRowsStep

LEMMA TaskEndsKeeps ==
    ASSUME WorkflowTypeOK, ExecutorInv, NEW e \in Executors, NEW ok \in BOOLEAN, TaskEnds(e, ok)
    PROVE  WorkflowTypeOK' /\ ExecutorInv'
<1> DEFINE x == exec[e]
           y == IF ok THEN Onward(x)
                ELSE IF Retry(e) THEN [[x EXCEPT !.at = "step"] EXCEPT !.attempt = x.attempt + 1]
                ELSE [x EXCEPT !.at = "fail"]
<1>1. /\ x.at = "work" /\ Is(e, {"task"}) /\ rows' = Settled(x.row, ok) /\ exec' = [exec EXCEPT ![e] = y]
      /\ UNCHANGED <<steps, status, output, signals, sent, given, raced, tasks, mishaps>>
    BY DEF TaskEnds, At, ExecutionAlone, SignalsAlone
<1>2. x \in Execs /\ Exists(x.cur)
    BY <1>1, WorkflowFacts DEF ExecutorInv, InStep, Working
<1>3. y \in Execs /\ y.visited = x.visited
      /\ \/ ok /\ y.at \in {"step", "output"} /\ y.attempt = 1 /\ (y.at = "step" => Exists(y.cur))
         \/ /\ ~ok /\ y.at = "step" /\ y.attempt = x.attempt + 1 /\ y.cur = x.cur /\ x.attempt < Now(e).max_attempts
         \/ ~ok /\ y.at = "fail" /\ y.attempt = x.attempt
    <2>1. CASE ok
        BY <1>2, <2>1, OnwardIs
    <2>2. CASE ~ok /\ Retry(e)
        <3>1. PICK m \in Nat : m = x.attempt + 1
            BY <1>2 DEF Execs
        <3>2. y = [[x EXCEPT !.at = "step"] EXCEPT !.attempt = m]
            BY <2>2, <3>1
        <3>3. y \in Execs /\ y.at = "step" /\ y.attempt = m /\ y.cur = x.cur /\ y.visited = x.visited
            BY <1>2, <3>2 DEF Execs
        <3> QED BY <2>2, <3>1, <3>3 DEF Retry
    <2>3. CASE ~ok /\ ~Retry(e)
        BY <1>2, <2>3 DEF Execs
    <2> QED BY <2>1, <2>2, <2>3
<1> HIDE DEF y
<1>4. exec' \in [Executors -> Execs] /\ rows' \in Seq(Rows) /\ ExecutorInv'
    <2>1. ~Is(e, {"parallel", "map"}) /\ 0 \in Nat
        BY <1>1 DEF Is
    <2> QED BY <1>1, <1>3, <2>1, SettleStepKeeps
<1> QED BY <1>1, <1>4 DEF WorkflowTypeOK

LEMMA WaitEndsKeeps ==
    ASSUME WorkflowTypeOK, ExecutorInv, NEW e \in Executors, WaitEnds(e)
    PROVE  WorkflowTypeOK' /\ ExecutorInv'
<1>1. /\ exec[e].at = "work" /\ Is(e, {"wait"})
      /\ UNCHANGED <<steps, status, output, signals, sent, given, raced, tasks, mishaps>>
    BY DEF WaitEnds, At, ExecutionAlone, SignalsAlone
<1>2. exec[e] \in Execs /\ Exists(exec[e].cur)
    BY <1>1, WorkflowFacts DEF ExecutorInv, InStep, Working
<1>3. PICK ok \in BOOLEAN, y \in Execs :
        /\ rows' = Settled(exec[e].row, ok) /\ exec' = [exec EXCEPT ![e] = y] /\ y.visited = exec[e].visited
        /\ \/ ok /\ y.at \in {"step", "output"} /\ y.attempt = 1 /\ (y.at = "step" => Exists(y.cur))
           \/ ~ok /\ y.at = "fail" /\ y.attempt = exec[e].attempt
    <2>1. CASE Now(e).fails
        <3> DEFINE y == [exec[e] EXCEPT !.at = "fail"]
        <3>1. rows' = Settled(exec[e].row, FALSE) /\ exec' = [exec EXCEPT ![e] = y]
            BY <2>1 DEF WaitEnds, Settled
        <3>2. y \in Execs /\ y.visited = exec[e].visited /\ y.at = "fail" /\ y.attempt = exec[e].attempt
            BY <1>2 DEF Execs
        <3> HIDE DEF y
        <3> QED BY <3>1, <3>2
    <2>2. CASE ~Now(e).fails
        <3>1. PICK y \in Execs : /\ y = Onward(exec[e]) /\ y.visited = exec[e].visited /\ y.at \in {"step", "output"}
                                 /\ y.attempt = 1 /\ (y.at = "step" => Exists(y.cur))
            BY <1>2, OnwardIs
        <3>2. rows' = Settled(exec[e].row, TRUE) /\ exec' = [exec EXCEPT ![e] = Onward(exec[e])]
            BY <2>2 DEF WaitEnds, Settled
        <3> QED BY <3>1, <3>2
    <2> QED BY <2>1, <2>2
<1>4. exec' \in [Executors -> Execs] /\ rows' \in Seq(Rows) /\ ExecutorInv'
    <2>1. ~Is(e, {"parallel", "map"}) /\ 0 \in Nat
        BY <1>1 DEF Is
    <2> QED BY <1>1, <1>3, <2>1, SettleStepKeeps
<1> QED BY <1>1, <1>4 DEF WorkflowTypeOK

LEMMA SettleStepStep ==
    ASSUME WorkflowTypeOK, ExecutorInv, NEW e \in Executors, SettleStep(e)
    PROVE  WorkflowTypeOK' /\ ExecutorInv'
<1>0. PICK ok \in BOOLEAN : ok = exec[e].ok
    BY ExecFacts
<1> DEFINE y == IF ok THEN Onward(exec[e]) ELSE [exec[e] EXCEPT !.at = "fail"]
<1>1. /\ exec[e].at = "settle" \/ (exec[e].at = "spawn" /\ Now(e).items = 0)
      /\ rows' = Settled(exec[e].row, ok)
      /\ exec' = [exec EXCEPT ![e] = y]
      /\ UNCHANGED <<steps, status, output, signals, sent, given, raced, tasks, mishaps>>
    BY <1>0 DEF SettleStep, At, ExecutionAlone, SignalsAlone
<1>2. exec[e] \in Execs /\ Exists(exec[e].cur)
    BY <1>1, WorkflowFacts DEF ExecutorInv, InStep, Working
<1>3. y \in Execs /\ y.visited = exec[e].visited
      /\ \/ ok /\ y.at \in {"step", "output"} /\ y.attempt = 1 /\ (y.at = "step" => Exists(y.cur))
         \/ ~ok /\ y.at = "fail" /\ y.attempt = exec[e].attempt
    <2>1. CASE ok
        BY <1>2, <2>1, OnwardIs
    <2>2. CASE ~ok
        BY <1>2, <2>2 DEF Execs
    <2> QED BY <2>1, <2>2
<1> HIDE DEF y
<1>4. ok /\ Is(e, {"parallel", "map"}) =>
              /\ {t.kid : t \in TasksOf(e, exec[e].cur)} = 1..Now(e).items
              /\ \A t \in TasksOf(e, exec[e].cur) : t.state = "completed"
    <2> SUFFICES ASSUME ok, Is(e, {"parallel", "map"})
                 PROVE  /\ {t.kid : t \in TasksOf(e, exec[e].cur)} = 1..Now(e).items
                        /\ \A t \in TasksOf(e, exec[e].cur) : t.state = "completed"
        OBVIOUS
    <2>1. CASE exec[e].at = "settle"
        BY <1>0, <2>1 DEF ExecutorInv, KidsInTurn, Is
    <2>2. CASE exec[e].at = "spawn" /\ Now(e).items = 0
        <3>1. {t.kid : t \in TasksOf(e, exec[e].cur)} = 1..exec[e].done /\ exec[e].done <= 0 /\ exec[e].done \in Nat
            BY <2>2, ExecFacts DEF ExecutorInv, KidsInTurn
        <3>2. 1..exec[e].done = {} /\ 1..Now(e).items = {}
            BY <2>2, <3>1
        <3> QED BY <3>1, <3>2
    <2> QED BY <1>1, <2>1, <2>2
<1>5. exec' \in [Executors -> Execs] /\ rows' \in Seq(Rows) /\ ExecutorInv'
    <2>1. 0 \in Nat
        OBVIOUS
    <2> QED BY <1>1, <1>3, <1>4, <2>1, SettleStepKeeps
<1> QED BY <1>1, <1>5 DEF WorkflowTypeOK

LEMMA DecideKeeps ==
    ASSUME WorkflowTypeOK, ExecutorInv, NEW e \in Executors, NEW t \in 0..(Len(steps) + 1), Decide(e, t)
    PROVE  WorkflowTypeOK' /\ ExecutorInv'
<1> DEFINE y == [exec[e] EXCEPT !.at = "route"]
<1>1. /\ exec[e].at = "work" /\ Is(e, {"choice"})
      /\ rows' = [Settled(exec[e].row, TRUE) EXCEPT ![exec[e].row].choice = t]
      /\ exec' = [exec EXCEPT ![e] = y]
      /\ UNCHANGED <<steps, status, output, signals, sent, given, raced, tasks, mishaps>>
    BY DEF Decide, Go, Ended, At, ExecutionAlone, SignalsAlone
<1>2. exec[e] \in Execs
    BY WorkflowFacts
<1>3. /\ y \in Execs /\ y.visited = exec[e].visited /\ y.at = "route" /\ y.attempt = exec[e].attempt
      /\ y.cur = exec[e].cur /\ y.row = exec[e].row
    BY <1>2 DEF Execs
<1> HIDE DEF y
<1>4. exec' \in [Executors -> Execs] /\ rows' \in Seq(Rows) /\ ExecutorInv'
    <2>1. ~Is(e, {"parallel", "map"}) /\ ~Is(e, {"task"}) /\ t \in Nat /\ TRUE \in BOOLEAN
        BY <1>1, WorkflowFacts DEF Is
    <2> QED BY <1>1, <1>3, <2>1, SettleStepKeeps
<1> QED BY <1>1, <1>4 DEF WorkflowTypeOK

(***************************************************************************)
(* Every set of numbers has a least one, and a bounded one a greatest.     *)
(***************************************************************************)
LEMMA LeastNumber ==
    ASSUME NEW T, T \subseteq Nat, T # {}
    PROVE  \E x \in T : \A y \in T : x <= y
<1> DEFINE R == OpToRel(<, Nat)
<1>1. \A x, y \in Nat : y < x => <<y, x>> \in R
    BY DEF OpToRel
<1>2. IsWellFoundedOn(R, Nat)
    BY NatLessThanWellFounded
<1> HIDE DEF R
<1>3. PICK x \in T : \A y \in T : ~ (<<y, x>> \in R)
    BY <1>2, WFMin
<1>4. \A y \in T : y \in Nat /\ x \in Nat /\ ~(y < x)
    BY <1>1, <1>3
<1>5. \A y \in T : x <= y
    BY <1>4
<1> QED BY <1>5

LEMMA GreatestNumber ==
    ASSUME NEW n \in Nat, NEW S, S \subseteq 1..n, S # {}
    PROVE  \E x \in S : \A y \in S : y <= x
<1> DEFINE T == {n - k : k \in S}
<1>1. \A k \in S : k \in Nat /\ n - k \in Nat
    OBVIOUS
<1>2. T \subseteq Nat /\ T # {}
    BY <1>1
<1> HIDE DEF T
<1>3. PICK m \in T : \A y \in T : m <= y
    BY <1>2, LeastNumber
<1>4. PICK k \in S : m = n - k
    BY <1>3 DEF T
<1>5. \A y \in S : n - k <= n - y
    BY <1>3, <1>4 DEF T
<1> QED BY <1>1, <1>5

LEMMA EnterStepKeeps ==
    ASSUME WorkflowTypeOK, ExecutorInv, NEW e \in Executors, EnterStep(e)
    PROVE  WorkflowTypeOK' /\ ExecutorInv'
<1>1. /\ exec[e].at = "step" /\ OwnInv(e)
      /\ UNCHANGED <<steps, status, output, signals, sent, given, raced, tasks, mishaps>>
    BY DEF EnterStep, At, ExecutionAlone, SignalsAlone, ExecutorInv, OwnInv
<1>2. CASE exec[e].cur \in exec[e].visited /\ exec[e].attempt = 1
    <2>1. Go(e, "output") /\ rows' = rows /\ "output" \in Places
        BY <1>2 DEF EnterStep, Places
    <2>2. exec' \in [Executors -> Execs] /\ ExecutorInv'
        BY <1>1, <1>2, <2>1, GoStep
    <2> QED BY <1>1, <2>1, <2>2 DEF WorkflowTypeOK
<1>3. CASE ~(exec[e].cur \in exec[e].visited /\ exec[e].attempt = 1) /\ Is(e, {"task"}) /\ Now(e).max_attempts = 0
    <2>1. Go(e, "fail") /\ rows' = rows /\ "fail" \in Places /\ exec[e].at \notin {"join"} \cup Ended
        BY <1>1, <1>3 DEF EnterStep, Places, Ended
    <2>2. exec' \in [Executors -> Execs] /\ ExecutorInv'
        BY <1>1, <1>3, <2>1, GoStep
    <2> QED BY <1>1, <2>1, <2>2 DEF WorkflowTypeOK
<1>4. CASE ~(exec[e].cur \in exec[e].visited /\ exec[e].attempt = 1) /\ ~(Is(e, {"task"}) /\ Now(e).max_attempts = 0)
    <2>a. PICK l \in {"spawn", "work"} : l = IF Is(e, {"parallel", "map"}) THEN "spawn" ELSE "work"
        OBVIOUS
    <2>b. PICK v \in SUBSET Nat : v = exec[e].visited \cup {exec[e].cur}
        <3>1. exec[e].cur \in Nat /\ exec[e].visited \in SUBSET Nat
            BY ExecFacts
        <3> QED BY <3>1
    <2>c. PICK k \in Nat : k = Len(rows) + 1
        BY WorkflowFacts
    <2>0. /\ l = IF Is(e, {"parallel", "map"}) THEN "spawn" ELSE "work"
          /\ v = exec[e].visited \cup {exec[e].cur} /\ k = Len(rows) + 1
        BY <2>a, <2>b, <2>c
    <2> DEFINE y == [[[[[exec[e] EXCEPT !.at = l] EXCEPT !.visited = v] EXCEPT !.row = k] EXCEPT !.ok = TRUE] EXCEPT !.done = 0]
    <2>1. exec[e] \in Execs
        BY WorkflowFacts
    <2>2. rows' = NewRow(e) /\ exec' = [exec EXCEPT ![e] = y]
        <3>1. /\ rows' = NewRow(e)
              /\ exec' = [exec EXCEPT ![e].at = IF Is(e, {"parallel", "map"}) THEN "spawn" ELSE "work",
                                    ![e].visited = @ \cup {exec[e].cur},
                                    ![e].row = Len(rows) + 1, ![e].ok = TRUE, ![e].done = 0]
            BY <1>4 DEF EnterStep
        <3>2. exec \in [Executors -> Execs]
            BY WorkflowFacts
        <3> QED BY <2>0, <2>1, <3>1, <3>2 DEF Execs
    <2>3. /\ y \in Execs /\ y.at = l /\ y.cur = exec[e].cur /\ y.visited = v /\ y.attempt = exec[e].attempt
          /\ y.row = k /\ y.ok = TRUE /\ y.done = 0
        BY <2>1 DEF Execs
    <2> HIDE DEF y
    <2>4. /\ exec' \in [Executors -> Execs] /\ exec'[e] = y /\ \A d \in Executors \ {e} : exec'[d] = exec[d]
        BY <2>2, <2>3, ExecIs
    <2>5. OwnInv(e)'
        BY <1>1, <1>4, <2>0, <2>2, <2>3, <2>4, EnterKeepsOwn
    <2>6. /\ rows' \in Seq(Rows) /\ Len(rows') = Len(rows) + 1 /\ Len(rows) \in Nat
          /\ \A j \in 1..Len(rows) : rows'[j] = rows[j]
          /\ rows'[Len(rows) + 1].by = e
        <3>1. /\ rows' \in Seq(Rows) /\ Len(rows') = Len(rows) + 1
              /\ \A j \in 1..Len(rows) : rows'[j] = rows[j]
              /\ rows'[Len(rows) + 1] = [step |-> exec[e].cur, by |-> e, attempt |-> exec[e].attempt,
                                         choice |-> 0, state |-> "running"]
            BY <2>2, NewRowIs
        <3> QED BY <3>1, WorkflowFacts
    <2>7. \A j \in 1..Len(rows') : j > Len(rows) => rows'[j].by = e
        BY <2>6
    <2>8. ExecutorInv'
        BY <1>1, <2>4, <2>5, <2>6, <2>7, OwnStep
    <2> QED BY <1>1, <2>4, <2>6, <2>8 DEF WorkflowTypeOK
<1> QED BY <1>2, <1>3, <1>4

(***************************************************************************)
(* The row that is read for a choice is the newest of its step.            *)
(***************************************************************************)
LEMMA DecisionIs ==
    ASSUME WorkflowTypeOK, ExecutorInv, NEW e \in Executors, exec[e].at = "route"
    PROVE  /\ Decision(e) \in RowsOfStep(exec[e].cur) /\ \A j \in RowsOfStep(exec[e].cur) : j <= Decision(e)
           /\ exec[e].row \in RowsOfStep(exec[e].cur) /\ Decision(e) \in 1..Len(rows)
<1> DEFINE R == RowsOfStep(exec[e].cur)
<1>1. exec[e].row \in R /\ R \subseteq 1..Len(rows) /\ Len(rows) \in Nat
    BY WorkflowFacts DEF ExecutorInv, InStep, Working, OwnRows, RowsOfStep
<1>2. \E k \in R : \A j \in R : j <= k
    <2> HIDE DEF R
    <2> QED BY <1>1, GreatestNumber
<1>3. Decision(e) \in R /\ \A j \in R : j <= Decision(e)
    BY <1>2 DEF Decision
<1> QED BY <1>1, <1>3

LEMMA RouteChoiceKeeps ==
    ASSUME WorkflowTypeOK, ExecutorInv, NEW e \in Executors, RouteChoice(e)
    PROVE  WorkflowTypeOK' /\ ExecutorInv'
<1>1. /\ exec[e].at = "route" /\ OwnInv(e) /\ exec[e] \in Execs
      /\ UNCHANGED <<steps, status, output, signals, sent, given, raced, rows, tasks, mishaps>>
    BY WorkflowFacts DEF RouteChoice, At, ExecutionAlone, SignalsAlone, ExecutorInv, OwnInv
<1>2. PICK t \in Nat : t = rows[Decision(e)].choice
    <2>1. Decision(e) \in 1..Len(rows)
        BY <1>1, DecisionIs
    <2> QED BY <2>1, WorkflowFacts DEF Rows
<1> DEFINE u == [[[[exec[e] EXCEPT !.at = "step"] EXCEPT !.cur = t] EXCEPT !.index = t] EXCEPT !.onChoice = TRUE]
           v == [exec[e] EXCEPT !.at = "output"]
           y == IF Exists(t) THEN u ELSE v
<1>3. exec' = [exec EXCEPT ![e] = y]
    BY <1>2 DEF RouteChoice
<1>4. /\ y \in Execs /\ y.at \in {"step", "output"} /\ (y.at = "step" => Exists(y.cur))
      /\ y.visited = exec[e].visited /\ y.attempt = exec[e].attempt
    <2>1. u \in Execs /\ u.at = "step" /\ u.cur = t /\ u.visited = exec[e].visited /\ u.attempt = exec[e].attempt
        BY <1>1 DEF Execs
    <2>2. v \in Execs /\ v.at = "output" /\ v.visited = exec[e].visited /\ v.attempt = exec[e].attempt
        BY <1>1 DEF Execs
    <2> HIDE DEF u, v
    <2> QED BY <2>1, <2>2
<1> HIDE DEF y
<1>5. exec' \in [Executors -> Execs] /\ exec'[e] = y /\ \A d \in Executors \ {e} : exec'[d] = exec[d]
    BY <1>3, <1>4, ExecIs
<1>6. OwnInv(e)'
    BY <1>1, <1>4, <1>5, RouteKeepsOwn
<1>7. ExecutorInv'
    BY <1>1, <1>5, <1>6, WorkflowFacts, OwnStep
<1> QED BY <1>1, <1>5, <1>7 DEF WorkflowTypeOK

LEMMA SpawnBatchKeeps ==
    ASSUME WorkflowTypeOK, ExecutorInv, NEW e \in Executors, SpawnBatch(e)
    PROVE  WorkflowTypeOK' /\ ExecutorInv'
<1>1. /\ exec[e].at = "spawn" /\ OwnInv(e) /\ exec[e] \in Execs /\ exec[e].done < Now(e).items
      /\ UNCHANGED <<steps, status, output, signals, sent, given, raced, rows, mishaps>>
    BY WorkflowFacts DEF SpawnBatch, At, ExecutionAlone, SignalsAlone, ExecutorInv, OwnInv
<1>2. exec[e].done \in Nat /\ Now(e).items \in Nat /\ Now(e).max_concurrency \in Nat /\ Batch(e) \in Nat
    BY <1>1, StepFacts, ExecFacts DEF OwnInv, InStep, Working, Exists, Now, Batch
<1>3. CASE Batch(e) = 0
    <2>1. Go(e, "dropped") /\ tasks' = tasks /\ "dropped" \in Places /\ "dropped" \in Ended
        BY <1>3 DEF SpawnBatch, Places, Ended
    <2>2. exec' \in [Executors -> Execs] /\ ExecutorInv'
        BY <1>1, <2>1, GoStep
    <2> QED BY <1>1, <2>1, <2>2 DEF WorkflowTypeOK
<1>4. CASE Batch(e) # 0
    <2>0. PICK last \in Nat :
             last = IF exec[e].done + Batch(e) < Now(e).items THEN exec[e].done + Batch(e) ELSE Now(e).items
        BY <1>2
    <2> DEFINE y == [[exec[e] EXCEPT !.at = "join"] EXCEPT !.done = last]
    <2>1. tasks' = Spawned(e, (exec[e].done + 1)..last) /\ exec' = [exec EXCEPT ![e] = y]
        <3>1. /\ tasks' = Spawned(e, (exec[e].done + 1)..last)
              /\ exec' = [exec EXCEPT ![e].at = "join", ![e].done = last]
            BY <1>4, <2>0 DEF SpawnBatch
        <3>2. exec \in [Executors -> Execs]
            BY WorkflowFacts
        <3> QED BY <1>1, <3>1, <3>2 DEF Execs
    <2>2. /\ y \in Execs /\ y.at = "join" /\ y.done = last /\ y.cur = exec[e].cur /\ y.visited = exec[e].visited
          /\ y.attempt = exec[e].attempt /\ y.row = exec[e].row /\ y.ok = exec[e].ok
        BY <1>1 DEF Execs
    <2> HIDE DEF y
    <2>3. exec' \in [Executors -> Execs] /\ exec'[e] = y /\ \A d \in Executors \ {e} : exec'[d] = exec[d]
        BY <2>1, <2>2, ExecIs
    <2>4. /\ exec[e].done <= last /\ last <= Now(e).items
          /\ Is(e, {"map"}) => last <= exec[e].done + Now(e).max_concurrency
        BY <1>1, <1>2, <1>4, <2>0 DEF Batch
    <2>5. OwnInv(e)' /\ tasks' \subseteq Tasks /\ \A t \in tasks' : t.by # e => t \in tasks
        BY <1>1, <2>1, <2>2, <2>3, <2>4, SpawnKeepsOwn
    <2>6. \A t \in tasks : t \in tasks'
        BY <2>1 DEF Spawned
    <2>7. ExecutorInv'
        <3>1. steps' = steps /\ rows' = rows /\ Len(rows) \in Nat
            BY <1>1, WorkflowFacts
        <3> QED BY <2>3, <2>5, <2>6, <3>1, OwnStep
    <2> QED BY <1>1, <2>3, <2>5, <2>7 DEF WorkflowTypeOK
<1> QED BY <1>3, <1>4

LEMMA SpawnSomeKeeps ==
    ASSUME WorkflowTypeOK, ExecutorInv, NEW e \in Executors, SpawnSome(e)
    PROVE  WorkflowTypeOK' /\ ExecutorInv'
<1>1. /\ exec[e].at = "spawn" /\ OwnInv(e) /\ exec[e] \in Execs /\ Is(e, {"parallel"})
      /\ Now(e).no_id \in 1..Now(e).items /\ Go(e, "fail")
      /\ tasks' = Spawned(e, (exec[e].done + 1)..(Now(e).no_id - 1))
      /\ UNCHANGED <<steps, status, output, signals, sent, given, raced, rows, mishaps>>
    BY WorkflowFacts DEF SpawnSome, BranchMissing, At, ExecutionAlone, SignalsAlone, ExecutorInv, OwnInv
<1>2. exec[e].done \in Nat /\ Now(e).items \in Nat /\ exec[e].done <= Now(e).items
    BY <1>1, StepFacts, ExecFacts DEF OwnInv, InStep, KidsInTurn, Working, Exists, Now
<1>3. PICK last \in Nat : /\ exec[e].done <= last /\ last <= Now(e).items
                          /\ (exec[e].done + 1)..(Now(e).no_id - 1) = (exec[e].done + 1)..last
    <2>1. PICK n \in Nat, d \in Nat : n = Now(e).no_id - 1 /\ d = exec[e].done /\ n <= Now(e).items
        BY <1>1, <1>2
    <2>2. CASE n < d
        <3>1. (d + 1)..n = {} /\ (d + 1)..d = {}
            BY <2>1, <2>2
        <3> QED BY <1>2, <2>1, <3>1
    <2>3. CASE d <= n
        BY <2>1, <2>3
    <2> QED BY <2>1, <2>2, <2>3
<1>4. tasks' = Spawned(e, (exec[e].done + 1)..last)
    BY <1>1, <1>3
<1>5. /\ exec' \in [Executors -> Execs] /\ \A d \in Executors \ {e} : exec'[d] = exec[d]
      /\ exec'[e].at = "fail" /\ exec'[e].cur = exec[e].cur /\ exec'[e].visited = exec[e].visited
      /\ exec'[e].attempt = exec[e].attempt /\ exec'[e].row = exec[e].row /\ exec'[e].ok = exec[e].ok
    <2>1. "fail" \in Places \ Ended
        BY DEF Places, Ended
    <2> QED BY <1>1, <2>1, GoIs
<1>6. OwnInv(e)' /\ tasks' \subseteq Tasks /\ \A t \in tasks' : t.by # e => t \in tasks
    <2>1. ~Is(e, {"map"})
        BY <1>1 DEF Is
    <2> QED BY <1>1, <1>3, <1>4, <1>5, <2>1, SpawnKeepsOwn
<1>7. \A t \in tasks : t \in tasks'
    BY <1>4 DEF Spawned
<1>8. ExecutorInv'
    <2>1. steps' = steps /\ rows' = rows /\ Len(rows) \in Nat
        BY <1>1, WorkflowFacts
    <2> QED BY <1>5, <1>6, <1>7, <2>1, OwnStep
<1> QED BY <1>1, <1>5, <1>6, <1>8 DEF WorkflowTypeOK

LEMMA SignalStepKeeps ==
    ASSUME WorkflowTypeOK, ExecutorInv, NEW e \in Executors, ReadSignal(e) \/ SignalTimeout(e)
    PROVE  WorkflowTypeOK' /\ ExecutorInv'
<1>1. /\ exec[e].at = "work" /\ OwnInv(e) /\ exec[e] \in Execs /\ exec \in [Executors -> Execs] /\ Is(e, {"signal"})
      /\ UNCHANGED <<steps, status, output, signals, sent, given, rows, tasks, mishaps>> /\ raced' \in BOOLEAN
    BY WorkflowFacts DEF ReadSignal, SignalTimeout, At, ExecutionAlone, SignalsAlone, ExecutorInv, OwnInv, WorkflowTypeOK
<1>2. PICK y \in Execs : /\ exec' = [exec EXCEPT ![e] = y] /\ y.at \in {"delete", "settle"}
                         /\ y.cur = exec[e].cur /\ y.visited = exec[e].visited
                         /\ y.attempt = exec[e].attempt /\ y.row = exec[e].row
                         /\ y.at = "delete" => y.read \in Signal
    <2>1. CASE ReadSignal(e)
        <3>0. PICK h \in Signal : h = Head(signals) /\ h \in Nat
            <4>1. signals \in Seq(Signal) /\ signals # <<>>
                BY <2>1, WorkflowFacts DEF ReadSignal
            <4>2. Head(signals) \in Signal
                BY <4>1, HeadTailProperties
            <4> QED BY <4>2, WorkflowAssumption DEF Signal
        <3> DEFINE y == [[exec[e] EXCEPT !.at = "delete"] EXCEPT !.read = h]
        <3>1. exec' = [exec EXCEPT ![e] = y]
            <4>1. exec' = [exec EXCEPT ![e].at = "delete", ![e].read = h]
                BY <2>1, <3>0 DEF ReadSignal
            <4> QED BY <1>1, <4>1 DEF Execs
        <3>2. /\ y \in Execs /\ y.at = "delete" /\ y.read = h /\ y.cur = exec[e].cur /\ y.visited = exec[e].visited
              /\ y.attempt = exec[e].attempt /\ y.row = exec[e].row
            BY <1>1, <3>0 DEF Execs
        <3> HIDE DEF y
        <3> QED BY <3>0, <3>1, <3>2
    <2>2. CASE SignalTimeout(e)
        <3> DEFINE y == [[exec[e] EXCEPT !.at = "settle"] EXCEPT !.ok = FALSE]
        <3>1. exec' = [exec EXCEPT ![e] = y]
            <4>1. exec' = [exec EXCEPT ![e].at = "settle", ![e].ok = FALSE]
                BY <2>2 DEF SignalTimeout
            <4> QED BY <1>1, <4>1 DEF Execs
        <3>2. /\ y \in Execs /\ y.at = "settle" /\ y.cur = exec[e].cur /\ y.visited = exec[e].visited
              /\ y.attempt = exec[e].attempt /\ y.row = exec[e].row
            BY <1>1 DEF Execs
        <3> HIDE DEF y
        <3> QED BY <3>1, <3>2
    <2> QED BY <2>1, <2>2
<1>3. exec' \in [Executors -> Execs] /\ exec'[e] = y /\ \A d \in Executors \ {e} : exec'[d] = exec[d]
    BY <1>2, ExecIs
<1>4. OwnInv(e)'
    BY <1>1, <1>2, <1>3, SignalKeepsOwn
<1>5. ExecutorInv'
    BY <1>1, <1>3, <1>4, WorkflowFacts, OwnStep
<1> QED BY <1>1, <1>3, <1>5 DEF WorkflowTypeOK

(***************************************************************************)
(* A step of a spawned task.                                               *)
(***************************************************************************)
LEMMA TaskStepKeeps ==
    ASSUME WorkflowTypeOK, ExecutorInv, NEW t \in Live, NEW st \in {"running", "completed", "failed", "lost"},
           Become(t, st), UNCHANGED <<steps, status, output, signals, sent, given, raced, rows>>,
           mishaps' \in 0..MaxMishaps,
           \/ exec' = exec /\ st = "running"
           \/ \E ok \in BOOLEAN : exec' = Noted(t, ok) /\ (st \in {"failed", "lost"} => ~ok)
    PROVE  WorkflowTypeOK' /\ ExecutorInv'
<1>1. PICK u \in Tasks : /\ u.by = t.by /\ tasks' = (tasks \ {t}) \cup {u} /\ t \in tasks /\ t.by \in Executors
    BY TaskIs
<1>2. PICK e \in Executors : e = t.by
    BY <1>1
<1>3. OwnInv(e) /\ exec[e] \in Execs /\ exec \in [Executors -> Execs]
    BY WorkflowFacts DEF ExecutorInv, OwnInv
<1>4. /\ exec' \in [Executors -> Execs] /\ \A d \in Executors \ {e} : exec'[d] = exec[d]
      /\ exec'[e].at = exec[e].at /\ exec'[e].cur = exec[e].cur /\ exec'[e].visited = exec[e].visited
      /\ exec'[e].attempt = exec[e].attempt /\ exec'[e].row = exec[e].row /\ exec'[e].done = exec[e].done
      /\ exec'[e].read = exec[e].read
      /\ exec[e].at \notin Ended => /\ exec'[e].ok => exec[e].ok
                                    /\ st \in {"failed", "lost"} => ~exec'[e].ok
    <2>1. CASE exec' = exec /\ st = "running"
        BY <1>3, <2>1
    <2>2. ASSUME NEW ok \in BOOLEAN, exec' = Noted(t, ok), st \in {"failed", "lost"} => ~ok, exec[e].at \notin Ended
          PROVE  /\ exec' \in [Executors -> Execs] /\ \A d \in Executors \ {e} : exec'[d] = exec[d]
                 /\ exec'[e].at = exec[e].at /\ exec'[e].cur = exec[e].cur /\ exec'[e].visited = exec[e].visited
                 /\ exec'[e].attempt = exec[e].attempt /\ exec'[e].row = exec[e].row /\ exec'[e].done = exec[e].done
                 /\ exec'[e].read = exec[e].read
                 /\ exec'[e].ok => exec[e].ok
                 /\ st \in {"failed", "lost"} => ~exec'[e].ok
        <3>0. PICK b \in BOOLEAN : b = (exec[e].ok /\ ok)
            OBVIOUS
        <3> DEFINE y == [exec[e] EXCEPT !.ok = b]
        <3>1. exec' = [exec EXCEPT ![e] = y]
            BY <1>2, <2>2, <3>0 DEF Noted
        <3>2. /\ y \in Execs /\ y.at = exec[e].at /\ y.cur = exec[e].cur /\ y.visited = exec[e].visited
              /\ y.attempt = exec[e].attempt /\ y.row = exec[e].row /\ y.done = exec[e].done
              /\ y.read = exec[e].read /\ y.ok = b
            BY <1>3 DEF Execs
        <3> HIDE DEF y
        <3>3. exec' \in [Executors -> Execs] /\ exec'[e] = y /\ \A d \in Executors \ {e} : exec'[d] = exec[d]
            BY <3>1, <3>2, ExecIs
        <3> QED BY <2>2, <3>0, <3>2, <3>3
    <2>3. CASE exec[e].at \in Ended
        BY <1>2, <1>3, <2>3 DEF Noted
    <2> QED BY <2>1, <2>2, <2>3
<1>5. OwnInv(e)'
    BY <1>2, <1>3, <1>4, TaskKeepsOwn
<1>6. /\ \A v \in tasks : v.by # e => v \in tasks'
      /\ \A v \in tasks' : v.by # e => v \in tasks
    BY <1>1, <1>2
<1>7. ExecutorInv'
    BY <1>4, <1>5, <1>6, WorkflowFacts, OwnStep
<1>8. tasks' \subseteq Tasks
    BY <1>1 DEF WorkflowTypeOK
<1> QED BY <1>4, <1>7, <1>8 DEF WorkflowTypeOK

LEMMA DropKeeps ==
    ASSUME WorkflowTypeOK, ExecutorInv, NEW e \in Executors, NEW crash \in BOOLEAN, DropExecutor(e, crash)
    PROVE  WorkflowTypeOK' /\ ExecutorInv'
<1>1. /\ Go(e, "dropped") /\ "dropped" \in Places /\ "dropped" \in Ended /\ OwnInv(e)
      /\ UNCHANGED <<steps, status, output, signals, sent, given, raced, rows>> /\ mishaps' \in 0..MaxMishaps
    <2>1. mishaps' = mishaps + 1 /\ mishaps < MaxMishaps /\ mishaps \in 0..MaxMishaps
        BY DEF DropExecutor, WorkflowTypeOK
    <2>2. mishaps' \in 0..MaxMishaps
        BY <2>1, WorkflowAssumption
    <2> QED BY <2>2 DEF DropExecutor, ExecutionAlone, SignalsAlone, ExecutorInv, OwnInv, Places, Ended
<1>2. CASE ~crash
    <2>1. tasks' = tasks
        BY <1>2 DEF DropExecutor
    <2>2. exec' \in [Executors -> Execs] /\ ExecutorInv'
        BY <1>1, <2>1, GoStep
    <2> QED BY <1>1, <2>1, <2>2 DEF WorkflowTypeOK
<1>3. CASE crash
    <2>1. tasks' = {IF t \in Live /\ t.by = e THEN [t EXCEPT !.state = "lost"] ELSE t : t \in tasks}
        BY <1>3 DEF DropExecutor
    <2>2. /\ exec' \in [Executors -> Execs] /\ \A d \in Executors \ {e} : exec'[d] = exec[d]
          /\ exec'[e].at = "dropped" /\ exec'[e].attempt = 1 /\ exec'[e].visited = exec[e].visited
        BY <1>1, EndIs
    <2>3. /\ OwnInv(e)' /\ tasks' \subseteq Tasks
          /\ \A t \in tasks : t.by # e => t \in tasks'
          /\ \A t \in tasks' : t.by # e => t \in tasks
        BY <1>1, <2>1, <2>2, CrashKeepsOwn
    <2>4. ExecutorInv'
        BY <1>1, <2>2, <2>3, WorkflowFacts, OwnStep
    <2> QED BY <1>1, <2>2, <2>3, <2>4 DEF WorkflowTypeOK
<1> QED BY <1>2, <1>3

(***************************************************************************)
(* A call of the executor that moves it and writes at most the status or   *)
(* the output of the execution.                                            *)
(***************************************************************************)
LEMMA CallKeeps ==
    ASSUME WorkflowTypeOK, ExecutorInv, NEW e \in Executors,
           \/ StartExecution(e) \/ BeginRunning(e) \/ ResumeExecution(e) \/ InvalidStep(e) \/ JoinBatch(e)
           \/ DeleteSignal(e) \/ WriteOutput(e) \/ MarkCompleted(e) \/ MarkFailed(e) \/ StorageFails(e)
    PROVE  WorkflowTypeOK' /\ ExecutorInv'
<1>1. /\ UNCHANGED <<steps, rows, tasks, sent, raced>>
      /\ status' \in {"none", "pending", "running", "completed", "failed", "cancelled"}
      /\ output' \in Executors \cup {Nobody}
    BY DEF StartExecution, BeginRunning, ResumeExecution, InvalidStep, JoinBatch, DeleteSignal, WriteOutput,
           MarkCompleted, MarkFailed, StorageFails, ExecutionAlone, SignalsAlone, WorkflowTypeOK
<1>2. mishaps' \in 0..MaxMishaps
    <2>1. mishaps \in 0..MaxMishaps /\ MaxMishaps \in Nat
        BY WorkflowAssumption DEF WorkflowTypeOK
    <2>2. mishaps' = mishaps \/ (mishaps < MaxMishaps /\ mishaps' = mishaps + 1)
        BY DEF StartExecution, BeginRunning, ResumeExecution, InvalidStep, JoinBatch, DeleteSignal, WriteOutput,
               MarkCompleted, MarkFailed, StorageFails
    <2> QED BY <2>1, <2>2
<1>3. signals' \in Seq(Signal) /\ given' \in [Signal -> SUBSET Executors]
    <2>1. CASE DeleteSignal(e)
        <3>1. /\ signals' = (IF signals = <<>> THEN signals ELSE Tail(signals)) /\ signals \in Seq(Signal)
              /\ given' = [given EXCEPT ![exec[e].read] = @ \cup {e}] /\ given \in [Signal -> SUBSET Executors]
            BY <2>1 DEF DeleteSignal, WorkflowTypeOK
        <3>2. signals' \in Seq(Signal)
            BY <3>1, HeadTailProperties
        <3> QED BY <3>1, <3>2
    <2>2. CASE ~DeleteSignal(e)
        BY <2>2 DEF StartExecution, BeginRunning, ResumeExecution, InvalidStep, JoinBatch, WriteOutput,
           MarkCompleted, MarkFailed, StorageFails, SignalsAlone, WorkflowTypeOK
    <2> QED BY <2>1, <2>2
<1>4. (steps = <<>> \/ Len(steps) # 0)
    BY WorkflowFacts, EmptySeq
<1>5. exec' \in [Executors -> Execs] /\ ExecutorInv'
    <2>1. CASE StartExecution(e)
        <3>1. Go(e, "begin") /\ "begin" \in Places /\ exec[e].at = "idle" /\ e = Starter
            BY <2>1 DEF StartExecution, At, Places
        <3> QED BY <1>1, <3>1, GoStep
    <2>2. CASE BeginRunning(e) \/ ResumeExecution(e)
        <3>1. PICK l \in {"complete", "step"} : Go(e, l) /\ (l = "step" => steps # <<>>) /\ exec[e].at \in {"idle", "begin"}
            BY <2>2 DEF BeginRunning, ResumeExecution, At
        <3>2. l \in Places
            BY DEF Places
        <3> QED BY <1>1, <1>4, <3>1, <3>2, GoStep
    <2>3. CASE InvalidStep(e)
        <3>1. Go(e, "fail") /\ "fail" \in Places /\ exec[e].at \notin {"join"} \cup Ended
            BY <2>3 DEF InvalidStep, At, Places, Ended
        <3> QED BY <1>1, <3>1, GoStep
    <2>4. CASE JoinBatch(e)
        <3>1. PICK l \in {"spawn", "settle"} : l = IF exec[e].ok /\ exec[e].done < Now(e).items THEN "spawn" ELSE "settle"
            OBVIOUS
        <3>2. Go(e, l) /\ l \in Places /\ exec[e].at = "join" /\ \A t \in Live : t.by # e
            BY <2>4, <3>1 DEF JoinBatch, At, Places
        <3> QED BY <1>1, <3>1, <3>2, GoStep
    <2>5. CASE DeleteSignal(e)
        <3>1. Go(e, "settle") /\ "settle" \in Places /\ exec[e].at = "delete"
            BY <2>5 DEF DeleteSignal, At, Places
        <3> QED BY <1>1, <3>1, GoStep
    <2>6. CASE WriteOutput(e)
        <3>1. Go(e, "complete") /\ "complete" \in Places /\ exec[e].at = "output"
            BY <2>6 DEF WriteOutput, At, Places
        <3> QED BY <1>1, <3>1, GoStep
    <2>7. CASE MarkCompleted(e)
        <3>1. Go(e, "completed") /\ "completed" \in Places /\ "completed" \in Ended /\ exec[e].at = "complete"
            BY <2>7 DEF MarkCompleted, At, Places, Ended
        <3> QED BY <1>1, <3>1, GoStep
    <2>8. CASE MarkFailed(e)
        <3>1. Go(e, "failed") /\ "failed" \in Places /\ "failed" \in Ended
            BY <2>8 DEF MarkFailed, Places, Ended
        <3> QED BY <1>1, <3>1, GoStep
    <2>9. CASE StorageFails(e)
        <3>1. PICK l \in {"fail", "errored"} : Go(e, l) /\ (l = "fail" => exec[e].at \in {"step", "work", "delete", "settle", "spawn"})
            BY <2>9 DEF StorageFails
        <3>2. l \in Places /\ (l # "errored" => exec[e].at \notin {"join"} \cup Ended) /\ "errored" \in Ended
            BY <3>1 DEF Places, Ended
        <3> QED BY <1>1, <3>1, <3>2, GoStep
    <2> QED BY <2>1, <2>2, <2>3, <2>4, <2>5, <2>6, <2>7, <2>8, <2>9
<1> QED BY <1>1, <1>2, <1>3, <1>5 DEF WorkflowTypeOK

LEMMA SendAndCancelKeep ==
    ASSUME WorkflowTypeOK, ExecutorInv, SendSignal \/ CancelExecution \/ UNCHANGED workflowVars
    PROVE  WorkflowTypeOK' /\ ExecutorInv'
<1>1. UNCHANGED <<steps, rows, exec, tasks, output, given, raced, mishaps>>
    BY DEF SendSignal, CancelExecution, ExecutionAlone, SignalsAlone, workflowVars
<1>2. ExecutorInv'
    <2> SUFFICES ASSUME NEW d \in Executors PROVE OwnInv(d)'
        BY DEF ExecutorInv, OwnInv
    <2>1. OwnInv(d) /\ Len(rows) \in Nat
        BY WorkflowFacts DEF ExecutorInv, OwnInv
    <2> QED BY <1>1, <2>1, OtherKeeps
<1>3. signals' \in Seq(Signal) /\ sent' \in 0..MaxSignals
    <2>1. CASE SendSignal
        <3>1. /\ sent' = sent + 1 /\ sent \in 0..MaxSignals /\ sent < MaxSignals /\ MaxSignals \in Nat
              /\ signals' = Append(signals, sent + 1) /\ signals \in Seq(Signal)
            BY <2>1, WorkflowAssumption DEF SendSignal, WorkflowTypeOK
        <3>2. sent + 1 \in Signal /\ sent' \in 0..MaxSignals
            BY <3>1 DEF Signal
        <3> QED BY <3>1, <3>2, AppendProperties
    <2>2. CASE ~SendSignal
        BY <2>2 DEF CancelExecution, SignalsAlone, workflowVars, WorkflowTypeOK
    <2> QED BY <2>1, <2>2
<1>4. status' \in {"none", "pending", "running", "completed", "failed", "cancelled"}
    BY DEF SendSignal, CancelExecution, ExecutionAlone, workflowVars, WorkflowTypeOK
<1> QED BY <1>1, <1>2, <1>3, <1>4 DEF WorkflowTypeOK

LEMMA ExecutorsStep ==
    ASSUME WorkflowTypeOK, ExecutorInv, [WorkflowNext]_workflowVars
    PROVE  WorkflowTypeOK' /\ ExecutorInv'
<1>1. ASSUME NEW e \in Executors, ExecutorStep(e) PROVE WorkflowTypeOK' /\ ExecutorInv'
    BY <1>1, CallKeeps, EnterStepKeeps, WaitEndsKeeps, RouteChoiceKeeps, SpawnBatchKeeps, SpawnSomeKeeps,
       SettleStepStep,
       SignalStepKeeps, TaskEndsKeeps, DecideKeeps DEF ExecutorStep
<1>2. ASSUME NEW t \in Live, TaskRow(t) PROVE WorkflowTypeOK' /\ ExecutorInv'
    <2>1. /\ Become(t, "running") /\ UNCHANGED <<steps, status, output, signals, sent, given, raced, rows>>
          /\ exec' = exec /\ mishaps' \in 0..MaxMishaps
        BY <1>2 DEF TaskRow, ExecutionAlone, SignalsAlone, WorkflowTypeOK
    <2> QED BY <2>1, TaskStepKeeps
<1>3. ASSUME NEW t \in Live, NEW ok \in BOOLEAN, TaskDone(t, ok) PROVE WorkflowTypeOK' /\ ExecutorInv'
    <2>1. PICK st \in {"completed", "failed"} : st = IF ok THEN "completed" ELSE "failed"
        OBVIOUS
    <2>2. /\ Become(t, st) /\ UNCHANGED <<steps, status, output, signals, sent, given, raced, rows>>
          /\ exec' = Noted(t, ok) /\ mishaps' \in 0..MaxMishaps
        BY <1>3, <2>1 DEF TaskDone, ExecutionAlone, SignalsAlone, WorkflowTypeOK
    <2> QED BY <2>1, <2>2, TaskStepKeeps
<1>4. ASSUME NEW t \in Live, TaskStorageFails(t) PROVE WorkflowTypeOK' /\ ExecutorInv'
    <2>1. mishaps' \in 0..MaxMishaps
        BY <1>4, WorkflowAssumption DEF TaskStorageFails, WorkflowTypeOK
    <2>2. /\ Become(t, "lost") /\ UNCHANGED <<steps, status, output, signals, sent, given, raced, rows>>
          /\ exec' = Noted(t, FALSE)
        BY <1>4 DEF TaskStorageFails, ExecutionAlone, SignalsAlone
    <2> QED BY <2>1, <2>2, TaskStepKeeps
<1> QED BY <1>1, <1>2, <1>3, <1>4, CallKeeps, DropKeeps, SendAndCancelKeep DEF WorkflowNext, WorkflowGoesOn

(***************************************************************************)
(* Where a call may leave its executor: check_signal is the one way to     *)
(* "delete", and an end with a result writes that result.                  *)
(***************************************************************************)
LEMMA MovesIs ==
    ASSUME WorkflowTypeOK, NEW e \in Executors, NEW l \in Places, Go(e, l)
    PROVE  (\A d \in Executors \ {e} : exec'[d] = exec[d]) /\ exec'[e].at = l
BY GoIs, EndIs DEF Places

LEMMA WhereTo ==
    ASSUME WorkflowTypeOK, ExecutorInv, NEW e \in Executors,
           \/ ExecutorStep(e) \/ StartExecution(e) \/ ResumeExecution(e) \/ StorageFails(e)
           \/ \E crash \in BOOLEAN : DropExecutor(e, crash)
    PROVE  /\ \A d \in Executors \ {e} : exec'[d] = exec[d]
           /\ exec'[e].at # "idle" /\ (exec'[e].at = "delete" => ReadSignal(e))
           /\ exec'[e].at \in {"completed", "failed"} => status' \notin {"pending", "running"}
<1>1. exec \in [Executors -> Execs] /\ exec[e] \in Execs
    BY WorkflowFacts
<1>2. CASE \/ BeginRunning(e) \/ InvalidStep(e) \/ SpawnSome(e) \/ JoinBatch(e) \/ DeleteSignal(e) \/ WriteOutput(e)
           \/ StartExecution(e) \/ ResumeExecution(e) \/ StorageFails(e) \/ (\E t \in 0..(Len(steps) + 1) : Decide(e, t))
           \/ \E crash \in BOOLEAN : DropExecutor(e, crash)
    <2>1. PICK l \in {"complete", "step", "fail", "spawn", "settle", "route", "begin", "errored", "dropped"} : Go(e, l)
        BY <1>2 DEF BeginRunning, InvalidStep, SpawnSome, JoinBatch, DeleteSignal, WriteOutput, StartExecution,
                    ResumeExecution, StorageFails, Decide, DropExecutor
    <2>2. l \in Places
        BY DEF Places, Ended
    <2> QED BY <2>1, <2>2, MovesIs
<1>3. CASE MarkCompleted(e) \/ MarkFailed(e)
    <2>1. PICK l \in {"completed", "failed"} : Go(e, l) /\ status' = l
        BY <1>3 DEF MarkCompleted, MarkFailed
    <2>2. l \in Places
        BY DEF Places, Ended
    <2> QED BY <2>1, <2>2, MovesIs
<1>4. ASSUME NEW y, exec' = [exec EXCEPT ![e] = y]
      PROVE  exec'[e] = y /\ \A d \in Executors \ {e} : exec'[d] = exec[d]
    BY <1>1, <1>4
<1>5. exec[e].at \in Working => Onward(exec[e]).at \in {"step", "output"}
    BY <1>1, OnwardIs DEF ExecutorInv, InStep
<1>6. CASE EnterStep(e)
    <2>1. CASE \E l \in {"output", "fail"} : Go(e, l)
        <3>1. PICK l \in {"output", "fail"} : Go(e, l)
            BY <2>1
        <3> QED BY <3>1, MovesIs DEF Places
    <2>2. CASE ~\E l \in {"output", "fail"} : Go(e, l)
        <3>1. exec' = [exec EXCEPT ![e].at = IF Is(e, {"parallel", "map"}) THEN "spawn" ELSE "work",
                                    ![e].visited = @ \cup {exec[e].cur},
                                    ![e].row = Len(rows) + 1, ![e].ok = TRUE, ![e].done = 0]
            BY <1>6, <2>2 DEF EnterStep
        <3>2. exec'[e].at \in {"spawn", "work"} /\ \A d \in Executors \ {e} : exec'[d] = exec[d]
            BY <1>1, <3>1 DEF Execs
        <3> QED BY <3>2
    <2> QED BY <2>1, <2>2
<1>7. ASSUME NEW ok \in BOOLEAN, TaskEnds(e, ok)
      PROVE  exec'[e].at \in {"step", "output", "fail"} /\ \A d \in Executors \ {e} : exec'[d] = exec[d]
    <2> DEFINE y == IF ok THEN Onward(exec[e])
                    ELSE IF Retry(e) THEN [[exec[e] EXCEPT !.at = "step"] EXCEPT !.attempt = exec[e].attempt + 1]
                    ELSE [exec[e] EXCEPT !.at = "fail"]
    <2>1. exec' = [exec EXCEPT ![e] = y] /\ exec[e].at = "work"
        BY <1>7 DEF TaskEnds, At
    <2>2. y.at \in {"step", "output", "fail"}
        BY <1>1, <1>5, <2>1 DEF Execs, Working
    <2> HIDE DEF y
    <2> QED BY <1>4, <2>1, <2>2
<1>8. CASE WaitEnds(e) \/ SettleStep(e)
    <2>1. PICK y \in {Onward(exec[e]), [exec[e] EXCEPT !.at = "fail"]} : exec' = [exec EXCEPT ![e] = y]
        BY <1>8 DEF WaitEnds, SettleStep
    <2>2. exec[e].at \in Working
        BY <1>8 DEF WaitEnds, SettleStep, At, Working
    <2>3. y.at \in {"step", "output", "fail"}
        BY <1>1, <1>5, <2>1, <2>2 DEF Execs
    <2> QED BY <1>4, <2>1, <2>3
<1>9. CASE RouteChoice(e)
    <2>1. PICK t : exec' = [exec EXCEPT ![e] =
                  IF Exists(t)
                  THEN [[[[exec[e] EXCEPT !.at = "step"] EXCEPT !.cur = t] EXCEPT !.index = t] EXCEPT !.onChoice = TRUE]
                  ELSE [exec[e] EXCEPT !.at = "output"]]
        BY <1>9 DEF RouteChoice
    <2>2. exec'[e].at \in {"step", "output"} /\ \A d \in Executors \ {e} : exec'[d] = exec[d]
        BY <1>1, <2>1 DEF Execs
    <2> QED BY <2>2
<1>10. CASE SpawnBatch(e)
    <2>1. CASE Go(e, "dropped")
        BY <2>1, MovesIs DEF Places, Ended
    <2>2. CASE ~Go(e, "dropped")
        <3>1. PICK last : exec' = [exec EXCEPT ![e].at = "join", ![e].done = last]
            BY <1>10, <2>2 DEF SpawnBatch
        <3>2. exec'[e].at = "join" /\ \A d \in Executors \ {e} : exec'[d] = exec[d]
            BY <1>1, <3>1 DEF Execs
        <3> QED BY <3>2
    <2> QED BY <2>1, <2>2
<1>11. CASE ReadSignal(e)
    <2>1. exec' = [exec EXCEPT ![e].at = "delete", ![e].read = Head(signals)]
        BY <1>11 DEF ReadSignal
    <2>2. exec'[e].at = "delete" /\ \A d \in Executors \ {e} : exec'[d] = exec[d]
        BY <1>1, <2>1 DEF Execs
    <2> QED BY <1>11, <2>2
<1>12. CASE SignalTimeout(e)
    <2>1. exec' = [exec EXCEPT ![e].at = "settle", ![e].ok = FALSE]
        BY <1>12 DEF SignalTimeout
    <2>2. exec'[e].at = "settle" /\ \A d \in Executors \ {e} : exec'[d] = exec[d]
        BY <1>1, <2>1 DEF Execs
    <2> QED BY <2>2
<1> QED BY <1>2, <1>3, <1>6, <1>7, <1>8, <1>9, <1>10, <1>11, <1>12 DEF ExecutorStep

(***************************************************************************)
(* A step of a task moves no executor.                                     *)
(***************************************************************************)
LEMMA TasksMoveNobody ==
    ASSUME WorkflowTypeOK, NEW t \in Live, NEW d \in Executors,
           TaskRow(t) \/ TaskStorageFails(t) \/ \E ok \in BOOLEAN : TaskDone(t, ok)
    PROVE  exec'[d].at = exec[d].at /\ exec'[d].read = exec[d].read
<1>1. exec \in [Executors -> Execs] /\ exec[d] \in Execs /\ t.by \in Executors /\ exec[t.by] \in Execs
    BY WorkflowFacts DEF Live, WorkflowTypeOK, Tasks
<1>2. exec' = exec \/ \E ok \in BOOLEAN : exec' = [exec EXCEPT ![t.by].ok = @ /\ ok]
    BY DEF TaskRow, TaskStorageFails, TaskDone, Noted
<1>3. ASSUME NEW ok \in BOOLEAN, exec' = [exec EXCEPT ![t.by].ok = @ /\ ok]
      PROVE  exec'[d].at = exec[d].at /\ exec'[d].read = exec[d].read
    <2>1. PICK b : exec' = [exec EXCEPT ![t.by] = [exec[t.by] EXCEPT !.ok = b]]
        BY <1>3
    <2> QED BY <1>1, <2>1 DEF Execs
<1> QED BY <1>2, <1>3

(***************************************************************************)
(* The signals: stored once each, and given to one executor as long as     *)
(* check_signal is not raced.                                              *)
(***************************************************************************)
LEMMA SignalsKeep ==
    ASSUME SignalsInOrder, SignalsOnce, UNCHANGED <<signals, sent, given, raced>>,
           \A d \in Executors : exec'[d].at = "delete" => exec[d].at = "delete" /\ exec'[d].read = exec[d].read
    PROVE  SignalsInOrder' /\ SignalsOnce'
BY DEF SignalsInOrder, SignalsOnce, At, ToSet

LEMMA ReadSignalStep ==
    ASSUME WorkflowTypeOK, ExecutorInv, SignalsInOrder, SignalsOnce, NEW e \in Executors, ReadSignal(e)
    PROVE  SignalsInOrder' /\ SignalsOnce'
<1>1. /\ signals # <<>> /\ UNCHANGED <<signals, sent, given>> /\ exec[e].at # "delete"
      /\ raced' = (raced \/ \E d \in Executors : exec[d].at = "delete")
      /\ exec' = [exec EXCEPT ![e].at = "delete", ![e].read = Head(signals)]
    BY DEF ReadSignal, At
<1>2. exec'[e].at = "delete" /\ exec'[e].read = Head(signals) /\ \A d \in Executors \ {e} : exec'[d] = exec[d]
    BY <1>1, WorkflowFacts DEF Execs
<1>3. Head(signals) <= sent
    <2>1. signals \in Seq(Signal) /\ Len(signals) \in Nat /\ Len(signals) # 0
        BY <1>1, WorkflowFacts, EmptySeq
    <2>2. 1 \in 1..Len(signals) /\ Head(signals) = signals[1]
        BY <1>1, <2>1
    <2> QED BY <2>2 DEF SignalsInOrder
<1>4. signals' = signals /\ sent' = sent /\ given' = given /\ signals # <<>>
    BY <1>1
<1>5. ~raced' => ~raced /\ \A d \in Executors : exec[d].at # "delete"
    BY <1>1, Zenon
<1>6. SignalsInOrder'
    BY <1>2, <1>3, <1>4, <1>5 DEF SignalsInOrder, At
<1>7. SignalsOnce'
    BY <1>4, <1>5 DEF SignalsOnce, ToSet
<1> QED BY <1>6, <1>7

LEMMA SendSignalStep ==
    ASSUME WorkflowTypeOK, SignalsInOrder, SignalsOnce, SendSignal
    PROVE  SignalsInOrder' /\ SignalsOnce'
<1>1. /\ sent \in Nat /\ sent' = sent + 1 /\ signals' = Append(signals, sent + 1) /\ signals \in Seq(Signal)
      /\ UNCHANGED <<given, raced, exec>> /\ Len(signals) \in Nat /\ sent + 1 \in Signal /\ MaxSignals \in Nat
      /\ \A i \in 1..Len(signals) : signals[i] \in Nat
    <2>1. sent \in 0..MaxSignals /\ MaxSignals \in Nat /\ sent < MaxSignals
        BY WorkflowAssumption DEF WorkflowTypeOK, SendSignal
    <2>2. \A i \in 1..Len(signals) : signals[i] \in Signal
        BY WorkflowFacts, ElementOfSeq
    <2> QED BY <2>1, <2>2, WorkflowFacts DEF SendSignal, Signal
<1>2. /\ Len(signals') = Len(signals) + 1 /\ signals'[Len(signals) + 1] = sent + 1
      /\ \A i \in 1..Len(signals) : signals'[i] = signals[i]
    BY <1>1, AppendProperties
<1>3. \A i \in 1..Len(signals') : (i \in 1..Len(signals) /\ signals'[i] = signals[i] /\ signals[i] <= sent)
                                  \/ (i = Len(signals) + 1 /\ signals'[i] = sent + 1)
    BY <1>1, <1>2 DEF SignalsInOrder
<1>4. \A i, j \in 1..Len(signals') : signals'[i] = signals'[j] => i = j
    BY <1>1, <1>3 DEF SignalsInOrder
<1>5. \A i \in 1..Len(signals') : signals'[i] <= sent'
    BY <1>1, <1>3
<1>6. \A s \in Signal : s > sent' => given'[s] = {}
    BY <1>1 DEF SignalsInOrder, Signal
<1>7. \A d \in Executors : exec[d].at = "delete" => exec[d].read \in Nat /\ exec[d].read <= sent'
    BY <1>1, ExecFacts DEF SignalsInOrder, At
<1>8. signals # <<>> => signals' # <<>> /\ Head(signals') = Head(signals)
    <2> SUFFICES ASSUME signals # <<>> PROVE signals' # <<>> /\ Head(signals') = Head(signals)
        OBVIOUS
    <2>1. Len(signals) # 0 /\ 1 \in 1..Len(signals) /\ Head(signals) = signals[1]
        BY <1>1, EmptySeq
    <2>2. Len(signals') # 0 /\ signals' \in Seq(Signal)
        BY <1>1, <1>2, AppendProperties
    <2>3. signals' # <<>> /\ Head(signals') = signals'[1]
        BY <2>2, EmptySeq
    <2> QED BY <1>2, <2>1, <2>3
<1>9. SignalsInOrder'
    BY <1>1, <1>4, <1>5, <1>6, <1>7, <1>8 DEF SignalsInOrder, At
<1>10. SignalsOnce'
    <2> SUFFICES ASSUME ~raced, NEW s \in 1..(sent + 1)
                 PROVE  /\ \A d, e \in given[s] : d = e
                        /\ (s \in ToSet(signals')) # (given[s] # {})
        BY <1>1 DEF SignalsOnce
    <2>1. /\ ToSet(signals) = {signals[i] : i \in 1..Len(signals)}
          /\ ToSet(signals') = {signals'[i] : i \in 1..Len(signals')}
        <3>1. signals' \in Seq(Signal)
            BY <1>1, AppendProperties
        <3> QED BY <1>1, <3>1, LenProperties DEF ToSet
    <2>2. CASE s = sent + 1
        <3>1. given[s] = {}
            BY <1>1, <2>2 DEF SignalsInOrder, Signal
        <3>2. Len(signals) + 1 \in 1..Len(signals')
            BY <1>1, <1>2
        <3>3. s \in ToSet(signals')
            BY <1>2, <2>1, <2>2, <3>2
        <3> QED BY <3>1, <3>3
    <2>3. CASE s # sent + 1
        <3>1. s \in 1..sent
            BY <1>1, <2>3
        <3>2. (s \in ToSet(signals')) <=> (s \in ToSet(signals))
            <4>1. ASSUME s \in ToSet(signals') PROVE s \in ToSet(signals)
                <5>1. PICK i \in 1..Len(signals') : s = signals'[i]
                    BY <2>1, <4>1
                <5> QED BY <1>3, <2>1, <2>3, <5>1
            <4>2. ASSUME s \in ToSet(signals) PROVE s \in ToSet(signals')
                <5>1. PICK i \in 1..Len(signals) : s = signals[i]
                    BY <2>1, <4>2
                <5>2. i \in 1..Len(signals')
                    BY <1>1, <1>2
                <5> QED BY <1>2, <2>1, <5>1, <5>2
            <4> QED BY <4>1, <4>2
        <3> QED BY <3>1, <3>2 DEF SignalsOnce
    <2> QED BY <2>2, <2>3
<1> QED BY <1>9, <1>10

LEMMA DeleteSignalStep ==
    ASSUME WorkflowTypeOK, ExecutorInv, SignalsInOrder, SignalsOnce, NEW e \in Executors, DeleteSignal(e)
    PROVE  SignalsInOrder' /\ SignalsOnce'
<1>1. PICK r \in Signal : r = exec[e].read /\ r <= sent
    BY DEF DeleteSignal, At, ExecutorInv, InStep, SignalsInOrder
<1>2. /\ exec[e].at = "delete" /\ UNCHANGED <<sent, raced>> /\ given' = [given EXCEPT ![r] = @ \cup {e}]
      /\ signals' = (IF signals = <<>> THEN signals ELSE Tail(signals))
      /\ given \in [Signal -> SUBSET Executors]
    BY <1>1 DEF DeleteSignal, At, WorkflowTypeOK
<1>3. exec'[e].at = "settle" /\ \A d \in Executors \ {e} : exec'[d] = exec[d]
    BY MovesIs DEF DeleteSignal, Places
<1>4. /\ signals \in Seq(Signal) /\ Len(signals) \in Nat /\ sent \in Nat /\ MaxSignals \in Nat /\ sent <= MaxSignals
      /\ \A i \in 1..Len(signals) : signals[i] \in Signal
    <2>1. sent \in 0..MaxSignals /\ MaxSignals \in Nat
        BY WorkflowAssumption DEF WorkflowTypeOK
    <2>2. \A i \in 1..Len(signals) : signals[i] \in Signal
        BY WorkflowFacts, ElementOfSeq
    <2> QED BY <2>1, <2>2, WorkflowFacts
<1>5. CASE signals = <<>>
    <2>1. raced /\ signals' = signals
        BY <1>2, <1>5 DEF SignalsInOrder, At
    <2>2. \A s \in Signal : s > sent => given'[s] = {}
        BY <1>1, <1>2, <1>4 DEF SignalsInOrder, Signal
    <2> QED BY <1>2, <1>3, <2>1, <2>2 DEF SignalsInOrder, SignalsOnce, At
<1>6. CASE signals # <<>>
    <2>1. /\ signals' \in Seq(Signal) /\ Len(signals') = Len(signals) - 1 /\ Len(signals) # 0
          /\ \A i \in 1..Len(signals') : signals'[i] = signals[i + 1]
        <3>1. signals' = Tail(signals)
            BY <1>2, <1>6
        <3> QED BY <1>4, <1>6, <3>1, HeadTailProperties, EmptySeq
    <2>2. \A i \in 1..Len(signals') : i + 1 \in 1..Len(signals) /\ i + 1 # 1 /\ i \in Nat
        BY <1>4, <2>1
    <2>3. \A i, j \in 1..Len(signals') : signals'[i] = signals'[j] => i = j
        <3> SUFFICES ASSUME NEW i \in 1..Len(signals'), NEW j \in 1..Len(signals'), signals'[i] = signals'[j]
                     PROVE  i = j
            OBVIOUS
        <3>1. i + 1 = j + 1
            BY <2>1, <2>2 DEF SignalsInOrder
        <3> QED BY <2>2, <3>1
    <2>4. \A i \in 1..Len(signals') : signals'[i] <= sent
        BY <2>1, <2>2 DEF SignalsInOrder
    <2>5. \A s \in Signal : s > sent => given'[s] = {}
        BY <1>1, <1>2, <1>4 DEF SignalsInOrder, Signal
    <2>6. ~raced => \A d \in Executors : exec'[d].at # "delete"
        BY <1>2, <1>3 DEF SignalsInOrder, At
    <2>7. \A d \in Executors : exec'[d].at = "delete" => exec'[d].read <= sent
        BY <1>3 DEF SignalsInOrder, At
    <2>8. SignalsInOrder'
        BY <1>2, <2>3, <2>4, <2>5, <2>6, <2>7 DEF SignalsInOrder, At
    <2>9. ASSUME ~raced, NEW s \in 1..sent
          PROVE  /\ \A c, d \in given'[s] : c = d
                 /\ (s \in ToSet(signals')) # (given'[s] # {})
        <3>1. r = signals[1] /\ 1 \in 1..Len(signals)
            <4>1. r = Head(signals) /\ 1 \in 1..Len(signals)
                BY <1>1, <1>2, <1>4, <2>1, <2>9 DEF SignalsInOrder, At
            <4> QED BY <1>4, <1>6, <4>1
        <3>2. /\ ToSet(signals) = {signals[i] : i \in 1..Len(signals)}
              /\ ToSet(signals') = {signals'[i] : i \in 1..Len(signals')}
            BY <1>4, <2>1, LenProperties DEF ToSet
        <3>3. /\ \A c, d \in given[s] : c = d
              /\ (s \in ToSet(signals)) # (given[s] # {})
            BY <2>9 DEF SignalsOnce
        <3>4. CASE s = r
            <4>1. given[s] = {}
                BY <3>1, <3>2, <3>3, <3>4
            <4>2. given'[s] = {e}
                BY <1>2, <3>4, <4>1
            <4>3. s \notin ToSet(signals')
                <5> SUFFICES ASSUME NEW i \in 1..Len(signals'), s = signals'[i] PROVE FALSE
                    BY <3>2
                <5> QED BY <2>1, <2>2, <3>1, <3>4 DEF SignalsInOrder
            <4> QED BY <4>2, <4>3
        <3>5. CASE s # r
            <4>1. given'[s] = given[s]
                <5>1. s \in Signal
                    BY <1>4, <2>9 DEF Signal
                <5> QED BY <1>2, <3>5, <5>1
            <4>2. ASSUME s \in ToSet(signals') PROVE s \in ToSet(signals)
                BY <2>1, <2>2, <3>2, <4>2
            <4>3. ASSUME s \in ToSet(signals) PROVE s \in ToSet(signals')
                <5>1. PICK i \in 1..Len(signals) : s = signals[i]
                    BY <3>2, <4>3
                <5>2. PICK j \in 1..Len(signals') : j + 1 = i
                    <6>1. i # 1
                        BY <3>1, <3>5, <5>1
                    <6>2. i - 1 \in 1..Len(signals') /\ (i - 1) + 1 = i
                        BY <1>4, <2>1, <6>1
                    <6> QED BY <6>2
                <5> QED BY <2>1, <3>2, <5>1, <5>2
            <4> QED BY <3>3, <4>1, <4>2, <4>3
        <3> QED BY <3>4, <3>5
    <2>10. SignalsOnce'
        BY <1>2, <2>9 DEF SignalsOnce
    <2> QED BY <2>8, <2>10
<1> QED BY <1>5, <1>6

LEMMA SignalsStep ==
    ASSUME WorkflowTypeOK, ExecutorInv, SignalsInOrder, SignalsOnce, [WorkflowNext]_workflowVars
    PROVE  SignalsInOrder' /\ SignalsOnce'
<1>1. ASSUME NEW e \in Executors, ~ReadSignal(e), ~DeleteSignal(e),
             \/ ExecutorStep(e) \/ StartExecution(e) \/ ResumeExecution(e) \/ StorageFails(e)
             \/ \E crash \in BOOLEAN : DropExecutor(e, crash)
      PROVE  SignalsInOrder' /\ SignalsOnce'
    <2>1. UNCHANGED <<signals, sent, given, raced>>
        BY <1>1 DEF ExecutorStep, BeginRunning, EnterStep, WaitEnds, InvalidStep, RouteChoice, SpawnBatch, SpawnSome,
             JoinBatch, SettleStep, SignalTimeout, WriteOutput, MarkCompleted, MarkFailed, TaskEnds, Decide,
             StartExecution, ResumeExecution, StorageFails, DropExecutor, SignalsAlone
    <2>2. \A d \in Executors : exec'[d].at = "delete" => exec'[d] = exec[d]
        BY <1>1, WhereTo
    <2> QED BY <2>1, <2>2, SignalsKeep
<1>2. ASSUME NEW t \in Live, TaskRow(t) \/ TaskStorageFails(t) \/ \E ok \in BOOLEAN : TaskDone(t, ok)
      PROVE  SignalsInOrder' /\ SignalsOnce'
    <2>1. UNCHANGED <<signals, sent, given, raced>>
        BY <1>2 DEF TaskRow, TaskStorageFails, TaskDone, SignalsAlone
    <2>2. \A d \in Executors : exec'[d].at = exec[d].at /\ exec'[d].read = exec[d].read
        BY <1>2, TasksMoveNobody
    <2> QED BY <2>1, <2>2, SignalsKeep
<1>3. CASE CancelExecution \/ UNCHANGED workflowVars
    <2>1. UNCHANGED <<signals, sent, given, raced, exec>>
        BY <1>3 DEF CancelExecution, SignalsAlone, workflowVars
    <2> QED BY <2>1, SignalsKeep
<1> QED BY <1>1, <1>2, <1>3, ReadSignalStep, DeleteSignalStep, SendSignalStep DEF WorkflowNext, WorkflowGoesOn

(***************************************************************************)
(* The executor that started the execution has it until it has ended.      *)
(***************************************************************************)
LEMMA StarterStep ==
    ASSUME WorkflowTypeOK, ExecutorInv, StarterHasIt, [WorkflowNext]_workflowVars
    PROVE  StarterHasIt'
<1>0. Starter \in Executors
    BY WorkflowAssumption
<1>1. ASSUME NEW e \in Executors,
             \/ ExecutorStep(e) \/ StartExecution(e) \/ ResumeExecution(e) \/ StorageFails(e)
             \/ \E crash \in BOOLEAN : DropExecutor(e, crash)
      PROVE  StarterHasIt'
    <2>1. status' = status \/ e = Starter \/ status' \notin {"pending", "running"}
        <3>1. BeginRunning(e) => e = Starter
            BY DEF BeginRunning, At, ExecutorInv, InStep
        <3> QED BY <1>1, <3>1 DEF ExecutorStep, EnterStep, WaitEnds, InvalidStep, RouteChoice, SpawnBatch, SpawnSome,
             JoinBatch, SettleStep, ReadSignal, DeleteSignal, SignalTimeout, WriteOutput, MarkCompleted, MarkFailed,
             TaskEnds, Decide, StartExecution, ResumeExecution, StorageFails, DropExecutor, ExecutionAlone
    <2>2. /\ \A d \in Executors \ {e} : exec'[d] = exec[d]
          /\ exec'[e].at # "idle"
          /\ exec'[e].at \in {"completed", "failed"} => status' \notin {"pending", "running"}
        BY <1>1, WhereTo
    <2> QED BY <1>0, <2>1, <2>2 DEF StarterHasIt
<1>2. ASSUME NEW t \in Live, TaskRow(t) \/ TaskStorageFails(t) \/ \E ok \in BOOLEAN : TaskDone(t, ok)
      PROVE  StarterHasIt'
    <2>1. status' = status
        BY <1>2 DEF TaskRow, TaskStorageFails, TaskDone, ExecutionAlone
    <2> QED BY <1>0, <1>2, <2>1, TasksMoveNobody DEF StarterHasIt
<1>3. CASE CancelExecution \/ SendSignal \/ UNCHANGED workflowVars
    BY <1>3 DEF CancelExecution, SendSignal, ExecutionAlone, workflowVars, StarterHasIt
<1> QED BY <1>1, <1>2, <1>3 DEF WorkflowNext, WorkflowGoesOn

(***************************************************************************)
(* What the executors keep bounds attempts and batches: the attempts of a  *)
(* task have different numbers, and so have the tasks of a step.           *)
(***************************************************************************)
LEMMA AttemptsBounded ==
    ASSUME WorkflowTypeOK, ExecutorInv
    PROVE  AttemptsInOrder
<1> SUFFICES ASSUME NEW e \in Executors, NEW s \in DOMAIN steps, steps[s].type = "task"
             PROVE  Cardinality(OwnRows(e, s)) <= steps[s].max_attempts /\ OneByOne(e, s)
    BY DEF AttemptsInOrder
<1>1. OneByOne(e, s) /\ \A k \in OwnRows(e, s) : rows[k].attempt \in 1..steps[s].max_attempts
    BY DEF ExecutorInv, AttemptsNumbered
<1>2. PICK n \in Nat : n = steps[s].max_attempts
    BY WorkflowFacts, StepFacts
<1> DEFINE f == [k \in OwnRows(e, s) |-> rows[k].attempt]
<1>3. \A j, k \in OwnRows(e, s) : rows[j].attempt = rows[k].attempt => j = k
    <2>1. \A k \in OwnRows(e, s) : k \in Nat /\ rows[k].attempt \in Nat
        BY <1>1, <1>2, WorkflowFacts DEF OwnRows, RowsOfStep
    <2>2. \A j, k \in OwnRows(e, s) : j < k => rows[j].attempt < rows[k].attempt
        BY <1>1 DEF OneByOne
    <2> QED BY <2>1, <2>2
<1>4. f \in Injection(OwnRows(e, s), 1..n)
    BY <1>1, <1>2, <1>3 DEF Injection, IsInjective
<1> HIDE DEF f
<1>5. IsFiniteSet(1..n) /\ Cardinality(1..n) = n
    <2>1. IsFiniteSet(1..n) /\ Cardinality(1..n) = IF 1 > n THEN 0 ELSE n - 1 + 1
        BY FS_Interval
    <2> QED BY <2>1
<1>6. Cardinality(OwnRows(e, s)) <= n
    BY <1>4, <1>5, FS_Injection
<1> QED BY <1>1, <1>2, <1>6

LEMMA KidsCounted ==
    ASSUME WorkflowTypeOK, NEW T \in SUBSET tasks, NEW a \in Nat, NEW n \in Nat,
           \A t, u \in T : t.kid = u.kid => t = u, \A t \in T : t.kid \in (a + 1)..(a + n)
    PROVE  /\ Cardinality(T) <= n
           /\ {t.kid : t \in T} = (a + 1)..(a + n) => Cardinality(T) = n
<1> DEFINE f == [t \in T |-> t.kid]
           K == (a + 1)..(a + n)
<1>1. f \in Injection(T, K)
    BY DEF Injection, IsInjective
<1>2. {t.kid : t \in T} = K => f \in Surjection(T, K)
    <2> SUFFICES ASSUME {t.kid : t \in T} = K PROVE f \in Surjection(T, K)
        OBVIOUS
    <2>1. f \in [T -> K]
        OBVIOUS
    <2>2. \A k \in K : \E t \in T : f[t] = k
        OBVIOUS
    <2> HIDE DEF f, K
    <2> QED BY <2>1, <2>2 DEF Surjection
<1>3. IsFiniteSet(K) /\ Cardinality(K) = n
    <2>1. IsFiniteSet(K) /\ Cardinality(K) = IF a + 1 > a + n THEN 0 ELSE (a + n) - (a + 1) + 1
        BY FS_Interval
    <2> HIDE DEF K
    <2> QED BY <2>1
<1> HIDE DEF f, K
<1>4. Cardinality(T) <= Cardinality(K) /\ (Cardinality(T) = Cardinality(K) <=> f \in Surjection(T, K))
    BY <1>1, <1>3, FS_Injection
<1> QED BY <1>2, <1>3, <1>4 DEF K

LEMMA KidsBounded ==
    ASSUME WorkflowTypeOK, ExecutorInv
    PROVE  KidsJoined
<1> SUFFICES ASSUME NEW e \in Executors, NEW s \in DOMAIN steps
             PROVE  /\ steps[s].type = "map" =>
                         Cardinality(TasksOf(e, s) \cap Live) <= steps[s].max_concurrency
                    /\ steps[s].type \in {"parallel", "map"} =>
                         \A k \in OwnRows(e, s) :
                           /\ rows[k].state # "running" => TasksOf(e, s) \cap Live = {}
                           /\ rows[k].state = "completed" =>
                                Cardinality({t \in TasksOf(e, s) : t.state = "completed"}) = steps[s].items
    BY DEF KidsJoined
<1>1. KidsInTurn(e) /\ steps[s].items \in Nat /\ steps[s].max_concurrency \in Nat
    BY WorkflowFacts, StepFacts DEF ExecutorInv
<1>2. /\ TasksOf(e, s) \in SUBSET tasks
      /\ \A t, u \in TasksOf(e, s) : t.kid = u.kid => t = u
    BY <1>1 DEF KidsInTurn, TasksOf
<1>3. ASSUME steps[s].type = "map" PROVE Cardinality(TasksOf(e, s) \cap Live) <= steps[s].max_concurrency
    <2>1. PICK n \in 0..steps[s].items : \A t \in TasksOf(e, s) \cap Live :
                t.kid \in (n + 1)..(n + steps[s].max_concurrency)
        BY <1>1, <1>3 DEF KidsInTurn
    <2>2. n \in Nat /\ TasksOf(e, s) \cap Live \in SUBSET tasks
        BY <1>2
    <2>3. \A t, u \in TasksOf(e, s) \cap Live : t.kid = u.kid => t = u
        BY <1>2
    <2> QED BY <1>1, <2>1, <2>2, <2>3, KidsCounted
<1>4. ASSUME steps[s].type \in {"parallel", "map"}, NEW k \in OwnRows(e, s), rows[k].state = "completed"
      PROVE  Cardinality({t \in TasksOf(e, s) : t.state = "completed"}) = steps[s].items
    <2>1. /\ {t.kid : t \in TasksOf(e, s)} = 1..steps[s].items
          /\ \A t \in TasksOf(e, s) : t.state = "completed"
        BY <1>1, <1>4 DEF KidsInTurn
    <2>2. {t \in TasksOf(e, s) : t.state = "completed"} = TasksOf(e, s)
        BY <2>1
    <2>3. 1..steps[s].items = (0 + 1)..(0 + steps[s].items) /\ 0 \in Nat
        BY <1>1
    <2>4. {t.kid : t \in TasksOf(e, s)} = (0 + 1)..(0 + steps[s].items)
        BY <2>1, <2>3
    <2>5. \A t \in TasksOf(e, s) : t.kid \in (0 + 1)..(0 + steps[s].items)
        BY <2>4
    <2> QED BY <1>1, <1>2, <2>2, <2>3, <2>4, <2>5, KidsCounted
<1>5. steps[s].type \in {"parallel", "map"} =>
        \A k \in OwnRows(e, s) : rows[k].state # "running" => TasksOf(e, s) \cap Live = {}
    BY <1>1 DEF KidsInTurn
<1> QED BY <1>3, <1>4, <1>5

LEMMA WorkflowFollows ==
    ASSUME WorkflowTypeOK, ExecutorInv, SignalsInOrder, SignalsOnce, StarterHasIt
    PROVE  WorkflowInv
<1>1. CompletedHonestly
    BY DEF ExecutorInv, VisitedCompleted, CompletedHonestly, Working
<1>2. NobodyStranded
    BY WorkflowAssumption DEF StarterHasIt, NobodyStranded
<1> QED BY <1>1, <1>2, AttemptsBounded, KidsBounded DEF WorkflowInv

(***************************************************************************)
(* At first no executor was called.                                        *)
(***************************************************************************)
LEMMA WorkflowStart == WorkflowInit => WorkflowInv
<1> SUFFICES ASSUME WorkflowInit PROVE WorkflowInv
    OBVIOUS
<1>1. NewExec \in Execs /\ NewExec.at = "idle" /\ NewExec.attempt = 1 /\ NewExec.cur = 1 /\ NewExec.visited = {}
    BY DEF NewExec, Execs
<1>2. \A e \in Executors : exec[e] = NewExec
    BY DEF WorkflowInit
<1>3. WorkflowTypeOK
    <2>1. rows \in Seq(Rows) /\ signals \in Seq(Signal)
        BY EmptySeq DEF WorkflowInit
    <2>2. sent \in 0..MaxSignals /\ mishaps \in 0..MaxMishaps
        BY WorkflowAssumption DEF WorkflowInit
    <2>3. exec \in [Executors -> Execs] /\ given \in [Signal -> SUBSET Executors] /\ tasks \subseteq Tasks
        BY <1>1 DEF WorkflowInit
    <2> QED BY <2>1, <2>2, <2>3 DEF WorkflowInit, WorkflowTypeOK
<1>4. Len(rows) = 0 /\ Len(signals) = 0 /\ tasks = {}
    BY EmptySeq DEF WorkflowInit
<1>5. \A e \in Executors : \A s : OwnRows(e, s) = {}
    BY <1>4 DEF OwnRows, RowsOfStep
<1>6. ASSUME NEW e \in Executors PROVE OwnInv(e)
    <2>1. /\ exec[e].at = "idle" /\ exec[e].attempt = 1 /\ exec[e].cur = 1 /\ exec[e].visited = {}
        BY <1>1, <1>2
    <2>2. InStep(e)
        BY <2>1 DEF InStep, Working
    <2>3. AttemptsNumbered(e)
        BY <1>5, <2>1 DEF AttemptsNumbered, OneByOne
    <2>4. VisitedCompleted(e)
        BY <1>4, <2>1 DEF VisitedCompleted
    <2>5. KidsInTurn(e)
        <3>1. Live = {} /\ \A s : TasksOf(e, s) = {}
            BY <1>4 DEF Live, TasksOf
        <3>2. \A s \in DOMAIN steps : 0 \in 0..steps[s].items
            BY <1>3, WorkflowFacts, StepFacts
        <3> QED BY <1>4, <1>5, <2>1, <3>1, <3>2 DEF KidsInTurn
    <2> QED BY <2>2, <2>3, <2>4, <2>5 DEF OwnInv
<1>7. ExecutorInv
    BY <1>6 DEF ExecutorInv, OwnInv
<1>8. SignalsInOrder /\ SignalsOnce /\ StarterHasIt
    BY <1>1, <1>2, <1>4 DEF SignalsInOrder, SignalsOnce, StarterHasIt, WorkflowInit, At, Signal
<1> QED BY <1>3, <1>7, <1>8, WorkflowFollows

LEMMA WorkflowStep ==
    ASSUME WorkflowInv, [WorkflowNext]_workflowVars
    PROVE  WorkflowInv'
<1>1. WorkflowTypeOK /\ ExecutorInv /\ SignalsInOrder /\ SignalsOnce /\ StarterHasIt
    BY DEF WorkflowInv
<1>2. WorkflowTypeOK' /\ ExecutorInv'
    BY <1>1, ExecutorsStep
<1>3. SignalsInOrder' /\ SignalsOnce'
    BY <1>1, SignalsStep
<1>4. StarterHasIt'
    BY <1>1, StarterStep
<1> QED BY <1>2, <1>3, <1>4, WorkflowFollows, PTL

(***************************************************************************)
(* For every set of definitions and any number of executors that start and *)
(* resume one execution, whatever storage call fails and whichever of them *)
(* is dropped or crashes: the attempts of a task follow each other within  *)
(* its policy, a step of branches or items is settled when its tasks are   *)
(* over, completed is said of completed steps only, a signal reaches one   *)
(* executor unless check_signal was raced, and an execution that runs has  *)
(* an executor (execute_workflow_loop, check_signal, start_execution).     *)
(***************************************************************************)
THEOREM WorkflowHolds == WorkflowSpec => []WorkflowInv
BY WorkflowStart, WorkflowStep, PTL DEF WorkflowSpec

(***************************************************************************)
(* A step of e that takes it from a choice: its own, unless a newer row of *)
(* the step is there.                                                      *)
(***************************************************************************)
LEMMA ChoiceStep ==
    ASSUME WorkflowInv, [WorkflowNext]_workflowVars, NEW e \in Executors, exec[e].at = "route",
           exec'[e].at \in {"step", "output"}
    PROVE  LET t == rows[exec[e].row].choice IN
           \/ \E k \in RowsOfStep(exec[e].cur) : k > exec[e].row
           \/ IF Exists(t) THEN exec'[e].at = "step" /\ exec'[e].cur = t
              ELSE exec'[e].at = "output"
<1>0. WorkflowTypeOK /\ ExecutorInv
    BY DEF WorkflowInv
<1>1. RouteChoice(e)
    <2>1. ASSUME NEW d \in Executors, d # e,
                 \/ ExecutorStep(d) \/ StartExecution(d) \/ ResumeExecution(d) \/ StorageFails(d)
                 \/ \E crash \in BOOLEAN : DropExecutor(d, crash)
          PROVE  FALSE
        <3>1. exec'[e] = exec[e]
            BY <1>0, <2>1, WhereTo
        <3> QED BY <3>1
    <2>2. ASSUME NEW t \in Live, TaskRow(t) \/ TaskStorageFails(t) \/ \E ok \in BOOLEAN : TaskDone(t, ok)
          PROVE  FALSE
        BY <1>0, <2>2, TasksMoveNobody
    <2>3. ASSUME CancelExecution \/ SendSignal \/ UNCHANGED workflowVars PROVE FALSE
        BY <2>3 DEF CancelExecution, SendSignal, workflowVars
    <2>4. ASSUME StorageFails(e) \/ \E crash \in BOOLEAN : DropExecutor(e, crash)
          PROVE  FALSE
        <3>1. PICK l \in {"errored", "dropped"} : Go(e, l)
            BY <2>4 DEF StorageFails, DropExecutor
        <3>2. l \in Places
            BY DEF Places, Ended
        <3> QED BY <1>0, <3>1, <3>2, MovesIs
    <2>5. ExecutorStep(e) \/ StartExecution(e) \/ ResumeExecution(e)
        BY <2>1, <2>2, <2>3, <2>4 DEF WorkflowNext, WorkflowGoesOn
    <2> QED BY <2>5 DEF ExecutorStep, BeginRunning, EnterStep, WaitEnds, InvalidStep, SpawnBatch, SpawnSome,
             JoinBatch, SettleStep, ReadSignal, DeleteSignal, SignalTimeout, WriteOutput, MarkCompleted, MarkFailed,
             TaskEnds, Decide, StartExecution, ResumeExecution, At
<1>2. /\ Decision(e) \in RowsOfStep(exec[e].cur) /\ \A j \in RowsOfStep(exec[e].cur) : j <= Decision(e)
      /\ exec[e].row \in RowsOfStep(exec[e].cur)
    BY <1>0, DecisionIs
<1>3. Decision(e) \in Nat /\ exec[e].row \in Nat
    BY <1>0, <1>2, WorkflowFacts, ExecFacts DEF RowsOfStep
<1>4. CASE Decision(e) > exec[e].row
    BY <1>2, <1>4
<1>5. CASE Decision(e) = exec[e].row
    <2>1. PICK t : t = rows[exec[e].row].choice
        OBVIOUS
    <2>2. exec' = [exec EXCEPT ![e] =
                  IF Exists(t)
                  THEN [[[[exec[e] EXCEPT !.at = "step"] EXCEPT !.cur = t] EXCEPT !.index = t] EXCEPT !.onChoice = TRUE]
                  ELSE [exec[e] EXCEPT !.at = "output"]]
        BY <1>1, <1>5, <2>1 DEF RouteChoice
    <2>3. exec \in [Executors -> Execs] /\ exec[e] \in Execs
        BY <1>0, WorkflowFacts
    <2>4. IF Exists(t) THEN exec'[e].at = "step" /\ exec'[e].cur = t ELSE exec'[e].at = "output"
        BY <2>2, <2>3 DEF Execs
    <2> QED BY <2>1, <2>4
<1>6. Decision(e) > exec[e].row \/ Decision(e) = exec[e].row
    BY <1>2, <1>3
<1> QED BY <1>4, <1>5, <1>6

(***************************************************************************)
(* An executor goes where the choice that it recorded says, and not where  *)
(* an older one of the same step does; only an executor that came to the   *)
(* step since can take it elsewhere (get_step_execution, by started_at).   *)
(***************************************************************************)
THEOREM ChoiceFollowedHolds == WorkflowSpec => ChoiceFollowed
<1>1. WorkflowInv /\ [WorkflowNext]_workflowVars =>
        [\A e \in Executors :
           At(e, "route") /\ exec'[e].at \in {"step", "output"} =>
             LET t == rows[exec[e].row].choice IN
             \/ \E k \in RowsOfStep(exec[e].cur) : k > exec[e].row
             \/ IF Exists(t) THEN exec'[e].at = "step" /\ exec'[e].cur = t
                ELSE exec'[e].at = "output"]_workflowVars
    BY ChoiceStep DEF At
<1> QED BY <1>1, WorkflowHolds, PTL DEF WorkflowSpec, ChoiceFollowed

-----------------------------------------------------------------------------
(* The tuple space.                                                        *)

\* A filter leaves the elements that it is to leave.
LEMMA KeptFacts ==
    ASSUME NEW T, NEW s \in Seq(T), NEW S
    PROVE  Kept(s, S) \in Seq(T) /\ ToSet(Kept(s, S)) = ToSet(s) \cap S
<1> DEFINE places == {i \in 1..Len(s) : s[i] \in S}
           upTo(i) == {j \in places : j <= i}
           n == Cardinality(places)
           rank == [i \in places |-> Cardinality(upTo(i))]
<1>1. Len(s) \in Nat /\ s \in [1..Len(s) -> T]
    BY LenProperties
<1>2. IsFiniteSet(places) /\ n \in Nat
    <2>1. IsFiniteSet(1..Len(s)) BY <1>1, FS_Interval
    <2>2. places \in SUBSET (1..Len(s)) OBVIOUS
    <2> QED BY <2>1, <2>2, FS_Subset, FS_CardinalityType
<1>3. \A i \in places : /\ IsFiniteSet(upTo(i)) /\ Cardinality(upTo(i)) \in 1..n
    <2> TAKE i \in places
    <2>1. upTo(i) \in SUBSET places OBVIOUS
    <2>2. i \in upTo(i) BY <1>1
    <2>3. IsFiniteSet(upTo(i)) /\ Cardinality(upTo(i)) <= n /\ Cardinality(upTo(i)) \in Nat
        BY <1>2, <2>1, FS_Subset, FS_CardinalityType
    <2>4. Cardinality(upTo(i)) # 0
        BY <2>2, <2>3, FS_EmptySet
    <2> QED BY <1>2, <2>3, <2>4
<1>4. \A i, j \in places : i < j => Cardinality(upTo(i)) # Cardinality(upTo(j))
    <2> SUFFICES ASSUME NEW i \in places, NEW j \in places, i < j
                 PROVE  Cardinality(upTo(i)) # Cardinality(upTo(j))
        OBVIOUS
    <2>1. upTo(i) \in SUBSET upTo(j) BY <1>1
    <2>2. j \in upTo(j) /\ j \notin upTo(i) BY <1>1
    <2> HIDE DEF upTo
    <2> QED BY <1>3, <2>1, <2>2, FS_Subset
<1>5. rank \in Injection(places, 1..n)
    <2>1. rank \in [places -> 1..n]
        <3> HIDE DEF upTo, n, places
        <3> QED BY <1>3
    <2>2. \A i, j \in places : rank[i] = rank[j] => i = j
        <3> SUFFICES ASSUME NEW i \in places, NEW j \in places, rank[i] = rank[j] PROVE i = j
            OBVIOUS
        <3>1. i \in Nat /\ j \in Nat /\ (i < j \/ j < i \/ i = j) BY <1>1
        <3>2. Cardinality(upTo(i)) = Cardinality(upTo(j)) OBVIOUS
        <3> HIDE DEF upTo, n, places
        <3> QED BY <1>4, <3>1, <3>2
    <2> HIDE DEF rank, n, places
    <2> QED BY <2>1, <2>2 DEF Injection, IsInjective
<1>6. Cardinality(1..n) = n /\ IsFiniteSet(1..n)
    BY <1>2, FS_Interval
<1>7. rank \in Surjection(places, 1..n)
    <2> HIDE DEF rank, n
    <2> QED BY <1>5, <1>6, FS_Injection DEF n
<1>8. \A k \in 1..n : \E i \in places : Cardinality(upTo(i)) = k
    <2> HIDE DEF upTo, n, places
    <2> QED BY <1>7 DEF Surjection
<1> DEFINE pick(k) == CHOOSE i \in places : Cardinality(upTo(i)) = k
           kept == [k \in 1..n |-> s[pick(k)]]
<1>9. Kept(s, S) = kept
    BY DEF Kept
<1>10. \A k \in 1..n : pick(k) \in places
    <2> HIDE DEF upTo, n, places
    <2> QED BY <1>8
<1>11. \A i \in places : \E k \in 1..n : pick(k) = i
    <2> TAKE i \in places
    <2>1. Cardinality(upTo(i)) \in 1..n BY <1>3
    <2>2. pick(Cardinality(upTo(i))) \in places
          /\ Cardinality(upTo(pick(Cardinality(upTo(i))))) = Cardinality(upTo(i))
        <3> HIDE DEF upTo, places
        <3> QED OBVIOUS
    <2>3. \A j \in places : Cardinality(upTo(j)) = Cardinality(upTo(i)) => j = i
        <3> TAKE j \in places
        <3>1. i \in Nat /\ j \in Nat /\ (i < j \/ j < i \/ i = j) BY <1>1
        <3> HIDE DEF upTo, places
        <3> QED BY <1>4, <3>1
    <2>4. pick(Cardinality(upTo(i))) = i
        <3> HIDE DEF pick, upTo, places
        <3> QED BY <2>2, <2>3
    <2> HIDE DEF pick, upTo, places, n
    <2> QED BY <2>1, <2>4
<1>12. kept \in Seq(T)
    <2>1. \A k \in 1..n : s[pick(k)] \in T
        <3> HIDE DEF pick, n
        <3> QED BY <1>1, <1>10
    <2>2. kept \in [1..n -> T]
        <3> HIDE DEF pick, n
        <3> QED BY <2>1
    <2> HIDE DEF kept, n
    <2> QED BY <1>2, <2>2, IsASeq
<1>13. ToSet(kept) = ToSet(s) \cap S
    <2>1. DOMAIN kept = 1..n /\ DOMAIN s = 1..Len(s) BY <1>1
    <2>2. \A k \in 1..n : kept[k] = s[pick(k)] OBVIOUS
    <2>3. \A i \in 1..Len(s) : i \in places <=> s[i] \in S OBVIOUS
    <2>4. places \subseteq 1..Len(s) OBVIOUS
    <2> HIDE DEF kept, pick, n, places
    <2>5. \A x \in ToSet(kept) : x \in ToSet(s) /\ x \in S
        <3> TAKE x \in ToSet(kept)
        <3>1. PICK k \in 1..n : x = kept[k] BY <2>1 DEF ToSet
        <3>2. pick(k) \in 1..Len(s) /\ x = s[pick(k)] /\ x \in S BY <3>1, <2>2, <2>3, <2>4, <1>10
        <3> QED BY <3>2, <2>1 DEF ToSet
    <2>6. \A x \in ToSet(s) : x \in S => x \in ToSet(kept)
        <3> TAKE x \in ToSet(s)
        <3> HAVE x \in S
        <3>1. PICK i \in 1..Len(s) : x = s[i] BY <2>1 DEF ToSet
        <3>2. PICK k \in 1..n : pick(k) = i BY <3>1, <2>3, <1>11
        <3>3. x = kept[k] BY <3>1, <3>2, <2>2
        <3> QED BY <3>3, <2>1 DEF ToSet
    <2> QED BY <2>5, <2>6
<1> QED BY <1>9, <1>12, <1>13

\* Sequences and the sets of their elements.
LEMMA EndFacts ==
    ASSUME NEW T, NEW s \in Seq(T), s # <<>>
    PROVE  /\ Head(s) \in T /\ Tail(s) \in Seq(T) /\ Head(s) \in ToSet(s)
           /\ ToSet(s) = {Head(s)} \cup ToSet(Tail(s))
           /\ Last(s) \in ToSet(s)
           /\ Len(s) \in Nat \ {0} /\ Len(Tail(s)) = Len(s) - 1
           /\ \A i \in 1..Len(s) - 1 : Tail(s)[i] = s[i + 1]
<1>1. /\ Len(s) \in Nat /\ Len(s) # 0 /\ s \in [1..Len(s) -> T] /\ DOMAIN s = 1..Len(s)
      /\ Head(s) = s[1] /\ Tail(s) \in Seq(T) /\ Len(Tail(s)) = Len(s) - 1
      /\ \A i \in 1..Len(s) - 1 : Tail(s)[i] = s[i + 1]
      /\ Last(s) = s[Len(s)]
    BY LenProperties, HeadTailProperties DEF Last
<1>2. DOMAIN Tail(s) = 1..Len(s) - 1
    BY <1>1, LenProperties
<1>3. Head(s) \in T /\ Head(s) \in ToSet(s) /\ Last(s) \in ToSet(s)
    BY <1>1 DEF ToSet
<1>4. ASSUME NEW x \in ToSet(s) PROVE x = Head(s) \/ x \in ToSet(Tail(s))
    <2>1. PICK i \in 1..Len(s) : x = s[i] BY <1>1 DEF ToSet
    <2>2. CASE i = 1 BY <2>1, <2>2, <1>1
    <2>3. CASE i # 1
        <3>1. i - 1 \in 1..Len(s) - 1 /\ Tail(s)[i - 1] = x BY <2>1, <2>3, <1>1
        <3> QED BY <3>1, <1>2 DEF ToSet
    <2> QED BY <2>2, <2>3
<1>5. ASSUME NEW x \in ToSet(Tail(s)) PROVE x \in ToSet(s)
    <2>1. PICK i \in 1..Len(s) - 1 : x = Tail(s)[i] BY <1>2 DEF ToSet
    <2>2. i + 1 \in 1..Len(s) /\ x = s[i + 1] BY <2>1, <1>1
    <2> QED BY <2>2, <1>1 DEF ToSet
<1>6. ToSet(s) = {Head(s)} \cup ToSet(Tail(s))
    BY <1>3, <1>4, <1>5
<1> QED BY <1>1, <1>3, <1>6

\* A sequence grows by its last element.
LEMMA AppendFacts ==
    ASSUME NEW T, NEW s \in Seq(T), NEW e \in T
    PROVE  /\ Append(s, e) \in Seq(T) /\ Len(Append(s, e)) = Len(s) + 1 /\ Len(s) \in Nat
           /\ Append(s, e)[Len(s) + 1] = e /\ \A i \in 1..Len(s) : Append(s, e)[i] = s[i]
           /\ ToSet(Append(s, e)) = ToSet(s) \cup {e}
<1>1. /\ Append(s, e) \in Seq(T) /\ Len(Append(s, e)) = Len(s) + 1 /\ Len(s) \in Nat
      /\ Append(s, e)[Len(s) + 1] = e /\ \A i \in 1..Len(s) : Append(s, e)[i] = s[i]
      /\ DOMAIN s = 1..Len(s) /\ DOMAIN Append(s, e) = 1..Len(s) + 1
    BY AppendProperties, LenProperties
<1>2. ToSet(Append(s, e)) \subseteq ToSet(s) \cup {e}
    <2> SUFFICES ASSUME NEW x \in ToSet(Append(s, e)) PROVE x \in ToSet(s) \cup {e}
        OBVIOUS
    <2>1. PICK i \in 1..Len(s) + 1 : x = Append(s, e)[i] BY <1>1 DEF ToSet
    <2>2. i \in 1..Len(s) \/ i = Len(s) + 1 BY <1>1
    <2> QED BY <2>1, <2>2, <1>1 DEF ToSet
<1>3. ToSet(s) \cup {e} \subseteq ToSet(Append(s, e))
    BY <1>1 DEF ToSet
<1> QED BY <1>1, <1>2, <1>3

\* A sequence of one element.
LEMMA OneFacts ==
    ASSUME NEW T, NEW e \in T
    PROVE  /\ <<e>> \in Seq(T) /\ <<e>> # <<>> /\ Len(<<e>>) = 1 /\ Head(<<e>>) = e
           /\ ToSet(<<e>>) = {e} /\ Tail(<<e>>) = <<>>
<1>1. <<e>> \in Seq(T) /\ <<e>> # <<>> /\ Len(<<e>>) = 1 /\ Head(<<e>>) = e /\ DOMAIN <<e>> = 1..1
    OBVIOUS
<1>2. Tail(<<e>>) = <<>>
    OBVIOUS
<1>3. ToSet(<<e>>) = {e}
    BY <1>1 DEF ToSet
<1> QED BY <1>1, <1>2, <1>3

\* The elements of a sequence, and of the empty one.
LEMMA NoneFacts ==
    /\ ToSet(<<>>) = {}
    /\ \A T : \A s \in Seq(T) : ToSet(s) = {} <=> s = <<>>
    /\ \A T : \A s \in Seq(T) : ToSet(s) \subseteq T
    /\ \A T : \A s \in Seq(T) : \A x : x \in ToSet(s) <=> \E i \in 1..Len(s) : s[i] = x
<1>1. ToSet(<<>>) = {} BY DEF ToSet
<1>2. ASSUME NEW T, NEW s \in Seq(T)
      PROVE  /\ ToSet(s) \subseteq T /\ \A x : x \in ToSet(s) <=> \E i \in 1..Len(s) : s[i] = x
             /\ ToSet(s) = {} <=> s = <<>>
    <2>1. Len(s) \in Nat /\ s \in [1..Len(s) -> T] /\ DOMAIN s = 1..Len(s) BY LenProperties
    <2>2. ToSet(s) \subseteq T BY <2>1 DEF ToSet
    <2>3. \A x : x \in ToSet(s) <=> \E i \in 1..Len(s) : s[i] = x BY <2>1 DEF ToSet
    <2>4. s # <<>> => ToSet(s) # {}
        BY EndFacts
    <2> QED BY <2>2, <2>3, <2>4, <1>1
<1> QED BY <1>1, <1>2

\* What the type invariant says of one call.
LEMMA CallFacts ==
    ASSUME TupleSpaceTypeOK, NEW c \in SpaceClients
    PROVE  /\ job[c] \in Jobs /\ job[c].items \in Seq(Tuples) /\ job[c].rest \in SUBSET Watchers
           /\ job[c].got \in SUBSET Tuples
           /\ job[c].event \in {"Added", "Removed"} /\ job[c].all \in BOOLEAN
           /\ job[c].watcher \in Watchers
           /\ job[c].at \in {"idle", "delete", "announce", "send", "gate", "watch", "wait"}
           /\ Home(c) \in Homes
<1>1. job[c] \in Jobs BY DEF TupleSpaceTypeOK
<1>2. HomeOf[c] \in Homes BY TupleSpaceAssumption
<1>3. Home(c) \in Homes BY <1>2 DEF Home
<1> QED BY <1>1, <1>3 DEF Jobs

\* A client that is in no call.
LEMMA IdleFacts ==
    /\ Idle \in Jobs /\ Idle.at = "idle" /\ Idle.event = "Added" /\ Idle.items = <<>>
    /\ Idle.got = {} /\ Idle.rest = {} /\ Idle.all = FALSE /\ Idle.watcher \in Watchers
<1>1. (CHOOSE w \in Watchers : TRUE) \in Watchers BY TupleSpaceAssumption
<1>2. <<>> \in Seq(Tuples) OBVIOUS
<1> QED BY <1>1, <1>2 DEF Idle, Jobs

\* A call that is to tell the watchers.
LEMMA TellFacts ==
    ASSUME NEW event \in {"Added", "Removed"}, NEW items \in Seq(Tuples), NEW all \in BOOLEAN
    PROVE  /\ Tell(event, items, all) \in Jobs /\ Tell(event, items, all).at = "announce"
           /\ Tell(event, items, all).event = event /\ Tell(event, items, all).items = items
           /\ Tell(event, items, all).rest = {} /\ Tell(event, items, all).all = all
           /\ Tell(event, items, all).got = IF event = "Removed" THEN ToSet(items) ELSE {}
<1>1. (CHOOSE w \in Watchers : TRUE) \in Watchers BY TupleSpaceAssumption
<1>2. ToSet(items) \subseteq Tuples BY NoneFacts
<1> QED BY <1>1, <1>2 DEF Idle, Jobs, Tell

\* What is stored, expired and announced, as sets.
LEMMA StoredFacts ==
    ASSUME TupleSpaceTypeOK, NEW p \in Patterns
    PROVE  /\ Unexpired(tuples) \in Seq(Tuples) /\ ToSet(Unexpired(tuples)) = ToSet(tuples) \ expired
           /\ Matching(Unexpired(tuples), p) \in Seq(Tuples)
           /\ ToSet(Matching(Unexpired(tuples), p)) = (ToSet(tuples) \ expired) \cap p
           /\ ToSet(tuples) \subseteq Tuples
<1>1. tuples \in Seq(Tuples) BY DEF TupleSpaceTypeOK
<1>2. ToSet(tuples) \subseteq Tuples BY <1>1, NoneFacts
<1>3. Unexpired(tuples) \in Seq(Tuples) /\ ToSet(Unexpired(tuples)) = ToSet(tuples) \cap (Tuples \ expired)
    BY <1>1, KeptFacts DEF Unexpired
<1>4. /\ Matching(Unexpired(tuples), p) \in Seq(Tuples)
      /\ ToSet(Matching(Unexpired(tuples), p)) = ToSet(Unexpired(tuples)) \cap p
    BY <1>3, KeptFacts DEF Matching
<1> QED BY <1>2, <1>3, <1>4

\* What is stored, without what has expired.
LEMMA UnexpiredFacts ==
    ASSUME TupleSpaceTypeOK
    PROVE  /\ Unexpired(tuples) \in Seq(Tuples) /\ ToSet(Unexpired(tuples)) = ToSet(tuples) \ expired
           /\ tuples \in Seq(Tuples) /\ ToSet(tuples) \subseteq Tuples
<1>1. tuples \in Seq(Tuples) BY DEF TupleSpaceTypeOK
<1>2. ToSet(tuples) \subseteq Tuples BY <1>1, NoneFacts
<1>3. Unexpired(tuples) \in Seq(Tuples) /\ ToSet(Unexpired(tuples)) = ToSet(tuples) \cap (Tuples \ expired)
    BY <1>1, KeptFacts DEF Unexpired
<1> QED BY <1>1, <1>2, <1>3

\* A sequence without what a take removes from it.
LEMMA WithoutFacts ==
    ASSUME NEW s \in Seq(Tuples), NEW S
    PROVE  Without(s, S) \in Seq(Tuples) /\ ToSet(Without(s, S)) = ToSet(s) \ S
<1>1. Without(s, S) \in Seq(Tuples) /\ ToSet(Without(s, S)) = ToSet(s) \cap (Tuples \ S)
    BY KeptFacts DEF Without
<1>2. ToSet(s) \subseteq Tuples BY NoneFacts
<1> QED BY <1>1, <1>2

\* The inductive invariant without what follows from it.
SpaceKept == TupleSpaceTypeOK /\ TuplesAccounted /\ JobsInStep /\ EventsTrue /\ NewsUnderWay

\* In a quiet space a watcher's book is true, because no news is under way.
LEMMA MirrorFollows == SpaceKept => SpaceInv
<1> SUFFICES ASSUME SpaceKept, backend = "memory", Quiet, NEW h \in Homes, NEW w \in watching[h] \ gone
             PROVE  /\ ToSet(tuples) \ (since[w] \cup expired \cup cut) \subseteq mirror[w]
                    /\ mirror[w] \subseteq Excused
    BY DEF SpaceKept, SpaceInv, MirrorTrue, Excused
<1>1. w \in Watchers /\ mirror[w] \subseteq Tuples /\ chan[w] = <<>>
    BY DEF SpaceKept, TupleSpaceTypeOK, Quiet
<1>2. ASSUME NEW e, NEW t PROVE ~ToCome(w, e, t)
    BY DEF Quiet, ToCome
<1>3. ASSUME NEW e PROVE e \notin ToSet(chan[w])
    BY <1>1, NoneFacts
<1>4. /\ \A t \in ToSet(tuples) \ (since[w] \cup expired \cup cut) :
           t \in mirror[w] \/ <<"Added", t>> \in ToSet(chan[w]) \/ ToCome(w, "Added", t)
      /\ \A t \in mirror[w] \ Excused :
           <<"Removed", t>> \in ToSet(chan[w]) \/ ToCome(w, "Removed", t)
    BY DEF SpaceKept, NewsUnderWay
<1> QED BY <1>2, <1>3, <1>4

\* A new space keeps all this, having nothing.
LEMMA SpaceStart == TupleSpaceInit => SpaceKept
<1> SUFFICES ASSUME TupleSpaceInit PROVE SpaceKept
    OBVIOUS
<1> USE DEF TupleSpaceInit
<1>1. TupleSpaceTypeOK
    <2>1. <<>> \in Seq(Tuples) /\ <<>> \in Seq({"Added", "Removed"} \X Tuples) OBVIOUS
    <2> QED BY <2>1, IdleFacts, TupleSpaceAssumption DEF TupleSpaceTypeOK
<1>2. TuplesAccounted
    BY NoneFacts DEF TuplesAccounted
<1>3. JobsInStep
    BY IdleFacts DEF JobsInStep
<1>4. EventsTrue
    <2>1. ToSet(tuples) = {} /\ \A t \in Tuples : ~Given(t) BY NoneFacts DEF Given
    <2>2. \A w \in Watchers : Len(chan[w]) = 0 OBVIOUS
    <2> QED BY <2>1, <2>2 DEF EventsTrue
<1>5. NewsUnderWay
    BY IdleFacts DEF NewsUnderWay
<1> QED BY <1>1, <1>2, <1>3, <1>4, <1>5 DEF SpaceKept

\* JobsInStep for one call, and ToCome for one call.
JobInStep(c) ==
    /\ job[c].at \in {"delete", "announce", "send", "gate"} => job[c].items # <<>>
    /\ job[c].at \in {"announce", "send"} /\ job[c].event = "Added" => Len(job[c].items) = 1
    /\ job[c].event = "Removed" /\ job[c].at \in {"announce", "send"} =>
         ToSet(job[c].items) \subseteq job[c].got
    /\ \A t \in job[c].got : c \in handed[t]
    /\ job[c].rest \subseteq watching[Home(c)]
    /\ job[c].at = "delete" \/ (job[c].at \in {"announce", "send"} /\ job[c].all) =>
         locked[Home(c)] = c
    /\ job[c].at = "delete" =>
         /\ backend = "sqlite" /\ ToSet(job[c].items) \subseteq written
         /\ \A t \in ToSet(job[c].items) : \A d \in handed[t] : Home(d) # Home(c)
BarriersInStep == \A h \in Homes : \A c \in atBarrier[h] : job[c].at = "wait" /\ Home(c) = h

Sends(c, w, event, t) ==
    /\ job[c].event = event
    /\ \/ job[c].at = "announce" /\ t \in ToSet(job[c].items)
       \/ job[c].at = "send" /\ t \in ToSet(Tail(job[c].items))
       \/ job[c].at = "send" /\ t = Head(job[c].items) /\ w \in job[c].rest

\* JobsInStep, call by call.
LEMMA JobsSplit == JobsInStep <=> (\A c \in SpaceClients : JobInStep(c)) /\ BarriersInStep
    BY DEF JobsInStep, JobInStep, BarriersInStep

\* ToCome, call by call.
LEMMA ToComeSplit ==
    ASSUME NEW w, NEW event, NEW t
    PROVE  ToCome(w, event, t) <=> \E c \in SpaceClients : Sends(c, w, event, t)
    BY DEF ToCome, Sends

\* A client does not change its space.
LEMMA HomeStays ==
    ASSUME backend' = backend, NEW c
    PROVE  Home(c)' = Home(c)
    BY DEF Home

\* A call that does nothing stays in step, if others leave it its locks and hand
\* nothing of what it selected to its process.
LEMMA OtherJob ==
    ASSUME TupleSpaceTypeOK, NEW d \in SpaceClients, JobInStep(d), job'[d] = job[d],
           backend' = backend, \A h \in Homes : watching[h] \subseteq watching'[h],
           locked[Home(d)] = d => locked'[Home(d)] = d, written \subseteq written',
           \A t \in Tuples : d \in handed[t] => d \in handed'[t],
           job[d].at = "delete" =>
             \A t \in ToSet(job[d].items) : \A e \in handed'[t] : e \in handed[t] \/ Home(e) # Home(d)
    PROVE  JobInStep(d)'
<1>1. Home(d)' = Home(d) /\ \A e : Home(e)' = Home(e) BY HomeStays
<1>2. Home(d) \in Homes /\ job[d].got \subseteq Tuples BY CallFacts
<1>3. watching[Home(d)] \subseteq watching'[Home(d)] BY <1>2
<1>4. JobInStep(d)' <=>
        /\ job[d].at \in {"delete", "announce", "send", "gate"} => job[d].items # <<>>
        /\ job[d].at \in {"announce", "send"} /\ job[d].event = "Added" => Len(job[d].items) = 1
        /\ job[d].event = "Removed" /\ job[d].at \in {"announce", "send"} =>
             ToSet(job[d].items) \subseteq job[d].got
        /\ \A t \in job[d].got : d \in handed'[t]
        /\ job[d].rest \subseteq watching'[Home(d)]
        /\ job[d].at = "delete" \/ (job[d].at \in {"announce", "send"} /\ job[d].all) =>
             locked'[Home(d)] = d
        /\ job[d].at = "delete" =>
             /\ backend = "sqlite" /\ ToSet(job[d].items) \subseteq written'
             /\ \A t \in ToSet(job[d].items) : \A e \in handed'[t] : Home(e) # Home(d)
    BY <1>1, Zenon DEF JobInStep
<1>5. \A t \in job[d].got : d \in handed'[t] BY <1>2 DEF JobInStep
<1> QED BY <1>3, <1>4, <1>5 DEF JobInStep

\* News stays under way in a step that sends and receives none.
LEMMA NewsKeep ==
    ASSUME SpaceKept, TupleSpaceTypeOK', backend' = backend, chan' = chan, mirror' = mirror,
           gone \subseteq gone', expired \subseteq expired', cut \subseteq cut',
           \A w \in Watchers : since[w] \subseteq since'[w] \/ ToSet(tuples') \subseteq since'[w],
           backend = "memory" =>
             /\ \A c \in SpaceClients :
                  job'[c].event = "Added" /\ job'[c].at \in {"announce", "send"} =>
                    ToSet(job'[c].items) \subseteq Excused'
             /\ \A h \in Homes : \A w \in watching'[h] \ gone' :
                  /\ w \in watching[h] \/ (chan[w] = <<>> /\ mirror[w] = {} /\ ToSet(tuples') \subseteq since'[w])
                  /\ \A t \in Tuples : ToCome(w, "Added", t) => ToCome(w, "Added", t)' \/ t \in cut'
                  /\ \A t \in Tuples : ToCome(w, "Removed", t) => ToCome(w, "Removed", t)' \/ t \in Excused'
                  /\ \A t \in ToSet(tuples') \ ToSet(tuples) : ToCome(w, "Added", t)'
                  /\ \A t \in Excused \ Excused' : ToCome(w, "Removed", t)'
    PROVE  NewsUnderWay'
<1> SUFFICES ASSUME backend = "memory", NEW h \in Homes, NEW w \in watching'[h] \ gone'
             PROVE /\ \A t \in ToSet(tuples') \ (since'[w] \cup expired' \cup cut') :
                        t \in mirror[w] \/ <<"Added", t>> \in ToSet(chan[w]) \/ ToCome(w, "Added", t)'
                   /\ \A t \in mirror[w] \ Excused' :
                        <<"Removed", t>> \in ToSet(chan[w]) \/ ToCome(w, "Removed", t)'
                   /\ \A i \in 1..Len(chan[w]) : \A t \in Tuples \ Excused' :
                        chan[w][i] = <<"Added", t>> =>
                          \/ \E j \in i + 1..Len(chan[w]) : chan[w][j] = <<"Removed", t>>
                          \/ ToCome(w, "Removed", t)'
    BY DEF NewsUnderWay
<1>1. w \in Watchers /\ mirror[w] \subseteq Tuples /\ ToSet(tuples') \subseteq Tuples /\ w \notin gone
    <2>1. tuples' \in Seq(Tuples) BY DEF TupleSpaceTypeOK
    <2>2. ToSet(tuples') \subseteq Tuples BY <2>1, NoneFacts
    <2> QED BY <2>2 DEF SpaceKept, TupleSpaceTypeOK
<1>2. CASE w \notin watching[h]
    <2>1. chan[w] = <<>> /\ mirror[w] = {} /\ ToSet(tuples') \subseteq since'[w] BY <1>2
    <2>2. Len(chan[w]) = 0 BY <2>1
    <2> QED BY <2>1, <2>2
<1>3. CASE w \in watching[h]
    <2>1. /\ \A t \in ToSet(tuples) \ (since[w] \cup expired \cup cut) :
                t \in mirror[w] \/ <<"Added", t>> \in ToSet(chan[w]) \/ ToCome(w, "Added", t)
          /\ \A t \in mirror[w] \ Excused :
                <<"Removed", t>> \in ToSet(chan[w]) \/ ToCome(w, "Removed", t)
          /\ \A i \in 1..Len(chan[w]) : \A t \in Tuples \ Excused :
                chan[w][i] = <<"Added", t>> =>
                  \/ \E j \in i + 1..Len(chan[w]) : chan[w][j] = <<"Removed", t>>
                  \/ ToCome(w, "Removed", t)
        BY <1>1, <1>3 DEF SpaceKept, NewsUnderWay
    <2>2. /\ \A t \in Tuples : ToCome(w, "Added", t) => ToCome(w, "Added", t)' \/ t \in cut'
          /\ \A t \in Tuples : ToCome(w, "Removed", t) => ToCome(w, "Removed", t)' \/ t \in Excused'
          /\ \A t \in ToSet(tuples') \ ToSet(tuples) : ToCome(w, "Added", t)'
          /\ \A t \in Excused \ Excused' : ToCome(w, "Removed", t)'
        OBVIOUS
    <2>3. since[w] \subseteq since'[w] \/ ToSet(tuples') \subseteq since'[w] BY <1>1
    <2>4. \A t \in ToSet(tuples') \ (since'[w] \cup expired' \cup cut') :
            t \in mirror[w] \/ <<"Added", t>> \in ToSet(chan[w]) \/ ToCome(w, "Added", t)'
        BY <1>1, <2>1, <2>2, <2>3
    <2>5. \A t \in mirror[w] \ Excused' :
            <<"Removed", t>> \in ToSet(chan[w]) \/ ToCome(w, "Removed", t)'
        BY <1>1, <2>1, <2>2
    <2>6. \A i \in 1..Len(chan[w]) : \A t \in Tuples \ Excused' :
             chan[w][i] = <<"Added", t>> =>
               \/ \E j \in i + 1..Len(chan[w]) : chan[w][j] = <<"Removed", t>>
               \/ ToCome(w, "Removed", t)'
        BY <2>1, <2>2
    <2> QED BY <2>4, <2>5, <2>6
<1> QED BY <1>2, <1>3

\* A step of calls that neither told the watchers nor begin to, beside the
\* storage and the channels.
LEMMA AsideStep ==
    ASSUME SpaceKept, TupleSpaceTypeOK', BarriersInStep', backend' = backend, StorageAlone,
           UNCHANGED <<watching, chan, mirror, since>>, gone \subseteq gone',
           \A c \in SpaceClients :
             \/ job'[c] = job[c]
             \/ /\ job[c].at \in {"idle", "gate", "wait", "watch"}
                /\ job'[c].at \in {"idle", "wait", "watch"} /\ job'[c].rest = {} /\ job'[c].got = {}
    PROVE  SpaceKept'
<1> USE DEF StorageAlone
<1>0. \A c : Home(c)' = Home(c) BY HomeStays
<1>1. TuplesAccounted'
    BY <1>0 DEF SpaceKept, TuplesAccounted
<1>2. JobsInStep'
    <2>1. ASSUME NEW c \in SpaceClients PROVE JobInStep(c)'
        <3>1. JobInStep(c) BY JobsSplit DEF SpaceKept
        <3>2. CASE job'[c] = job[c]
            BY <3>1, <3>2, OtherJob DEF SpaceKept
        <3>3. CASE job'[c].at \in {"idle", "wait", "watch"} /\ job'[c].rest = {} /\ job'[c].got = {}
            BY <3>3 DEF JobInStep
        <3> QED BY <3>2, <3>3
    <2>2. (\A c \in SpaceClients : JobInStep(c)') /\ BarriersInStep'
        BY <2>1
    <2> QED BY <2>2 DEF JobsInStep, JobInStep, BarriersInStep
<1>3. EventsTrue'
    BY <1>0 DEF SpaceKept, EventsTrue, Given
<1>4. NewsUnderWay'
    <2>1. Excused' = Excused BY DEF Excused
    <2>2. \A c \in SpaceClients : backend = "memory" /\ job'[c].event = "Added" /\ job'[c].at \in {"announce", "send"} =>
             ToSet(job'[c].items) \subseteq Excused'
        BY <2>1 DEF SpaceKept, NewsUnderWay
    <2>3. ASSUME NEW w, NEW t, NEW e, ToCome(w, e, t) PROVE ToCome(w, e, t)'
        <3>1. PICK c \in SpaceClients : Sends(c, w, e, t) BY <2>3, ToComeSplit
        <3>2. job'[c] = job[c] BY <3>1 DEF Sends
        <3>3. Sends(c, w, e, t)' BY <3>1, <3>2 DEF Sends
        <3> QED BY <3>3 DEF ToCome, Sends
    <2> QED BY <2>1, <2>2, <2>3, NewsKeep
<1> QED BY <1>1, <1>2, <1>3, <1>4 DEF SpaceKept

\* The bound on calls is kept.
LEMMA CallCounts ==
    ASSUME TupleSpaceTypeOK, NEW c, Call(c)
    PROVE  spaceOps' \in 0..MaxSpaceOps
    BY TupleSpaceAssumption DEF TupleSpaceTypeOK, Call

\* watch() waits aside.
LEMMA WatchStep ==
    ASSUME SpaceKept, NEW c \in SpaceClients, NEW w \in Watchers, Watch(c, w)
    PROVE  SpaceKept'
<1> USE DEF Watch, Call, StorageAlone, WatchersAlone, BarrierAlone
<1> DEFINE new == [Idle EXCEPT !.at = "watch", !.watcher = w]
<1>1. new \in Jobs /\ new.at = "watch" /\ new.rest = {} /\ new.got = {} BY IdleFacts DEF Jobs
<1> HIDE DEF new
<1>2. job' = [job EXCEPT ![c] = new] BY DEF new
<1>3. TupleSpaceTypeOK'
    <2>1. spaceOps' \in 0..MaxSpaceOps BY CallCounts DEF SpaceKept
    <2> HIDE DEF Call
    <2> QED BY <1>1, <1>2, <2>1 DEF SpaceKept, TupleSpaceTypeOK
<1>4. job \in [SpaceClients -> Jobs] BY DEF SpaceKept, TupleSpaceTypeOK
<1>5. \A d \in SpaceClients : job'[d] = job[d] \/ (d = c /\ job'[d] = new) BY <1>2, <1>4
<1>6. BarriersInStep'
    <2>1. \A d : Home(d)' = Home(d) BY HomeStays
    <2>2. \A h \in Homes : atBarrier[h] \subseteq SpaceClients BY DEF SpaceKept, TupleSpaceTypeOK
    <2> QED BY <1>5, <2>1, <2>2, JobsSplit DEF SpaceKept, BarriersInStep
<1> QED BY <1>1, <1>3, <1>5, <1>6, AsideStep

\* barrier() waits aside.
LEMMA BarrierWaitStep ==
    ASSUME SpaceKept, NEW c \in SpaceClients, NEW n \in BarrierSizes, BarrierWait(c, n)
    PROVE  SpaceKept'
<1> USE DEF BarrierWait, Call, StorageAlone, WatchersAlone
<1> DEFINE new == [Idle EXCEPT !.at = "wait"]
<1>1. new \in Jobs /\ new.at = "wait" /\ new.rest = {} /\ new.got = {} BY IdleFacts DEF Jobs
<1> HIDE DEF new
<1>2. job' = [job EXCEPT ![c] = new] BY DEF new
<1>0. Home(c) \in Homes BY CallFacts DEF SpaceKept
<1>3. TupleSpaceTypeOK'
    <2>1. spaceOps' \in 0..MaxSpaceOps BY CallCounts DEF SpaceKept
    <2>2. atBarrier' \in [Homes -> SUBSET SpaceClients] BY <1>0 DEF SpaceKept, TupleSpaceTypeOK
    <2>3. job' \in [SpaceClients -> Jobs] BY <1>1, <1>2 DEF SpaceKept, TupleSpaceTypeOK
    <2>4. n \in Nat BY TupleSpaceAssumption
    <2>5. expected' \in [Homes -> Nat] BY <1>0, <2>4 DEF SpaceKept, TupleSpaceTypeOK
    <2> HIDE DEF Call
    <2> QED BY <2>1, <2>2, <2>3, <2>5 DEF SpaceKept, TupleSpaceTypeOK
<1>4. job \in [SpaceClients -> Jobs] /\ atBarrier \in [Homes -> SUBSET SpaceClients]
    BY DEF SpaceKept, TupleSpaceTypeOK
<1>5. \A d \in SpaceClients : (d # c => job'[d] = job[d]) /\ (d = c => job'[d] = new) BY <1>2, <1>4
<1>6. BarriersInStep'
    <2>1. \A d : Home(d)' = Home(d) BY HomeStays
    <2>2. BarriersInStep BY JobsSplit DEF SpaceKept
    <2>3. \A h \in Homes : \A d \in atBarrier'[h] : d \in SpaceClients /\ (d \in atBarrier[h] \/ (d = c /\ h = Home(c)))
        BY <1>0, <1>4
    <2> QED BY <1>1, <1>5, <2>1, <2>2, <2>3 DEF BarriersInStep
<1> QED BY <1>1, <1>3, <1>5, <1>6, AsideStep

\* A caller of barrier() gives up.
LEMMA AbandonStep ==
    ASSUME SpaceKept, NEW c \in SpaceClients, AbandonWait(c)
    PROVE  SpaceKept'
<1> USE DEF AbandonWait, StorageAlone, WatchersAlone
<1>0. Home(c) \in Homes BY CallFacts DEF SpaceKept
<1>3. TupleSpaceTypeOK'
    <2>1. deserted[Home(c)] + 1 \in Nat BY <1>0 DEF SpaceKept, TupleSpaceTypeOK
    <2> QED BY <1>0, <2>1, IdleFacts DEF SpaceKept, TupleSpaceTypeOK
<1>4. job \in [SpaceClients -> Jobs] /\ atBarrier \in [Homes -> SUBSET SpaceClients]
    BY DEF SpaceKept, TupleSpaceTypeOK
<1>5. \A d \in SpaceClients : (d # c => job'[d] = job[d]) /\ (d = c => job'[d] = Idle) BY <1>4
<1>6. BarriersInStep'
    <2>1. \A d : Home(d)' = Home(d) BY HomeStays
    <2>2. BarriersInStep BY JobsSplit DEF SpaceKept
    <2>3. \A h \in Homes : \A d \in atBarrier'[h] : d \in SpaceClients /\ d \in atBarrier[h] /\ (h = Home(c) => d # c)
        BY <1>0, <1>4
    <2> QED BY <1>5, <2>1, <2>2, <2>3 DEF BarriersInStep
<1> QED BY <1>3, <1>5, <1>6, AsideStep, IdleFacts

\* A write that has told the watchers looks at the barrier.
LEMMA GateStep ==
    ASSUME SpaceKept, NEW c \in SpaceClients, CheckBarriers(c)
    PROVE  SpaceKept'
<1> USE DEF StorageAlone
<1>0. Home(c) \in Homes BY CallFacts DEF SpaceKept
<1>1. PICK h : h = Home(c) OBVIOUS
<1>2. PICK opens \in BOOLEAN : opens <=> (Head(job[c].items) \in Gates /\ Enough(h)) OBVIOUS
<1>3. /\ job[c].at = "gate"
      /\ atBarrier' = IF opens THEN [atBarrier EXCEPT ![h] = {}] ELSE atBarrier
      /\ deserted' = IF opens THEN [deserted EXCEPT ![h] = 0] ELSE deserted
      /\ job' = [d \in SpaceClients |-> IF d = c \/ (opens /\ d \in atBarrier[h]) THEN Idle ELSE job[d]]
      /\ readers' = [readers EXCEPT ![h] = @ \ {c}]
      /\ StorageAlone /\ UNCHANGED <<backend, expected, watching, chan, gone, mirror, since, spaceOps>>
    BY <1>1, <1>2 DEF CheckBarriers
<1>4. job \in [SpaceClients -> Jobs] /\ atBarrier \in [Homes -> SUBSET SpaceClients]
    BY DEF SpaceKept, TupleSpaceTypeOK
<1>5. TupleSpaceTypeOK'
    <2>1. job' \in [SpaceClients -> Jobs] BY <1>3, <1>4, IdleFacts
    <2> QED BY <1>0, <1>1, <1>3, <2>1 DEF SpaceKept, TupleSpaceTypeOK
<1>6. BarriersInStep BY JobsSplit DEF SpaceKept
<1>7. \A d \in SpaceClients : job'[d] = job[d] \/ (job[d].at \in {"gate", "wait"} /\ job'[d] = Idle)
    BY <1>0, <1>1, <1>3, <1>6 DEF BarriersInStep
<1>8. BarriersInStep'
    <2>1. \A d : Home(d)' = Home(d) BY <1>3, HomeStays
    <2>2. SUFFICES ASSUME NEW k \in Homes, NEW d \in atBarrier'[k] PROVE job'[d].at = "wait" /\ Home(d) = k
        BY <2>1 DEF BarriersInStep
    <2>3. d \in atBarrier[k] /\ d \in SpaceClients /\ (opens => k # h) BY <1>0, <1>1, <1>3, <1>4, <2>2
    <2>4. job[d].at = "wait" /\ Home(d) = k BY <1>6, <2>3 DEF BarriersInStep
    <2>5. ~(opens /\ d \in atBarrier[h])
        BY <1>0, <1>1, <1>6, <2>3, <2>4 DEF BarriersInStep
    <2> QED BY <1>3, <2>3, <2>4, <2>5
<1> QED BY <1>3, <1>5, <1>7, <1>8, AsideStep, IdleFacts

\* A receiver is dropped: nobody needs to tell it anything any more.
LEMMA DropStep ==
    ASSUME SpaceKept, NEW w \in Watchers, DropReceiver(w)
    PROVE  SpaceKept'
<1> USE DEF DropReceiver, StorageAlone, BarrierAlone
<1>1. TupleSpaceTypeOK' BY DEF SpaceKept, TupleSpaceTypeOK
<1>2. BarriersInStep'
    <2>1. \A d : Home(d)' = Home(d) BY HomeStays
    <2> QED BY <2>1, JobsSplit DEF SpaceKept, BarriersInStep
<1> QED BY <1>1, <1>2, AsideStep

\* Where a tuple that was written can be.
LEMMA WrittenFacts ==
    ASSUME TuplesAccounted, NEW t \in written
    PROVE  \/ t \in ToSet(tuples) \/ handed[t] # {} \/ t \in expired \/ t \in cleared \/ t \in wasted
           \/ (backend = "sqlite" /\ t \in swept)
<1>1. \A s \in written : \/ s \in ToSet(tuples) \/ handed[s] # {}
                          \/ s \in expired \cup cleared \cup wasted
                          \/ (backend = "sqlite" /\ s \in swept)
    BY DEF TuplesAccounted
<1> QED BY <1>1

\* A step in which tuples only expire or are cleared.
LEMMA ShrinkStep ==
    ASSUME SpaceKept, TupleSpaceTypeOK', backend' = backend, WatchersAlone, BarrierAlone,
           UNCHANGED <<job, locked, handed, wasted, cut, written, swept, early>>,
           ToSet(tuples') \subseteq ToSet(tuples), expired \subseteq expired', cleared \subseteq cleared',
           ToSet(tuples) \subseteq ToSet(tuples') \cup expired' \cup cleared'
    PROVE  SpaceKept'
<1> USE DEF WatchersAlone, BarrierAlone
<1>0. \A c : Home(c)' = Home(c) BY HomeStays
<1>1. TuplesAccounted'
    <2>1. \A t \in Tuples : \A c, d \in handed[t] : c # d => backend = "sqlite" /\ Home(c) # Home(d)
        BY DEF SpaceKept, TuplesAccounted
    <2>2. \A t \in ToSet(tuples') : handed[t] = {} /\ t \notin wasted
        BY DEF SpaceKept, TuplesAccounted
    <2>3. \A t \in written : \/ t \in ToSet(tuples') \/ handed[t] # {}
                             \/ t \in expired' \cup cleared' \cup wasted \/ (backend = "sqlite" /\ t \in swept)
        BY WrittenFacts DEF SpaceKept
    <2> QED BY <1>0, <2>1, <2>2, <2>3 DEF TuplesAccounted
<1>2. JobsInStep'
    BY <1>0 DEF SpaceKept, JobsInStep
<1>3. EventsTrue'
    BY <1>0 DEF SpaceKept, EventsTrue, Given
<1>4. NewsUnderWay'
    <2>1. Excused \subseteq Excused' BY DEF Excused
    <2>2. \A c \in SpaceClients : backend = "memory" /\ job'[c].event = "Added" /\ job'[c].at \in {"announce", "send"} =>
             ToSet(job'[c].items) \subseteq Excused'
        BY <2>1 DEF SpaceKept, NewsUnderWay
    <2>3. ASSUME NEW w, NEW t, NEW e, ToCome(w, e, t) PROVE ToCome(w, e, t)'
        BY <2>3 DEF ToCome
    <2> QED BY <2>1, <2>2, <2>3, NewsKeep
<1> QED BY <1>1, <1>2, <1>3, <1>4 DEF SpaceKept

\* clear() excuses what it removes.
LEMMA ClearStep ==
    ASSUME SpaceKept, NEW c \in SpaceClients, ClearSpace(c)
    PROVE  SpaceKept'
<1> USE DEF ClearSpace
<1>1. spaceOps' \in 0..MaxSpaceOps BY CallCounts DEF SpaceKept
<1>2. <<>> \in Seq(Tuples) OBVIOUS
<1>3. TupleSpaceTypeOK' BY <1>1, <1>2, UnexpiredFacts DEF SpaceKept, TupleSpaceTypeOK, WatchersAlone, BarrierAlone
<1> QED BY <1>3, ShrinkStep, NoneFacts

\* cleanup_expired() removes only what has expired.
LEMMA CleanupStep ==
    ASSUME SpaceKept, NEW c \in SpaceClients, CleanupExpired(c)
    PROVE  SpaceKept'
<1> USE DEF CleanupExpired
<1>1. spaceOps' \in 0..MaxSpaceOps BY CallCounts DEF SpaceKept
<1>2. Unexpired(tuples) \in Seq(Tuples) /\ ToSet(Unexpired(tuples)) = ToSet(tuples) \ expired
    BY UnexpiredFacts DEF SpaceKept
<1>3. TupleSpaceTypeOK' BY <1>1, <1>2 DEF SpaceKept, TupleSpaceTypeOK, WatchersAlone, BarrierAlone
<1> QED BY <1>2, <1>3, ShrinkStep

\* A lease ends: the tuple is excused wherever it is.
LEMMA LeaseStep ==
    ASSUME SpaceKept, NEW t \in Tuples, LeaseEnds(t)
    PROVE  SpaceKept'
<1> USE DEF LeaseEnds
<1>1. TupleSpaceTypeOK' BY DEF SpaceKept, TupleSpaceTypeOK, WatchersAlone, BarrierAlone
<1> QED BY <1>1, ShrinkStep

\* write(): the new tuple is to be told of.
LEMMA WriteStep ==
    ASSUME SpaceKept, NEW c \in SpaceClients, NEW t \in Tuples, WriteTuple(c, t)
    PROVE  SpaceKept'
<1> USE DEF WatchersAlone, BarrierAlone
<1>0. \A d : Home(d)' = Home(d) BY HomeStays DEF WriteTuple
<1> DEFINE new == Tell("Added", <<t>>, FALSE)
<1>1. /\ <<t>> \in Seq(Tuples) /\ new \in Jobs /\ new.at = "announce" /\ new.event = "Added" /\ new.items = <<t>>
      /\ new.rest = {} /\ new.got = {} /\ new.all = FALSE /\ Len(<<t>>) = 1 /\ ToSet(<<t>>) = {t} /\ <<t>> # <<>>
    <2>1. /\ <<t>> \in Seq(Tuples) /\ Len(<<t>>) = 1 /\ ToSet(<<t>>) = {t} /\ <<t>> # <<>>
        BY OneFacts
    <2> QED BY <2>1, TellFacts, ZenonT(40)
<1>2. /\ job' = [job EXCEPT ![c] = new] /\ written' = written \cup {t} /\ t \notin written
      /\ UNCHANGED <<backend, locked, expired, handed, wasted, cut, cleared, swept, early>>
      /\ WatchersAlone /\ BarrierAlone /\ job[c].at = "idle"
    BY DEF WriteTuple, Call
<1>3. spaceOps' \in 0..MaxSpaceOps BY CallCounts DEF SpaceKept, WriteTuple
<1>4. /\ tuples' \in Seq(Tuples) /\ ToSet(tuples') \subseteq ToSet(tuples) \cup {t} /\ t \in ToSet(tuples')
      /\ ToSet(tuples) \subseteq ToSet(tuples') \cup expired
    BY UnexpiredFacts, AppendFacts DEF SpaceKept, WriteTuple
<1> HIDE DEF new
<1>5. TupleSpaceTypeOK'
    BY <1>1, <1>2, <1>3, <1>4 DEF SpaceKept, TupleSpaceTypeOK
<1>6. job \in [SpaceClients -> Jobs] /\ \A d \in SpaceClients : (d # c => job'[d] = job[d]) /\ (d = c => job'[d] = new)
    BY <1>2 DEF SpaceKept, TupleSpaceTypeOK
<1>7. TuplesAccounted'
    <2>1. \A s \in Tuples : \A d, e \in handed[s] : d # e => backend = "sqlite" /\ Home(d) # Home(e)
        BY DEF SpaceKept, TuplesAccounted
    <2>2. handed[t] = {} /\ t \notin wasted BY <1>2 DEF SpaceKept, EventsTrue, Given
    <2>3. \A s \in ToSet(tuples') : handed[s] = {} /\ s \notin wasted
        BY <1>4, <2>2 DEF SpaceKept, TuplesAccounted
    <2>4. \A s \in written' : \/ s \in ToSet(tuples') \/ handed[s] # {}
                              \/ s \in expired \cup cleared \cup wasted \/ (backend = "sqlite" /\ s \in swept)
        BY <1>2, <1>4, WrittenFacts DEF SpaceKept
    <2> QED BY <1>0, <1>2, <2>1, <2>3, <2>4 DEF TuplesAccounted
<1>8. JobsInStep'
    <2>1. ASSUME NEW d \in SpaceClients PROVE JobInStep(d)'
        <3>1. CASE d # c
            BY <1>2, <1>6, <3>1, JobsSplit, OtherJob DEF SpaceKept
        <3>2. CASE d = c
            BY <1>1, <1>6, <3>2 DEF JobInStep
        <3> QED BY <3>1, <3>2
    <2>2. BarriersInStep'
        <3>1. \A h \in Homes : atBarrier[h] \subseteq SpaceClients BY DEF SpaceKept, TupleSpaceTypeOK
        <3> QED BY <1>0, <1>2, <1>6, <3>1, JobsSplit DEF SpaceKept, BarriersInStep
    <2> QED BY <2>1, <2>2 DEF JobsInStep, JobInStep, BarriersInStep
<1>9. EventsTrue'
    <2>1. ToSet(tuples') \cup {s \in Tuples : handed'[s] # {} \/ s \in wasted'} \subseteq written'
        BY <1>2, <1>4 DEF SpaceKept, EventsTrue, Given
    <2> QED BY <1>0, <1>2, <2>1 DEF SpaceKept, EventsTrue, Given
<1>10. NewsUnderWay'
    <2>1. Excused \subseteq Excused' /\ t \in Excused' BY <1>2, <1>4 DEF Excused
    <2>2. \A d \in SpaceClients : backend = "memory" /\ job'[d].event = "Added" /\ job'[d].at \in {"announce", "send"} =>
             ToSet(job'[d].items) \subseteq Excused'
        BY <1>1, <1>6, <2>1 DEF SpaceKept, NewsUnderWay
    <2>3. ASSUME NEW w, NEW s, NEW e, ToCome(w, e, s) PROVE ToCome(w, e, s)'
        <3>1. PICK d \in SpaceClients : Sends(d, w, e, s) BY <2>3, ToComeSplit
        <3>2. job'[d] = job[d] BY <1>2, <1>6, <3>1 DEF Sends
        <3>3. Sends(d, w, e, s)' BY <3>1, <3>2 DEF Sends
        <3> QED BY <3>3 DEF ToCome, Sends
    <2>4. \A w : \A s \in ToSet(tuples') \ ToSet(tuples) : ToCome(w, "Added", s)'
        <3>1. \A w : Sends(c, w, "Added", t)' BY <1>1, <1>6 DEF Sends
        <3>2. \A w : ToCome(w, "Added", t)' BY <3>1 DEF ToCome, Sends
        <3> QED BY <3>2, <1>4
    <2> QED BY <1>2, <1>5, <2>1, <2>2, <2>3, <2>4, NewsKeep
<1> QED BY <1>5, <1>7, <1>8, <1>9, <1>10 DEF SpaceKept

\* What a take hands over, and what it takes too early.
LEMMA HandFacts ==
    ASSUME TupleSpaceTypeOK, NEW c \in SpaceClients, NEW S \in SUBSET Tuples, HandTo(c, S)
    PROVE  /\ handed' \in [Tuples -> SUBSET SpaceClients] /\ early' \subseteq Tuples
           /\ \A t \in Tuples : handed'[t] = IF t \in S THEN handed[t] \cup {c} ELSE handed[t]
           /\ early' = early \cup (S \cap StillUntold)
<1>1. StillUntold \subseteq Tuples BY DEF StillUntold
<1> QED BY <1>1 DEF HandTo, TupleSpaceTypeOK

\* An event in a channel is about a tuple.
LEMMA EventFacts ==
    ASSUME TupleSpaceTypeOK, NEW w \in Watchers, NEW i \in 1..Len(chan[w])
    PROVE  chan[w][i] \in {"Added", "Removed"} \X Tuples /\ chan[w][i][2] \in Tuples
<1>1. chan[w] \in Seq({"Added", "Removed"} \X Tuples) BY DEF TupleSpaceTypeOK
<1>2. chan[w][i] \in {"Added", "Removed"} \X Tuples BY <1>1
<1> QED BY <1>2

\* take() and take_all() in memory, when they find something.
LEMMA TakenStep ==
    ASSUME SpaceKept, NEW c \in SpaceClients, backend = "memory", backend' = backend,
           Call(c), Free(c), NEW items \in Seq(Tuples), items # <<>>, NEW all \in BOOLEAN,
           ToSet(items) \subseteq ToSet(tuples) \ expired, tuples' \in Seq(Tuples),
           ToSet(tuples') = (ToSet(tuples) \ expired) \ ToSet(items), HandTo(c, ToSet(items)),
           job' = [job EXCEPT ![c] = Tell("Removed", items, all)],
           locked' = IF all THEN [locked EXCEPT ![Home(c)] = c] ELSE locked,
           WatchersAlone, BarrierAlone, UNCHANGED <<expired, written, wasted, cut, cleared, swept>>
    PROVE  SpaceKept'
<1> USE DEF WatchersAlone, BarrierAlone
<1>0. (\A d : Home(d)' = Home(d)) /\ (\A d : Home(d) = Home(c)) /\ Home(c) \in Homes
    BY HomeStays, CallFacts DEF Home, SpaceKept
<1> DEFINE new == Tell("Removed", items, all)
<1>1. /\ new \in Jobs /\ new.at = "announce" /\ new.event = "Removed" /\ new.items = items
      /\ new.rest = {} /\ new.all = all /\ new.got = ToSet(new.items)
    BY TellFacts
<1>2. job' = [job EXCEPT ![c] = new] /\ job[c].at = "idle" /\ locked[Home(c)] = NoClient
    BY DEF Call, Free
<1> HIDE DEF new
<1>3. ToSet(items) \subseteq Tuples /\ ToSet(tuples) \subseteq Tuples BY NoneFacts, UnexpiredFacts DEF SpaceKept
<1>4. /\ handed' \in [Tuples -> SUBSET SpaceClients] /\ early' \subseteq Tuples
      /\ \A t \in Tuples : handed'[t] = IF t \in ToSet(items) THEN handed[t] \cup {c} ELSE handed[t]
      /\ early' = early \cup (ToSet(items) \cap StillUntold)
    BY <1>3, HandFacts DEF SpaceKept
<1>5. TupleSpaceTypeOK'
    <2>1. spaceOps' \in 0..MaxSpaceOps BY CallCounts DEF SpaceKept
    <2>2. locked' \in [Homes -> SpaceClients \cup {NoClient}] BY <1>0 DEF SpaceKept, TupleSpaceTypeOK
    <2>3. job' \in [SpaceClients -> Jobs] BY <1>1, <1>2 DEF SpaceKept, TupleSpaceTypeOK
    <2> QED BY <1>4, <2>1, <2>2, <2>3 DEF SpaceKept, TupleSpaceTypeOK
<1>6. job \in [SpaceClients -> Jobs] /\ \A d \in SpaceClients : (d # c => job'[d] = job[d]) /\ (d = c => job'[d] = new)
    BY <1>2 DEF SpaceKept, TupleSpaceTypeOK
<1>7. \A t \in ToSet(items) : handed[t] = {} /\ t \in Tuples /\ t \in written
    BY <1>3 DEF SpaceKept, TuplesAccounted, EventsTrue, Given
<1>8. TuplesAccounted'
    <2>1. \A t \in Tuples : \A d, e \in handed'[t] : d # e => backend = "sqlite" /\ Home(d) # Home(e)
        BY <1>4, <1>7 DEF SpaceKept, TuplesAccounted
    <2>2. \A t \in ToSet(tuples') : handed'[t] = {} /\ t \notin wasted
        BY <1>3, <1>4 DEF SpaceKept, TuplesAccounted
    <2>3. \A t \in written : \/ t \in ToSet(tuples') \/ handed'[t] # {}
                             \/ t \in expired \cup cleared \cup wasted \/ (backend = "sqlite" /\ t \in swept)
        <3> TAKE t \in written
        <3>1. t \in Tuples BY DEF SpaceKept, TupleSpaceTypeOK
        <3> QED BY <3>1, <1>4, WrittenFacts DEF SpaceKept
    <2> QED BY <1>0, <2>1, <2>2, <2>3 DEF TuplesAccounted
<1>9. JobsInStep'
    <2>1. ASSUME NEW d \in SpaceClients PROVE JobInStep(d)'
        <3>1. CASE d # c
            <4>1. JobInStep(d) BY JobsSplit DEF SpaceKept
            <4>2. job[d].at # "delete" BY <4>1 DEF JobInStep
            <4>3. locked[Home(d)] = d => locked'[Home(d)] = d
                BY <1>0, <1>2, TupleSpaceAssumption
            <4>4. \A t \in Tuples : d \in handed[t] => d \in handed'[t] BY <1>4
            <4> QED BY <1>6, <3>1, <4>1, <4>2, <4>3, <4>4, OtherJob DEF SpaceKept
        <3>2. CASE d = c
            <4>1. all => locked'[Home(c)] = c BY <1>0 DEF SpaceKept, TupleSpaceTypeOK
            <4>2. \A t \in ToSet(items) : c \in handed'[t] BY <1>3, <1>4
            <4> QED BY <1>0, <1>1, <1>6, <3>2, <4>1, <4>2 DEF JobInStep
        <3> QED BY <3>1, <3>2
    <2>2. BarriersInStep'
        <3>1. \A h \in Homes : atBarrier[h] \subseteq SpaceClients BY DEF SpaceKept, TupleSpaceTypeOK
        <3> QED BY <1>0, <1>2, <1>6, <3>1, JobsSplit DEF SpaceKept, BarriersInStep
    <2> QED BY <2>1, <2>2 DEF JobsInStep, JobInStep, BarriersInStep
<1>10. \A t \in Tuples : handed[t] # {} => handed'[t] # {} BY <1>4
<1>11. EventsTrue'
    <2>1. ToSet(tuples') \cup {t \in Tuples : handed'[t] # {} \/ t \in wasted} \subseteq written'
        BY <1>4, <1>7 DEF SpaceKept, EventsTrue, Given
    <2>2. \A w \in Watchers : \A i \in 1..Len(chan[w]) : chan[w][i][1] = "Removed" =>
             handed'[chan[w][i][2]] # {} \/ chan[w][i][2] \in wasted
        <3> TAKE w \in Watchers
        <3> TAKE i \in 1..Len(chan[w])
        <3>1. chan[w][i][2] \in Tuples BY EventFacts DEF SpaceKept
        <3>2. chan[w][i][1] = "Removed" => handed[chan[w][i][2]] # {} \/ chan[w][i][2] \in wasted
            BY DEF SpaceKept, EventsTrue, Given
        <3> QED BY <3>1, <3>2, <1>10
    <2> QED BY <1>0, <2>1, <2>2 DEF SpaceKept, EventsTrue, Given
<1>12. NewsUnderWay'
    <2>1. \A t \in Excused \ Excused' : t \in ToSet(items) /\ t \notin StillUntold
        BY <1>4 DEF Excused
    <2>2. \A d \in SpaceClients : job'[d].event = "Added" /\ job'[d].at \in {"announce", "send"} =>
             ToSet(job'[d].items) \subseteq Excused'
        <3> SUFFICES ASSUME NEW d \in SpaceClients, job'[d].event = "Added", job'[d].at \in {"announce", "send"},
                            NEW t \in ToSet(job'[d].items)
                     PROVE  t \in Excused'
            OBVIOUS
        <3>1. job'[d] = job[d] BY <1>1, <1>6
        <3>2. t \in Excused BY <3>1 DEF SpaceKept, NewsUnderWay
        <3>3. job[d].items \in Seq(Tuples) BY CallFacts DEF SpaceKept
        <3>4. t \in Tuples BY <3>1, <3>3, NoneFacts
        <3>5. t \in StillUntold BY <3>1, <3>4 DEF StillUntold
        <3> QED BY <2>1, <3>2, <3>5
    <2>3. ASSUME NEW w, NEW s, NEW e, ToCome(w, e, s) PROVE ToCome(w, e, s)'
        <3>1. PICK d \in SpaceClients : Sends(d, w, e, s) BY <2>3, ToComeSplit
        <3>2. job'[d] = job[d] BY <1>2, <1>6, <3>1 DEF Sends
        <3>3. Sends(d, w, e, s)' BY <3>1, <3>2 DEF Sends
        <3> QED BY <3>3 DEF ToCome, Sends
    <2>4. \A w : \A s \in ToSet(items) : ToCome(w, "Removed", s)'
        <3>1. \A w : \A s \in ToSet(items) : Sends(c, w, "Removed", s)' BY <1>1, <1>6 DEF Sends
        <3> QED BY <3>1 DEF ToCome, Sends
    <2> QED BY <1>5, <2>1, <2>2, <2>3, <2>4, NewsKeep
<1> QED BY <1>5, <1>8, <1>9, <1>11, <1>12 DEF SpaceKept

\* take() in memory.
LEMMA TakeFirstStep ==
    ASSUME SpaceKept, NEW c \in SpaceClients, NEW p \in Patterns, TakeFirst(c, p)
    PROVE  SpaceKept'
<1>1. PICK found : found = Matching(Unexpired(tuples), p) OBVIOUS
<1>2. PICK left : left = Unexpired(tuples) OBVIOUS
<1>3. /\ left \in Seq(Tuples) /\ ToSet(left) = ToSet(tuples) \ expired
      /\ found \in Seq(Tuples) /\ ToSet(found) = (ToSet(tuples) \ expired) \cap p
    BY <1>1, <1>2, StoredFacts DEF SpaceKept
<1>4. /\ Call(c) /\ Free(c) /\ backend = "memory"
      /\ IF found = <<>>
         THEN tuples' = left /\ UNCHANGED <<job, handed, early>>
         ELSE /\ tuples' = Without(left, {Head(found)})
              /\ HandTo(c, {Head(found)})
              /\ job' = [job EXCEPT ![c] = Tell("Removed", <<Head(found)>>, FALSE)]
      /\ WatchersAlone /\ BarrierAlone
      /\ UNCHANGED <<backend, locked, expired, written, wasted, cut, cleared, swept>>
    BY <1>1, <1>2 DEF TakeFirst
<1>5. CASE found = <<>>
    <2>1. spaceOps' \in 0..MaxSpaceOps BY <1>4, CallCounts DEF SpaceKept
    <2>2. TupleSpaceTypeOK' BY <1>3, <1>4, <1>5, <2>1 DEF SpaceKept, TupleSpaceTypeOK, WatchersAlone, BarrierAlone
    <2> QED BY <1>3, <1>4, <1>5, <2>2, ShrinkStep
<1>6. CASE found # <<>>
    <2>1. Head(found) \in Tuples /\ Head(found) \in ToSet(found) BY <1>3, <1>6, EndFacts
    <2>2. PICK one : one = <<Head(found)>> OBVIOUS
    <2>3. one \in Seq(Tuples) /\ one # <<>> /\ ToSet(one) = {Head(found)} BY <2>1, <2>2, OneFacts
    <2>4. tuples' \in Seq(Tuples) /\ ToSet(tuples') = (ToSet(tuples) \ expired) \ ToSet(one)
        BY <1>3, <1>4, <1>6, <2>3, WithoutFacts
    <2>5. ToSet(one) \subseteq ToSet(tuples) \ expired BY <1>3, <2>1, <2>3
    <2>6. HandTo(c, ToSet(one)) BY <1>4, <1>6, <2>3
    <2>7. job' = [job EXCEPT ![c] = Tell("Removed", one, FALSE)] BY <1>4, <1>6, <2>2
    <2>8. locked' = IF FALSE THEN [locked EXCEPT ![Home(c)] = c] ELSE locked BY <1>4
    <2> QED BY <1>4, <2>3, <2>4, <2>5, <2>6, <2>7, <2>8, TakenStep
<1> QED BY <1>5, <1>6

\* take_all() in memory.
LEMMA TakeAllStep ==
    ASSUME SpaceKept, NEW c \in SpaceClients, NEW p \in Patterns, TakeAll(c, p)
    PROVE  SpaceKept'
<1>1. PICK found : found = Matching(Unexpired(tuples), p) OBVIOUS
<1>2. PICK left : left = Unexpired(tuples) OBVIOUS
<1>3. /\ left \in Seq(Tuples) /\ ToSet(left) = ToSet(tuples) \ expired
      /\ found \in Seq(Tuples) /\ ToSet(found) = (ToSet(tuples) \ expired) \cap p
    BY <1>1, <1>2, StoredFacts DEF SpaceKept
<1>4. /\ Call(c) /\ Free(c) /\ backend = "memory"
      /\ tuples' = Without(left, ToSet(found))
      /\ HandTo(c, ToSet(found))
      /\ IF found = <<>>
         THEN UNCHANGED <<job, locked>>
         ELSE /\ locked' = [locked EXCEPT ![Home(c)] = c]
              /\ job' = [job EXCEPT ![c] = Tell("Removed", found, TRUE)]
      /\ WatchersAlone /\ BarrierAlone
      /\ UNCHANGED <<backend, expired, written, wasted, cut, cleared, swept>>
    BY <1>1, <1>2 DEF TakeAll
<1>5. tuples' \in Seq(Tuples) /\ ToSet(tuples') = (ToSet(tuples) \ expired) \ ToSet(found)
    BY <1>3, <1>4, WithoutFacts
<1>6. CASE found = <<>>
    <2>1. spaceOps' \in 0..MaxSpaceOps BY <1>4, CallCounts DEF SpaceKept
    <2>2. ToSet(found) = {} BY <1>6, NoneFacts
    <2>3. handed' = handed /\ early' = early
        BY <1>4, <2>2 DEF SpaceKept, TupleSpaceTypeOK, HandTo
    <2>4. TupleSpaceTypeOK' BY <1>5, <1>4, <1>6, <2>1, <2>3 DEF SpaceKept, TupleSpaceTypeOK, WatchersAlone, BarrierAlone
    <2> QED BY <1>5, <1>4, <1>6, <2>2, <2>3, <2>4, ShrinkStep
<1>7. CASE found # <<>>
    <2>1. ToSet(found) \subseteq ToSet(tuples) \ expired BY <1>3
    <2>2. locked' = IF TRUE THEN [locked EXCEPT ![Home(c)] = c] ELSE locked BY <1>4, <1>7
    <2>3. job' = [job EXCEPT ![c] = Tell("Removed", found, TRUE)] BY <1>4, <1>7
    <2> QED BY <1>3, <1>4, <1>5, <1>7, <2>1, <2>2, <2>3, TakenStep
<1> QED BY <1>6, <1>7

\* Those who wait for a barrier go on waiting.
LEMMA BarriersKeep ==
    ASSUME SpaceKept, backend' = backend, atBarrier' = atBarrier,
           \A d \in SpaceClients : job[d].at = "wait" => job'[d] = job[d]
    PROVE  BarriersInStep'
<1>1. \A h \in Homes : atBarrier[h] \subseteq SpaceClients BY DEF SpaceKept, TupleSpaceTypeOK
<1>2. \A d : Home(d)' = Home(d) BY HomeStays
<1> QED BY <1>1, <1>2, JobsSplit DEF SpaceKept, BarriersInStep

\* A take on a table selects rows that nobody was given, and locks its space.
LEMMA SelectStep ==
    ASSUME SpaceKept, NEW c \in SpaceClients, NEW p \in Patterns, NEW all \in BOOLEAN, SelectRows(c, p, all)
    PROVE  SpaceKept'
<1> USE DEF WatchersAlone, BarrierAlone
<1>0. \A d : Home(d)' = Home(d) BY HomeStays DEF SelectRows
<1>00. Home(c) \in Homes BY CallFacts DEF SpaceKept
<1>1. PICK found : found = Matching(Unexpired(tuples), p) OBVIOUS
<1>2. found \in Seq(Tuples) /\ ToSet(found) = (ToSet(tuples) \ expired) \cap p
    BY <1>1, StoredFacts DEF SpaceKept
<1> DEFINE new == [Tell("Removed", found, all) EXCEPT !.at = "delete", !.got = {}]
<1>3. new \in Jobs /\ new.got = {} /\ new.at = "delete" /\ new.items = found /\ new.rest = {} /\ new.event = "Removed"
    <2>1. PICK base \in Jobs : /\ base = Tell("Removed", found, all) /\ base.items = found
                               /\ base.rest = {} /\ base.event = "Removed"
        BY <1>2, TellFacts
    <2> QED BY <2>1 DEF Jobs
<1> HIDE DEF new
<1>4. /\ Call(c) /\ Free(c) /\ backend = "sqlite"
      /\ IF found = <<>> THEN UNCHANGED <<job, locked>>
         ELSE /\ locked' = [locked EXCEPT ![Home(c)] = c]
              /\ job' = [job EXCEPT ![c] = new]
      /\ WatchersAlone /\ BarrierAlone
      /\ UNCHANGED <<backend, tuples, expired, written, handed, wasted, cut, cleared, swept, early>>
    BY <1>1 DEF SelectRows, new
<1>5. TupleSpaceTypeOK'
    <2>1. spaceOps' \in 0..MaxSpaceOps BY <1>4, CallCounts DEF SpaceKept
    <2>2. locked' \in [Homes -> SpaceClients \cup {NoClient}] BY <1>00, <1>4 DEF SpaceKept, TupleSpaceTypeOK
    <2>3. job' \in [SpaceClients -> Jobs] BY <1>3, <1>4 DEF SpaceKept, TupleSpaceTypeOK
    <2> QED BY <1>4, <2>1, <2>2, <2>3 DEF SpaceKept, TupleSpaceTypeOK
<1>6. /\ job \in [SpaceClients -> Jobs] /\ job[c].at = "idle" /\ locked[Home(c)] = NoClient
      /\ \A d \in SpaceClients : job'[d] = job[d] \/ (d = c /\ job'[d] = new /\ found # <<>> /\ locked'[Home(c)] = c)
    BY <1>00, <1>4 DEF SpaceKept, TupleSpaceTypeOK, Call, Free
<1>7. TuplesAccounted'
    BY <1>0, <1>4 DEF SpaceKept, TuplesAccounted
<1>8. JobsInStep'
    <2>1. ASSUME NEW d \in SpaceClients PROVE JobInStep(d)'
        <3>1. CASE job'[d] = job[d]
            <4>1. JobInStep(d) BY JobsSplit DEF SpaceKept
            <4>2. Home(d) \in Homes BY CallFacts DEF SpaceKept
            <4>3. locked[Home(d)] = d => locked'[Home(d)] = d
                BY <1>00, <1>4, <1>6, <4>2, TupleSpaceAssumption DEF SpaceKept, TupleSpaceTypeOK
            <4> QED BY <1>4, <3>1, <4>1, <4>3, OtherJob DEF SpaceKept
        <3>2. CASE d = c /\ job'[d] = new /\ found # <<>> /\ locked'[Home(c)] = c
            <4>1. ToSet(found) \subseteq written /\ \A t \in ToSet(found) : handed[t] = {}
                BY <1>2 DEF SpaceKept, TuplesAccounted, EventsTrue, Given
            <4> QED BY <1>0, <1>3, <1>4, <3>2, <4>1 DEF JobInStep
        <3> QED BY <1>6, <3>1, <3>2
    <2>2. BarriersInStep'
        BY <1>4, <1>6, BarriersKeep
    <2> QED BY <2>1, <2>2 DEF JobsInStep, JobInStep, BarriersInStep
<1>9. EventsTrue'
    BY <1>0, <1>4 DEF SpaceKept, EventsTrue, Given
<1>10. NewsUnderWay'
    BY <1>4 DEF NewsUnderWay
<1> QED BY <1>5, <1>7, <1>8, <1>9, <1>10 DEF SpaceKept

\* It deletes them: the lock has kept the other callers of its process away.
LEMMA DeleteStep ==
    ASSUME SpaceKept, NEW c \in SpaceClients, DeleteRows(c)
    PROVE  SpaceKept'
<1> USE DEF WatchersAlone, BarrierAlone
<1>0. \A d : Home(d)' = Home(d) BY HomeStays DEF DeleteRows
<1>1. PICK found : found = ToSet(job[c].items) OBVIOUS
<1>2. PICK kept : kept = IF job[c].all THEN job[c].items ELSE <<Last(job[c].items)>> OBVIOUS
<1>3. PICK all : all = job[c].all OBVIOUS
<1>4. /\ job[c].items \in Seq(Tuples) /\ all \in BOOLEAN /\ Home(c) \in Homes
    BY <1>3, CallFacts DEF SpaceKept
<1>5. /\ job[c].at = "delete" /\ job[c].items # <<>> /\ locked[Home(c)] = c /\ backend = "sqlite"
      /\ found \subseteq written /\ \A t \in found : \A d \in handed[t] : Home(d) # Home(c)
    BY <1>1, JobsSplit DEF SpaceKept, JobInStep, DeleteRows
<1>6. kept \in Seq(Tuples) /\ kept # <<>> /\ ToSet(kept) \subseteq found /\ found \subseteq Tuples
    <2>1. Last(job[c].items) \in ToSet(job[c].items) BY <1>4, <1>5, EndFacts
    <2>2. ToSet(job[c].items) \subseteq Tuples BY <1>4, NoneFacts
    <2>3. /\ <<Last(job[c].items)>> \in Seq(Tuples) /\ <<Last(job[c].items)>> # <<>>
          /\ ToSet(<<Last(job[c].items)>>) = {Last(job[c].items)}
        BY <2>1, <2>2, OneFacts
    <2> QED BY <1>1, <1>2, <1>4, <1>5, <2>1, <2>2, <2>3
<1> DEFINE new == Tell("Removed", kept, all)
<1>7. /\ new \in Jobs /\ new.at = "announce" /\ new.event = "Removed" /\ new.items = kept
      /\ new.rest = {} /\ new.all = all /\ new.got = ToSet(new.items)
    BY <1>4, <1>6, TellFacts
<1> HIDE DEF new
<1>8. /\ tuples' = Without(tuples, found) /\ HandTo(c, ToSet(kept))
      /\ swept' = swept \cup ((found \cap ToSet(tuples)) \ ToSet(kept))
      /\ job' = [job EXCEPT ![c] = new]
      /\ locked' = IF all THEN locked ELSE [locked EXCEPT ![Home(c)] = NoClient]
      /\ WatchersAlone /\ BarrierAlone
      /\ UNCHANGED <<backend, expired, written, wasted, cut, cleared, spaceOps>>
    BY <1>1, <1>2, <1>3 DEF DeleteRows, new
<1>9. tuples' \in Seq(Tuples) /\ ToSet(tuples') = ToSet(tuples) \ found
    BY <1>8, WithoutFacts DEF SpaceKept, TupleSpaceTypeOK
<1>10. /\ handed' \in [Tuples -> SUBSET SpaceClients] /\ early' \subseteq Tuples
       /\ \A t \in Tuples : handed'[t] = IF t \in ToSet(kept) THEN handed[t] \cup {c} ELSE handed[t]
    BY <1>6, <1>8, HandFacts DEF SpaceKept
<1>11. TupleSpaceTypeOK'
    <2>1. locked' \in [Homes -> SpaceClients \cup {NoClient}] BY <1>4, <1>8 DEF SpaceKept, TupleSpaceTypeOK
    <2>2. job' \in [SpaceClients -> Jobs] BY <1>7, <1>8 DEF SpaceKept, TupleSpaceTypeOK
    <2>3. swept' \subseteq Tuples BY <1>6, <1>8 DEF SpaceKept, TupleSpaceTypeOK
    <2> QED BY <1>8, <1>9, <1>10, <2>1, <2>2, <2>3 DEF SpaceKept, TupleSpaceTypeOK
<1>12. job \in [SpaceClients -> Jobs] /\ \A d \in SpaceClients : (d # c => job'[d] = job[d]) /\ (d = c => job'[d] = new)
    BY <1>8 DEF SpaceKept, TupleSpaceTypeOK
<1>13. TuplesAccounted'
    <2>1. \A t \in Tuples : \A d, e \in handed'[t] : d # e => backend = "sqlite" /\ Home(d) # Home(e)
        BY <1>5, <1>6, <1>10 DEF SpaceKept, TuplesAccounted
    <2>2. \A t \in ToSet(tuples') : handed'[t] = {} /\ t \notin wasted
        <3>1. ToSet(tuples) \subseteq Tuples BY UnexpiredFacts DEF SpaceKept
        <3> QED BY <1>6, <1>9, <1>10, <3>1 DEF SpaceKept, TuplesAccounted
    <2>3. \A t \in written : \/ t \in ToSet(tuples') \/ handed'[t] # {}
                             \/ t \in expired \cup cleared \cup wasted \/ (backend = "sqlite" /\ t \in swept')
        <3> TAKE t \in written
        <3>1. t \in Tuples BY DEF SpaceKept, TupleSpaceTypeOK
        <3> QED BY <3>1, <1>5, <1>8, <1>9, <1>10, WrittenFacts DEF SpaceKept
    <2> QED BY <1>0, <1>8, <2>1, <2>2, <2>3 DEF TuplesAccounted
<1>14. JobsInStep'
    <2>1. ASSUME NEW d \in SpaceClients PROVE JobInStep(d)'
        <3>1. CASE d # c
            <4>1. JobInStep(d) BY JobsSplit DEF SpaceKept
            <4>2. Home(d) \in Homes /\ ToSet(job[d].items) \subseteq Tuples BY CallFacts, NoneFacts DEF SpaceKept
            <4>3. locked[Home(d)] = d => Home(d) # Home(c) BY <1>5, <3>1
            <4>4. locked[Home(d)] = d => locked'[Home(d)] = d
                BY <1>8, <4>2, <4>3 DEF SpaceKept, TupleSpaceTypeOK
            <4>5. job[d].at = "delete" => Home(c) # Home(d) BY <4>1, <4>3 DEF JobInStep
            <4>6. job[d].at = "delete" =>
                    \A t \in ToSet(job[d].items) : \A e \in handed'[t] : e \in handed[t] \/ Home(e) # Home(d)
                BY <1>10, <4>2, <4>5
            <4>7. \A t \in Tuples : d \in handed[t] => d \in handed'[t] BY <1>10
            <4> QED BY <1>8, <1>12, <3>1, <4>1, <4>4, <4>6, <4>7, OtherJob DEF SpaceKept
        <3>2. CASE d = c
            <4>1. \A t \in ToSet(kept) : c \in handed'[t] BY <1>6, <1>10
            <4> QED BY <1>0, <1>5, <1>6, <1>7, <1>8, <1>12, <3>2, <4>1 DEF JobInStep
        <3> QED BY <3>1, <3>2
    <2>2. BarriersInStep'
        BY <1>5, <1>8, <1>12, BarriersKeep
    <2> QED BY <2>1, <2>2 DEF JobsInStep, JobInStep, BarriersInStep
<1>15. \A t \in Tuples : handed[t] # {} => handed'[t] # {} BY <1>10
<1>16. EventsTrue'
    <2>1. ToSet(tuples') \cup {t \in Tuples : handed'[t] # {} \/ t \in wasted} \subseteq written'
        BY <1>5, <1>6, <1>8, <1>9, <1>10 DEF SpaceKept, EventsTrue, Given
    <2>2. \A w \in Watchers : \A i \in 1..Len(chan[w]) : chan[w][i][1] = "Removed" =>
             handed'[chan[w][i][2]] # {} \/ chan[w][i][2] \in wasted
        <3> TAKE w \in Watchers
        <3> TAKE i \in 1..Len(chan[w])
        <3>1. chan[w][i][2] \in Tuples BY EventFacts DEF SpaceKept
        <3>2. chan[w][i][1] = "Removed" => handed[chan[w][i][2]] # {} \/ chan[w][i][2] \in wasted
            BY DEF SpaceKept, EventsTrue, Given
        <3> QED BY <3>1, <3>2, <1>15
    <2> QED BY <1>0, <1>8, <2>1, <2>2 DEF SpaceKept, EventsTrue, Given
<1>17. NewsUnderWay'
    BY <1>5, <1>8 DEF NewsUnderWay
<1> QED BY <1>11, <1>13, <1>14, <1>16, <1>17 DEF SpaceKept

\* A call that tells the watchers goes on, or ends, without sending anything.
LEMMA MoveStep ==
    ASSUME SpaceKept, NEW c \in SpaceClients, NEW new \in Jobs, job[c].at \in {"announce", "send"},
           job' = [job EXCEPT ![c] = new], JobInStep(c)', backend' = backend, BarrierAlone,
           UNCHANGED <<tuples, watching, chan, gone, mirror, since, expired, written, handed, wasted,
                       cut, cleared, swept, early, spaceOps>>,
           readers' \in [Homes -> SUBSET SpaceClients],
           locked' \in [Homes -> SpaceClients \cup {NoClient}],
           \A d \in SpaceClients \ {c} : locked[Home(d)] = d => locked'[Home(d)] = d,
           new.at \in {"announce", "send"} =>
             new.event = job[c].event /\ ToSet(new.items) \subseteq ToSet(job[c].items),
           backend = "memory" =>
             \A h \in Homes : \A w \in watching[h] : \A t \in Tuples, e \in {"Added", "Removed"} :
               Sends(c, w, e, t) => Sends(c, w, e, t)'
    PROVE  SpaceKept'
<1> USE DEF BarrierAlone
<1>0. \A d : Home(d)' = Home(d) BY HomeStays
<1>1. job \in [SpaceClients -> Jobs] /\ \A d \in SpaceClients : (d # c => job'[d] = job[d]) /\ (d = c => job'[d] = new)
    BY DEF SpaceKept, TupleSpaceTypeOK
<1>2. TupleSpaceTypeOK'
    BY DEF SpaceKept, TupleSpaceTypeOK
<1>3. TuplesAccounted'
    BY <1>0 DEF SpaceKept, TuplesAccounted
<1>4. JobsInStep'
    <2>1. ASSUME NEW d \in SpaceClients, d # c PROVE JobInStep(d)'
        BY <1>1, <2>1, JobsSplit, OtherJob DEF SpaceKept
    <2>2. BarriersInStep'
        BY <1>1, BarriersKeep
    <2>3. \A d \in SpaceClients : JobInStep(d)' BY <2>1
    <2> QED BY <2>2, <2>3 DEF JobsInStep, JobInStep, BarriersInStep
<1>5. EventsTrue'
    BY <1>0 DEF SpaceKept, EventsTrue, Given
<1>6. NewsUnderWay'
    <2>1. Excused' = Excused BY DEF Excused
    <2>2. ASSUME NEW d \in SpaceClients, backend = "memory", job'[d].event = "Added", job'[d].at \in {"announce", "send"}
          PROVE  ToSet(job'[d].items) \subseteq Excused'
        <3>1. job[d].event = "Added" /\ job[d].at \in {"announce", "send"} /\ ToSet(job'[d].items) \subseteq ToSet(job[d].items)
            BY <1>1, <2>2
        <3> QED BY <2>1, <2>2, <3>1 DEF SpaceKept, NewsUnderWay
    <2>3. ASSUME backend = "memory", NEW h \in Homes, NEW w \in watching[h], NEW t \in Tuples,
                 NEW e \in {"Added", "Removed"}, ToCome(w, e, t)
          PROVE  ToCome(w, e, t)'
        <3>1. PICK d \in SpaceClients : Sends(d, w, e, t) BY <2>3, ToComeSplit
        <3>2. CASE d = c
            <4>1. Sends(c, w, e, t)' BY <2>3, <3>1, <3>2
            <4> QED BY <4>1 DEF ToCome, Sends
        <3>3. CASE d # c
            <4>1. Sends(d, w, e, t)' BY <1>1, <3>1, <3>3 DEF Sends
            <4> QED BY <4>1 DEF ToCome, Sends
        <3> QED BY <3>2, <3>3
    <2> QED BY <1>2, <2>1, <2>2, <2>3, NewsKeep
<1> QED BY <1>2, <1>3, <1>4, <1>5, <1>6 DEF SpaceKept

\* In memory all watchers are in the space that all clients call.
LEMMA OneHome ==
    ASSUME SpaceKept, backend = "memory", NEW h \in Homes, NEW w \in watching[h], NEW c \in SpaceClients
    PROVE  Home(c) = h
    BY DEF SpaceKept, EventsTrue, Given

\* A call gets the watchers' lock: whoever watches now will be told.
LEMMA AnnounceStep ==
    ASSUME SpaceKept, NEW c \in SpaceClients, Announce(c)
    PROVE  SpaceKept'
<1> USE DEF StorageAlone
<1>0. (\A d : Home(d)' = Home(d)) /\ Home(c) \in Homes BY HomeStays, CallFacts DEF Announce, SpaceKept
<1> DEFINE new == [job[c] EXCEPT !.at = "send", !.rest = watching[Home(c)]]
<1>1. job[c] \in Jobs /\ job[c].items \in Seq(Tuples) BY CallFacts DEF SpaceKept
<1>2. watching[Home(c)] \subseteq Watchers BY <1>0 DEF SpaceKept, TupleSpaceTypeOK
<1>3. /\ new \in Jobs /\ new.at = "send" /\ new.rest = watching[Home(c)] /\ new.items = job[c].items
      /\ new.event = job[c].event /\ new.all = job[c].all /\ new.got = job[c].got
    BY <1>1, <1>2 DEF Jobs
<1>4. job[c].at = "announce" /\ job' = [job EXCEPT ![c] = new] BY DEF Announce
<1> HIDE DEF new
<1>5. job'[c] = new BY <1>4 DEF SpaceKept, TupleSpaceTypeOK
<1>6. JobInStep(c) BY JobsSplit DEF SpaceKept
<1>7. JobInStep(c)' BY <1>0, <1>3, <1>4, <1>5, <1>6 DEF JobInStep, Announce
<1>8. readers' \in [Homes -> SUBSET SpaceClients] BY <1>0 DEF Announce, SpaceKept, TupleSpaceTypeOK
<1>9. locked' \in [Homes -> SpaceClients \cup {NoClient}] BY DEF Announce, SpaceKept, TupleSpaceTypeOK
<1>10. ASSUME backend = "memory", NEW h \in Homes, NEW w \in watching[h], NEW t \in Tuples,
              NEW e \in {"Added", "Removed"}, Sends(c, w, e, t)
       PROVE  Sends(c, w, e, t)'
    <2>1. w \in new.rest BY <1>3, <1>10, OneHome
    <2>2. job[c].event = e /\ t \in ToSet(job[c].items) BY <1>4, <1>10 DEF Sends
    <2>3. t = Head(job[c].items) \/ t \in ToSet(Tail(job[c].items))
        BY <1>1, <1>4, <1>6, <2>2, EndFacts DEF JobInStep
    <2> QED BY <1>3, <1>5, <2>1, <2>2, <2>3 DEF Sends
<1> QED BY <1>3, <1>4, <1>7, <1>8, <1>9, <1>10, MoveStep DEF Announce

\* All have been told of one tuple.
LEMMA ToldStep ==
    ASSUME SpaceKept, NEW c \in SpaceClients, Told(c)
    PROVE  SpaceKept'
<1>0. /\ backend' = backend /\ (\A d : Home(d)' = Home(d)) /\ Home(c) \in Homes /\ BarrierAlone
      /\ UNCHANGED <<tuples, watching, chan, gone, mirror, since, expired, written, handed, wasted,
                     cut, cleared, swept, early, spaceOps>>
    BY HomeStays, CallFacts DEF Told, SpaceKept
<1>1. job[c] \in Jobs /\ job[c].items \in Seq(Tuples) /\ job[c].event \in {"Added", "Removed"} /\ job[c].all \in BOOLEAN
    BY CallFacts DEF SpaceKept
<1>2. job[c].at = "send" /\ job[c].rest = {} BY DEF Told
<1>3. JobInStep(c) BY JobsSplit DEF SpaceKept
<1>4. PICK more : more = Tail(job[c].items) OBVIOUS
<1>5. /\ more \in Seq(Tuples) /\ ToSet(more) \subseteq ToSet(job[c].items) /\ job[c].items # <<>>
      /\ Len(more) = Len(job[c].items) - 1
      /\ job[c].event = "Added" => Len(job[c].items) = 1
    BY <1>1, <1>2, <1>3, <1>4, EndFacts DEF JobInStep
<1>6. \A w, e, t : Sends(c, w, e, t) => job[c].event = e /\ t \in ToSet(more)
    BY <1>2, <1>4 DEF Sends
<1>7. watching[Home(c)] \subseteq Watchers BY <1>0 DEF SpaceKept, TupleSpaceTypeOK
<1>8. \A x \in Jobs : job' = [job EXCEPT ![c] = x] => job'[c] = x BY DEF SpaceKept, TupleSpaceTypeOK
<1>9. job[c].all => locked[Home(c)] = c BY <1>2, <1>3 DEF JobInStep
<1>10. /\ readers \in [Homes -> SUBSET SpaceClients] /\ locked \in [Homes -> SpaceClients \cup {NoClient}]
       /\ [readers EXCEPT ![Home(c)] = @ \ {c}] \in [Homes -> SUBSET SpaceClients]
       /\ [locked EXCEPT ![Home(c)] = NoClient] \in [Homes -> SpaceClients \cup {NoClient}]
    BY <1>0 DEF SpaceKept, TupleSpaceTypeOK
<1>11. CASE job[c].event = "Added"
    <2> DEFINE new == [job[c] EXCEPT !.at = "gate"]
    <2>1. /\ new \in Jobs /\ new.at = "gate" /\ new.rest = {} /\ new.items = job[c].items
          /\ new.got = job[c].got
        BY <1>1, <1>2 DEF Jobs
    <2>2. job' = [job EXCEPT ![c] = new] /\ UNCHANGED <<readers, locked>> BY <1>11 DEF Told
    <2> HIDE DEF new
    <2>3. JobInStep(c)' BY <1>0, <1>3, <1>5, <1>8, <2>1, <2>2 DEF JobInStep
    <2>4. ToSet(more) = {}
        <3>1. Len(more) = 0 BY <1>5, <1>11
        <3>2. more = <<>> BY <1>5, <3>1, EmptySeq
        <3> QED BY <3>2, NoneFacts
    <2> QED BY <1>0, <1>2, <1>6, <1>10, <2>1, <2>2, <2>3, <2>4, MoveStep
<1>12. CASE job[c].event # "Added" /\ more = <<>>
    <2>1. /\ job' = [job EXCEPT ![c] = Idle] /\ readers' = [readers EXCEPT ![Home(c)] = @ \ {c}]
          /\ locked' = IF job[c].all THEN [locked EXCEPT ![Home(c)] = NoClient] ELSE locked
        BY <1>4, <1>12 DEF Told
    <2>2. JobInStep(c)' BY <1>0, <1>8, <2>1, IdleFacts DEF JobInStep
    <2>3. ToSet(more) = {} BY <1>12, NoneFacts
    <2>4. \A d \in SpaceClients \ {c} : locked[Home(d)] = d => locked'[Home(d)] = d
        <3> TAKE d \in SpaceClients \ {c}
        <3>1. Home(d) \in Homes BY CallFacts DEF SpaceKept
        <3> QED BY <1>9, <1>10, <2>1, <3>1
    <2> QED BY <1>0, <1>2, <1>6, <1>10, <2>1, <2>2, <2>3, <2>4, IdleFacts, MoveStep
<1>13. CASE job[c].event # "Added" /\ more # <<>> /\ backend = "memory"
    <2> DEFINE new == [job[c] EXCEPT !.at = "announce", !.items = more]
    <2>1. /\ new \in Jobs /\ new.at = "announce" /\ new.rest = {} /\ new.items = more /\ new.event = job[c].event
          /\ new.all = job[c].all /\ new.got = job[c].got
        BY <1>1, <1>2, <1>5 DEF Jobs
    <2>2. job' = [job EXCEPT ![c] = new] /\ UNCHANGED locked /\ readers' = [readers EXCEPT ![Home(c)] = @ \ {c}]
        BY <1>4, <1>13 DEF Told
    <2> HIDE DEF new
    <2>3. JobInStep(c)' BY <1>0, <1>2, <1>3, <1>5, <1>8, <1>9, <1>13, <2>1, <2>2 DEF JobInStep
    <2>4. \A w, e, t : Sends(c, w, e, t) => Sends(c, w, e, t)' BY <1>6, <1>8, <2>1, <2>2 DEF Sends
    <2> QED BY <1>0, <1>2, <1>5, <1>10, <2>1, <2>2, <2>3, <2>4, MoveStep
<1>14. CASE job[c].event # "Added" /\ more # <<>> /\ backend # "memory"
    <2> DEFINE new == [job[c] EXCEPT !.items = more, !.rest = watching[Home(c)]]
    <2>1. /\ new \in Jobs /\ new.at = "send" /\ new.rest = watching[Home(c)] /\ new.items = more
          /\ new.event = job[c].event /\ new.all = job[c].all /\ new.got = job[c].got
        BY <1>1, <1>2, <1>5, <1>7 DEF Jobs
    <2>2. job' = [job EXCEPT ![c] = new] /\ UNCHANGED <<readers, locked>>
        BY <1>4, <1>14 DEF Told
    <2> HIDE DEF new
    <2>3. JobInStep(c)' BY <1>0, <1>2, <1>3, <1>5, <1>8, <1>9, <1>14, <2>1, <2>2 DEF JobInStep
    <2> QED BY <1>0, <1>2, <1>5, <1>10, <1>14, <2>1, <2>2, <2>3, MoveStep
<1> QED BY <1>11, <1>12, <1>13, <1>14

\* A new watcher is told of nothing older, and has been told nothing.
LEMMA EnteredStep ==
    ASSUME SpaceKept, NEW c \in SpaceClients, WatchEntered(c)
    PROVE  SpaceKept'
<1> USE DEF StorageAlone, BarrierAlone
<1>0. (\A d : Home(d)' = Home(d)) /\ Home(c) \in Homes BY HomeStays, CallFacts DEF WatchEntered, SpaceKept
<1>1. PICK x \in Watchers : x = job[c].watcher BY CallFacts DEF SpaceKept
<1>2. /\ job[c].at = "watch" /\ watching' = [watching EXCEPT ![Home(c)] = @ \cup {x}]
      /\ since' = [since EXCEPT ![x] = written] /\ job' = [job EXCEPT ![c] = Idle]
      /\ StorageAlone /\ BarrierAlone /\ UNCHANGED <<backend, readers, chan, gone, mirror, spaceOps>>
    BY <1>1 DEF WatchEntered
<1>3. job \in [SpaceClients -> Jobs] /\ \A d \in SpaceClients : (d # c => job'[d] = job[d]) /\ (d = c => job'[d] = Idle)
    BY <1>2 DEF SpaceKept, TupleSpaceTypeOK
<1>4. TupleSpaceTypeOK'
    <2>1. watching' \in [Homes -> SUBSET Watchers] BY <1>0, <1>2 DEF SpaceKept, TupleSpaceTypeOK
    <2>2. since' \in [Watchers -> SUBSET Tuples] BY <1>2 DEF SpaceKept, TupleSpaceTypeOK
    <2>3. job' \in [SpaceClients -> Jobs] BY <1>2, IdleFacts DEF SpaceKept, TupleSpaceTypeOK
    <2> QED BY <1>2, <2>1, <2>2, <2>3 DEF SpaceKept, TupleSpaceTypeOK
<1>5. \A h \in Homes : /\ watching[h] \subseteq watching'[h]
                       /\ \A w \in watching'[h] : w \in watching[h] \/ (w = x /\ h = Home(c))
    BY <1>0, <1>2 DEF SpaceKept, TupleSpaceTypeOK
<1>6. TuplesAccounted'
    BY <1>0, <1>2 DEF SpaceKept, TuplesAccounted
<1>7. JobsInStep'
    <2>1. ASSUME NEW d \in SpaceClients PROVE JobInStep(d)'
        <3>1. CASE d # c
            BY <1>2, <1>3, <1>5, <3>1, JobsSplit, OtherJob DEF SpaceKept
        <3>2. CASE d = c
            BY <1>3, <3>2, IdleFacts DEF JobInStep
        <3> QED BY <3>1, <3>2
    <2>2. BarriersInStep'
        BY <1>2, <1>3, BarriersKeep
    <2> QED BY <2>1, <2>2 DEF JobsInStep, JobInStep, BarriersInStep
<1>8. EventsTrue'
    <2>2. \A w \in Watchers : (\A h \in Homes : w \notin watching'[h]) => chan[w] = <<>> /\ mirror[w] = {}
        BY <1>5 DEF SpaceKept, EventsTrue, Given
    <2>3. backend = "memory" => \A h \in Homes : watching'[h] # {} => \A d \in SpaceClients : Home(d) = h
        <3> SUFFICES ASSUME backend = "memory", NEW h \in Homes, NEW w \in watching'[h], NEW d \in SpaceClients
                     PROVE  Home(d) = h
            OBVIOUS
        <3>1. CASE w \in watching[h] BY <3>1, OneHome
        <3>2. CASE h = Home(c) BY <3>2 DEF Home
        <3> QED BY <1>5, <3>1, <3>2
    <2> QED BY <1>0, <1>2, <2>2, <2>3 DEF SpaceKept, EventsTrue, Given
<1>9. NewsUnderWay'
    <2>1. Excused' = Excused BY <1>2 DEF Excused
    <2>2. \A d \in SpaceClients : backend = "memory" /\ job'[d].event = "Added" /\ job'[d].at \in {"announce", "send"} =>
             ToSet(job'[d].items) \subseteq Excused'
        BY <1>3, <2>1, IdleFacts DEF SpaceKept, NewsUnderWay
    <2>3. ASSUME NEW w, NEW t, NEW e, ToCome(w, e, t) PROVE ToCome(w, e, t)'
        <3>1. PICK d \in SpaceClients : Sends(d, w, e, t) BY <2>3, ToComeSplit
        <3>2. job'[d] = job[d] BY <1>2, <1>3, <3>1 DEF Sends
        <3>3. Sends(d, w, e, t)' BY <3>1, <3>2 DEF Sends
        <3> QED BY <3>3 DEF ToCome, Sends
    <2>4. ToSet(tuples') \subseteq written BY <1>2 DEF SpaceKept, EventsTrue, Given
    <2>5. \A w \in Watchers : since[w] \subseteq since'[w] \/ ToSet(tuples') \subseteq since'[w]
        BY <1>2, <2>4 DEF SpaceKept, TupleSpaceTypeOK
    <2>6. ASSUME backend = "memory", NEW h \in Homes, NEW w \in watching'[h], w \notin watching[h]
          PROVE  chan[w] = <<>> /\ mirror[w] = {} /\ ToSet(tuples') \subseteq since'[w]
        <3>1. w = x /\ h = Home(c) BY <1>5, <2>6
        <3>2. \A k \in Homes : w \notin watching[k] BY <2>6, <3>1, OneHome
        <3>3. chan[w] = <<>> /\ mirror[w] = {} BY <3>1, <3>2 DEF SpaceKept, EventsTrue, Given
        <3>4. since'[w] = written BY <1>2, <3>1 DEF SpaceKept, TupleSpaceTypeOK
        <3> QED BY <2>4, <3>3, <3>4
    <2> QED BY <1>2, <1>4, <2>1, <2>2, <2>3, <2>5, <2>6, NewsKeep
<1> QED BY <1>4, <1>6, <1>7, <1>8, <1>9 DEF SpaceKept

\* An event goes into a channel, behind those that it may contradict.
LEMMA SendStep ==
    ASSUME SpaceKept, NEW c \in SpaceClients, SendEvent(c)
    PROVE  SpaceKept'
<1> USE DEF StorageAlone, BarrierAlone
<1>0. \A d : Home(d)' = Home(d) BY HomeStays DEF SendEvent
<1>1. PICK x : x = CHOOSE w \in job[c].rest : TRUE OBVIOUS
<1>2. x \in job[c].rest BY <1>1 DEF SendEvent
<1>3. /\ job[c] \in Jobs /\ job[c].items \in Seq(Tuples) /\ job[c].event \in {"Added", "Removed"}
      /\ job[c].rest \subseteq Watchers /\ Home(c) \in Homes
    BY CallFacts DEF SpaceKept
<1>4. JobInStep(c) BY JobsSplit DEF SpaceKept
<1>5. PICK t0 : t0 = Head(job[c].items) OBVIOUS
<1>6. PICK e0 : e0 = job[c].event OBVIOUS
<1>7. job[c].at = "send" /\ job[c].items # <<>> BY <1>4 DEF JobInStep, SendEvent
<1>8. t0 \in Tuples /\ t0 \in ToSet(job[c].items) /\ e0 \in {"Added", "Removed"} /\ x \in Watchers
    BY <1>2, <1>3, <1>5, <1>6, <1>7, EndFacts
<1> DEFINE new == [job[c] EXCEPT !.rest = @ \ {x}]
<1>9. /\ new \in Jobs /\ new.at = job[c].at /\ new.rest = job[c].rest \ {x} /\ new.items = job[c].items
      /\ new.event = job[c].event /\ new.all = job[c].all /\ new.got = job[c].got
    BY <1>3 DEF Jobs
<1>10. /\ job' = [job EXCEPT ![c] = new]
       /\ chan' = IF x \in gone THEN chan ELSE [chan EXCEPT ![x] = Append(@, <<e0, t0>>)]
       /\ StorageAlone /\ BarrierAlone /\ UNCHANGED <<backend, readers, watching, gone, mirror, since, spaceOps>>
    BY <1>1, <1>5, <1>6 DEF SendEvent
<1> HIDE DEF new
<1>11. job \in [SpaceClients -> Jobs] /\ \A d \in SpaceClients : (d # c => job'[d] = job[d]) /\ (d = c => job'[d] = new)
    BY <1>10 DEF SpaceKept, TupleSpaceTypeOK
<1> DEFINE Event == {"Added", "Removed"} \X Tuples
<1>12. <<e0, t0>> \in Event BY <1>8
<1>13. chan \in [Watchers -> Seq(Event)] BY DEF SpaceKept, TupleSpaceTypeOK
<1>14. \A w \in Watchers : \/ chan'[w] = chan[w] /\ (w = x => x \in gone)
                           \/ w = x /\ x \notin gone /\ chan'[w] = Append(chan[w], <<e0, t0>>)
    BY <1>8, <1>10, <1>13
<1>15. TupleSpaceTypeOK'
    <2>1. job' \in [SpaceClients -> Jobs] BY <1>9, <1>10 DEF SpaceKept, TupleSpaceTypeOK
    <2>2. Append(chan[x], <<e0, t0>>) \in Seq(Event)
        <3> HIDE DEF Event
        <3> QED BY <1>8, <1>12, <1>13, AppendFacts
    <2>3. chan' \in [Watchers -> Seq(Event)]
        <3> HIDE DEF Event
        <3> QED BY <1>8, <1>10, <1>13, <2>2
    <2> QED BY <1>10, <2>1, <2>3 DEF SpaceKept, TupleSpaceTypeOK
<1>16. TuplesAccounted'
    BY <1>0, <1>10 DEF SpaceKept, TuplesAccounted
<1>17. JobsInStep'
    <2>1. ASSUME NEW d \in SpaceClients PROVE JobInStep(d)'
        <3>1. CASE d # c
            BY <1>10, <1>11, <3>1, JobsSplit, OtherJob DEF SpaceKept
        <3>2. CASE d = c
            BY <1>0, <1>4, <1>9, <1>10, <1>11, <1>7, <3>2 DEF JobInStep
        <3> QED BY <3>1, <3>2
    <2>2. BarriersInStep'
        BY <1>7, <1>10, <1>11, BarriersKeep
    <2> QED BY <2>1, <2>2 DEF JobsInStep, JobInStep, BarriersInStep
<1>18. EventsTrue'
    <2>2. e0 = "Removed" => handed[t0] # {} \/ t0 \in wasted
        BY <1>4, <1>6, <1>7, <1>8 DEF JobInStep
    <2>3. ASSUME NEW w \in Watchers, NEW i \in 1..Len(chan'[w]), chan'[w][i][1] = "Removed"
          PROVE  handed[chan'[w][i][2]] # {} \/ chan'[w][i][2] \in wasted
        <3>1. \A k \in 1..Len(chan[w]) : chan[w][k][1] = "Removed" =>
                 handed[chan[w][k][2]] # {} \/ chan[w][k][2] \in wasted
            BY DEF SpaceKept, EventsTrue, Given
        <3>2. CASE chan'[w] = chan[w] BY <2>3, <3>1, <3>2
        <3>3. CASE chan'[w] = Append(chan[w], <<e0, t0>>)
            <4>1. /\ Len(chan'[w]) = Len(chan[w]) + 1 /\ Len(chan[w]) \in Nat
                  /\ chan'[w][Len(chan[w]) + 1] = <<e0, t0>>
                  /\ \A k \in 1..Len(chan[w]) : chan'[w][k] = chan[w][k]
                <5> HIDE DEF Event
                <5> QED BY <1>12, <1>13, <3>3, AppendFacts
            <4>2. i \in 1..Len(chan[w]) \/ i = Len(chan[w]) + 1 BY <4>1
            <4>3. CASE i \in 1..Len(chan[w]) BY <2>3, <3>1, <4>1, <4>3
            <4>4. CASE i = Len(chan[w]) + 1
                <5>1. chan'[w][i] = <<e0, t0>> BY <4>1, <4>4
                <5> QED BY <2>2, <2>3, <5>1
            <4> QED BY <4>2, <4>3, <4>4
        <3> QED BY <1>14, <3>2, <3>3
    <2>4. ASSUME NEW w \in Watchers, \A h \in Homes : w \notin watching[h]
          PROVE  chan'[w] = <<>> /\ mirror[w] = {}
        <3>1. x \in watching[Home(c)] BY <1>2, <1>4 DEF JobInStep
        <3>2. w # x BY <1>3, <2>4, <3>1
        <3> QED BY <1>14, <2>4, <3>2 DEF SpaceKept, EventsTrue, Given
    <2>5. /\ ToSet(tuples) \cup {t \in Tuples : handed[t] # {} \/ t \in wasted} \subseteq written
          /\ backend = "memory" => \A h \in Homes : watching[h] # {} => \A d \in SpaceClients : Home(d) = h
        BY DEF SpaceKept, EventsTrue, Given
    <2>6. \A w \in Watchers :
            /\ \A i \in 1..Len(chan'[w]) : chan'[w][i][1] = "Removed" =>
                 handed[chan'[w][i][2]] # {} \/ chan'[w][i][2] \in wasted
            /\ (\A h \in Homes : w \notin watching[h]) => chan'[w] = <<>> /\ mirror[w] = {}
        BY <2>3, <2>4
    <2> QED BY <1>0, <1>10, <2>5, <2>6 DEF EventsTrue, Given
<1>19. NewsUnderWay'
    <2>1. Excused' = Excused BY <1>10 DEF Excused
    <2>2. \A d \in SpaceClients : backend = "memory" /\ job'[d].event = "Added" /\ job'[d].at \in {"announce", "send"} =>
             ToSet(job'[d].items) \subseteq Excused
        BY <1>9, <1>11 DEF SpaceKept, NewsUnderWay
    <2>3. ASSUME NEW w, NEW t, NEW e, ToCome(w, e, t)
          PROVE  ToCome(w, e, t)' \/ (w = x /\ e = e0 /\ t = t0)
        <3>1. PICK d \in SpaceClients : Sends(d, w, e, t) BY <2>3, ToComeSplit
        <3>2. CASE d # c
            <4>1. Sends(d, w, e, t)' BY <1>11, <3>1, <3>2 DEF Sends
            <4> QED BY <4>1 DEF ToCome, Sends
        <3>3. CASE d = c /\ ~(w = x /\ e = e0 /\ t = t0)
            <4>1. Sends(c, w, e, t)' BY <1>5, <1>6, <1>7, <1>9, <1>11, <3>1, <3>3 DEF Sends
            <4> QED BY <4>1 DEF ToCome, Sends
        <3> QED BY <3>2, <3>3
    <2> SUFFICES ASSUME backend = "memory", NEW h \in Homes, NEW w \in watching[h] \ gone
                 PROVE /\ \A t \in ToSet(tuples) \ (since[w] \cup expired \cup cut) :
                            t \in mirror[w] \/ <<"Added", t>> \in ToSet(chan'[w]) \/ ToCome(w, "Added", t)'
                       /\ \A t \in mirror[w] \ Excused :
                            <<"Removed", t>> \in ToSet(chan'[w]) \/ ToCome(w, "Removed", t)'
                       /\ \A i \in 1..Len(chan'[w]) : \A t \in Tuples \ Excused :
                            chan'[w][i] = <<"Added", t>> =>
                              \/ \E j \in i + 1..Len(chan'[w]) : chan'[w][j] = <<"Removed", t>>
                              \/ ToCome(w, "Removed", t)'
        BY <1>10, <2>1, <2>2 DEF NewsUnderWay
    <2>4. w \in Watchers BY DEF SpaceKept, TupleSpaceTypeOK
    <2>5. /\ \A t \in ToSet(tuples) \ (since[w] \cup expired \cup cut) :
                t \in mirror[w] \/ <<"Added", t>> \in ToSet(chan[w]) \/ ToCome(w, "Added", t)
          /\ \A t \in mirror[w] \ Excused :
                <<"Removed", t>> \in ToSet(chan[w]) \/ ToCome(w, "Removed", t)
          /\ \A i \in 1..Len(chan[w]) : \A t \in Tuples \ Excused :
                chan[w][i] = <<"Added", t>> =>
                  \/ \E j \in i + 1..Len(chan[w]) : chan[w][j] = <<"Removed", t>>
                  \/ ToCome(w, "Removed", t)
        BY DEF SpaceKept, NewsUnderWay
    <2>6. CASE w # x
        <3>1. chan'[w] = chan[w] BY <1>14, <2>4, <2>6
        <3>2. \A e, t : ToCome(w, e, t) => ToCome(w, e, t)' BY <2>3, <2>6
        <3> QED BY <2>5, <3>1, <3>2
    <2>7. CASE w = x
        <3>1. chan'[w] = Append(chan[w], <<e0, t0>>) BY <1>14, <2>4, <2>7
        <3>2. /\ Len(chan'[w]) = Len(chan[w]) + 1 /\ Len(chan[w]) \in Nat
              /\ chan'[w][Len(chan[w]) + 1] = <<e0, t0>>
              /\ \A k \in 1..Len(chan[w]) : chan'[w][k] = chan[w][k]
              /\ ToSet(chan'[w]) = ToSet(chan[w]) \cup {<<e0, t0>>}
            <4> HIDE DEF Event
            <4>1. chan[w] \in Seq(Event) BY <1>13, <2>4
            <4>2. PICK longer : longer = Append(chan[w], <<e0, t0>>) OBVIOUS
            <4>3. /\ Len(longer) = Len(chan[w]) + 1 /\ Len(chan[w]) \in Nat
                  /\ longer[Len(chan[w]) + 1] = <<e0, t0>>
                  /\ \A k \in 1..Len(chan[w]) : longer[k] = chan[w][k]
                  /\ ToSet(longer) = ToSet(chan[w]) \cup {<<e0, t0>>}
                BY <1>12, <4>1, <4>2, AppendFacts
            <4>4. chan'[w] = longer BY <3>1, <4>2
            <4> QED BY <4>3, <4>4
        <3>3. \A e, t : ToCome(w, e, t) => ToCome(w, e, t)' \/ <<e, t>> = <<e0, t0>> BY <2>3
        <3>4. \A t \in ToSet(tuples) \ (since[w] \cup expired \cup cut) :
                t \in mirror[w] \/ <<"Added", t>> \in ToSet(chan'[w]) \/ ToCome(w, "Added", t)'
            BY <2>5, <3>2, <3>3
        <3>5. \A t \in mirror[w] \ Excused :
                <<"Removed", t>> \in ToSet(chan'[w]) \/ ToCome(w, "Removed", t)'
            BY <2>5, <3>2, <3>3
        <3>6. ASSUME NEW i \in 1..Len(chan'[w]), NEW t \in Tuples \ Excused, chan'[w][i] = <<"Added", t>>
              PROVE  \/ \E j \in i + 1..Len(chan'[w]) : chan'[w][j] = <<"Removed", t>>
                     \/ ToCome(w, "Removed", t)'
            <4>1. i \in 1..Len(chan[w]) \/ i = Len(chan[w]) + 1 BY <3>2
            <4>2. CASE i = Len(chan[w]) + 1
                <5>1. <<e0, t0>> = <<"Added", t>> BY <3>2, <3>6, <4>2
                <5>2. e0 = "Added" /\ t0 = t BY <5>1
                <5>3. t0 \in Excused BY <1>6, <1>7, <1>8, <5>2 DEF SpaceKept, NewsUnderWay
                <5> QED BY <5>2, <5>3
            <4>3. CASE i \in 1..Len(chan[w])
                <5>1. chan[w][i] = <<"Added", t>> BY <3>2, <3>6, <4>3
                <5>2. CASE \E j \in i + 1..Len(chan[w]) : chan[w][j] = <<"Removed", t>>
                    <6>1. PICK j \in i + 1..Len(chan[w]) : chan[w][j] = <<"Removed", t>> BY <5>2
                    <6>2. j \in i + 1..Len(chan'[w]) /\ chan'[w][j] = <<"Removed", t>> BY <3>2, <6>1
                    <6> QED BY <6>2
                <5>3. CASE ToCome(w, "Removed", t)
                    <6>1. CASE <<"Removed", t>> = <<e0, t0>>
                        <7>1. Len(chan[w]) + 1 \in i + 1..Len(chan'[w]) /\ chan'[w][Len(chan[w]) + 1] = <<"Removed", t>>
                            BY <3>2, <4>3, <6>1
                        <7> QED BY <7>1
                    <6> QED BY <3>3, <5>3, <6>1
                <5> QED BY <2>5, <4>3, <5>1, <5>2, <5>3
            <4> QED BY <4>1, <4>2, <4>3
        <3> QED BY <3>4, <3>5, <3>6
    <2> QED BY <2>6, <2>7
<1> QED BY <1>15, <1>16, <1>17, <1>18, <1>19 DEF SpaceKept

\* A receiver enters an event in its book.
LEMMA ReceiveStep ==
    ASSUME SpaceKept, NEW x \in Watchers, ReceiveEvent(x)
    PROVE  SpaceKept'
<1> USE DEF StorageAlone, BarrierAlone
<1>0. \A d : Home(d)' = Home(d) BY HomeStays DEF ReceiveEvent
<1> DEFINE Event == {"Added", "Removed"} \X Tuples
<1>1. chan \in [Watchers -> Seq(Event)] /\ mirror \in [Watchers -> SUBSET Tuples]
    BY DEF SpaceKept, TupleSpaceTypeOK
<1>2. PICK e : e = Head(chan[x]) OBVIOUS
<1>04. PICK rest : rest = Tail(chan[x]) OBVIOUS
<1>3. /\ chan[x] # <<>> /\ x \notin gone
      /\ mirror' = [mirror EXCEPT ![x] = IF e[1] = "Added" THEN @ \cup {e[2]} ELSE @ \ {e[2]}]
      /\ chan' = [chan EXCEPT ![x] = rest]
      /\ StorageAlone /\ BarrierAlone /\ UNCHANGED <<backend, job, readers, watching, gone, since, spaceOps>>
    BY <1>04, <1>2 DEF ReceiveEvent
<1>4. /\ e \in Event /\ rest \in Seq(Event) /\ ToSet(chan[x]) = {e} \cup ToSet(rest)
      /\ Len(chan[x]) \in Nat \ {0} /\ Len(rest) = Len(chan[x]) - 1
      /\ \A i \in 1..Len(chan[x]) - 1 : rest[i] = chan[x][i + 1]
      /\ e = chan[x][1]
    <2> HIDE DEF Event
    <2>1. chan[x] \in Seq(Event) BY <1>1
    <2>2. Head(chan[x]) = chan[x][1] OBVIOUS
    <2> QED BY <1>04, <1>2, <1>3, <2>1, <2>2, EndFacts
<1>5. e[1] \in {"Added", "Removed"} /\ e[2] \in Tuples /\ e = <<e[1], e[2]>> BY <1>4
<1>6. \A w \in Watchers : w # x => chan'[w] = chan[w] /\ mirror'[w] = mirror[w] BY <1>1, <1>3
<1>7. /\ chan'[x] = rest
      /\ mirror'[x] = IF e[1] = "Added" THEN mirror[x] \cup {e[2]} ELSE mirror[x] \ {e[2]}
    BY <1>1, <1>3
<1>8. TupleSpaceTypeOK'
    <2>1. chan' \in [Watchers -> Seq(Event)]
        <3> HIDE DEF Event
        <3> QED BY <1>1, <1>3, <1>4
    <2>2. mirror' \in [Watchers -> SUBSET Tuples] BY <1>1, <1>3, <1>5
    <2> QED BY <1>3, <2>1, <2>2 DEF SpaceKept, TupleSpaceTypeOK
<1>9. TuplesAccounted'
    BY <1>0, <1>3 DEF SpaceKept, TuplesAccounted
<1>10. JobsInStep'
    BY <1>0, <1>3 DEF SpaceKept, JobsInStep
<1>11. \A i \in 1..Len(chan[x]) : chan[x][i][1] = "Removed" =>
          handed[chan[x][i][2]] # {} \/ chan[x][i][2] \in wasted
    BY DEF SpaceKept, EventsTrue, Given
<1>12. EventsTrue'
    <2>1. ASSUME NEW w \in Watchers, NEW i \in 1..Len(chan'[w]), chan'[w][i][1] = "Removed"
          PROVE  handed[chan'[w][i][2]] # {} \/ chan'[w][i][2] \in wasted
        <3>1. CASE w # x BY <1>6, <2>1, <3>1 DEF SpaceKept, EventsTrue, Given
        <3>2. CASE w = x
            <4>1. i \in 1..Len(chan[x]) - 1 /\ i + 1 \in 1..Len(chan[x]) /\ chan'[w][i] = chan[x][i + 1]
                BY <1>4, <1>7, <3>2
            <4> QED BY <1>11, <2>1, <4>1
        <3> QED BY <3>1, <3>2
    <2>2. ASSUME NEW w \in Watchers, \A h \in Homes : w \notin watching[h]
          PROVE  chan'[w] = <<>> /\ mirror'[w] = {}
        <3>1. chan[w] = <<>> /\ mirror[w] = {} BY <2>2 DEF SpaceKept, EventsTrue, Given
        <3> QED BY <1>3, <1>6, <3>1
    <2>3. /\ ToSet(tuples) \cup {t \in Tuples : handed[t] # {} \/ t \in wasted} \subseteq written
          /\ backend = "memory" => \A h \in Homes : watching[h] # {} => \A d \in SpaceClients : Home(d) = h
        BY DEF SpaceKept, EventsTrue, Given
    <2>4. \A w \in Watchers :
            /\ \A i \in 1..Len(chan'[w]) : chan'[w][i][1] = "Removed" =>
                 handed[chan'[w][i][2]] # {} \/ chan'[w][i][2] \in wasted
            /\ (\A h \in Homes : w \notin watching[h]) => chan'[w] = <<>> /\ mirror'[w] = {}
        BY <2>1, <2>2
    <2> QED BY <1>0, <1>3, <2>3, <2>4 DEF EventsTrue, Given
<1>13. NewsUnderWay'
    <2>1. Excused' = Excused BY <1>3 DEF Excused
    <2>2. \A w, s, t : ToCome(w, s, t)' <=> ToCome(w, s, t) BY <1>3 DEF ToCome
    <2>3. \A d \in SpaceClients : backend = "memory" /\ job[d].event = "Added" /\ job[d].at \in {"announce", "send"} =>
             ToSet(job[d].items) \subseteq Excused
        BY DEF SpaceKept, NewsUnderWay
    <2> SUFFICES ASSUME backend = "memory", NEW h \in Homes, NEW w \in watching[h] \ gone
                 PROVE /\ \A t \in ToSet(tuples) \ (since[w] \cup expired \cup cut) :
                            t \in mirror'[w] \/ <<"Added", t>> \in ToSet(chan'[w]) \/ ToCome(w, "Added", t)
                       /\ \A t \in mirror'[w] \ Excused :
                            <<"Removed", t>> \in ToSet(chan'[w]) \/ ToCome(w, "Removed", t)
                       /\ \A i \in 1..Len(chan'[w]) : \A t \in Tuples \ Excused :
                            chan'[w][i] = <<"Added", t>> =>
                              \/ \E j \in i + 1..Len(chan'[w]) : chan'[w][j] = <<"Removed", t>>
                              \/ ToCome(w, "Removed", t)
        BY <1>3, <2>1, <2>2, <2>3 DEF NewsUnderWay
    <2>4. w \in Watchers BY DEF SpaceKept, TupleSpaceTypeOK
    <2>5. /\ \A t \in ToSet(tuples) \ (since[w] \cup expired \cup cut) :
                t \in mirror[w] \/ <<"Added", t>> \in ToSet(chan[w]) \/ ToCome(w, "Added", t)
          /\ \A t \in mirror[w] \ Excused :
                <<"Removed", t>> \in ToSet(chan[w]) \/ ToCome(w, "Removed", t)
          /\ \A i \in 1..Len(chan[w]) : \A t \in Tuples \ Excused :
                chan[w][i] = <<"Added", t>> =>
                  \/ \E j \in i + 1..Len(chan[w]) : chan[w][j] = <<"Removed", t>>
                  \/ ToCome(w, "Removed", t)
        BY DEF SpaceKept, NewsUnderWay
    <2>6. CASE w # x
        BY <1>6, <2>4, <2>5, <2>6
    <2>7. CASE w = x
        <3>1. ASSUME NEW t \in ToSet(tuples) \ (since[w] \cup expired \cup cut), t \notin mirror'[w]
              PROVE  <<"Added", t>> \in ToSet(chan'[w]) \/ ToCome(w, "Added", t)
            <4>1. handed[t] = {} /\ t \notin wasted BY DEF SpaceKept, TuplesAccounted
            <4>2. e[1] = "Removed" => handed[e[2]] # {} \/ e[2] \in wasted BY <1>4, <1>11
            <4>3. ~(e[1] = "Removed" /\ e[2] = t) BY <4>1, <4>2
            <4>4. ~(e[1] = "Added" /\ e[2] = t) /\ t \notin mirror[w] BY <1>5, <1>7, <2>7, <3>1, <4>3
            <4>5. e # <<"Added", t>> BY <4>4
            <4> QED BY <1>4, <1>7, <2>5, <2>7, <4>4, <4>5
        <3>2. ASSUME NEW t \in mirror'[w] \ Excused
              PROVE  <<"Removed", t>> \in ToSet(chan'[w]) \/ ToCome(w, "Removed", t)
            <4>1. CASE t \in mirror[w] /\ e # <<"Removed", t>>
                BY <1>4, <1>7, <2>5, <2>7, <4>1
            <4>2. CASE e = <<"Removed", t>>
                BY <1>7, <2>7, <4>2
            <4>3. CASE t \notin mirror[w]
                <5>1. e = <<"Added", t>> /\ t \in Tuples BY <1>5, <1>7, <2>7, <4>3
                <5>2. 1 \in 1..Len(chan[w]) /\ chan[w][1] = <<"Added", t>> BY <1>4, <2>7, <5>1
                <5>3. CASE \E j \in 1 + 1..Len(chan[w]) : chan[w][j] = <<"Removed", t>>
                    <6>1. PICK j \in 1 + 1..Len(chan[w]) : chan[w][j] = <<"Removed", t>> BY <5>3
                    <6>2. <<"Removed", t>> \in ToSet(chan[w])
                        <7>1. chan[w] \in Seq(Event) BY <1>1, <2>4
                        <7>2. j \in 1..Len(chan[w]) BY <1>4, <2>7, <6>1
                        <7> HIDE DEF Event
                        <7> QED BY <6>1, <7>1, <7>2, NoneFacts
                    <6>3. <<"Removed", t>> # e BY <5>1
                    <6> QED BY <1>4, <1>7, <2>7, <6>2, <6>3
                <5> QED BY <2>5, <5>1, <5>2, <5>3
            <4> QED BY <4>1, <4>2, <4>3
        <3>3. ASSUME NEW i \in 1..Len(chan'[w]), NEW t \in Tuples \ Excused, chan'[w][i] = <<"Added", t>>
              PROVE  \/ \E j \in i + 1..Len(chan'[w]) : chan'[w][j] = <<"Removed", t>>
                     \/ ToCome(w, "Removed", t)
            <4>1. i \in 1..Len(chan[w]) - 1 /\ i + 1 \in 1..Len(chan[w]) /\ chan[w][i + 1] = <<"Added", t>>
                BY <1>4, <1>7, <2>7, <3>3
            <4>2. CASE \E j \in (i + 1) + 1..Len(chan[w]) : chan[w][j] = <<"Removed", t>>
                <5>1. PICK j \in (i + 1) + 1..Len(chan[w]) : chan[w][j] = <<"Removed", t>> BY <4>2
                <5>2. j - 1 \in i + 1..Len(chan'[w]) /\ chan'[w][j - 1] = chan[w][j]
                    BY <1>4, <1>7, <2>7, <4>1, <5>1
                <5> QED BY <5>1, <5>2
            <4> QED BY <2>5, <4>1, <4>2
        <3> QED BY <3>1, <3>2, <3>3
    <2> QED BY <2>6, <2>7
<1> QED BY <1>8, <1>9, <1>10, <1>12, <1>13 DEF SpaceKept

\* A call is dropped: what it had removed is excused, and what it wrote need
\* not be told.
LEMMA DropCallStep ==
    ASSUME SpaceKept, NEW c \in SpaceClients, NEW deleted \in BOOLEAN, DropCall(c, deleted)
    PROVE  SpaceKept'
<1> USE DEF BarrierAlone
<1>0. /\ backend' = backend /\ (\A d : Home(d)' = Home(d)) /\ BarrierAlone
      /\ UNCHANGED <<watching, chan, gone, mirror, since, expired, written, cleared, swept, early, spaceOps>>
    BY HomeStays DEF DropCall
<1>1. PICK removed : /\ removed \subseteq ToSet(tuples)
                     /\ tuples' \in Seq(Tuples) /\ ToSet(tuples') = ToSet(tuples) \ removed
                     /\ wasted' = wasted \cup job[c].got \cup removed
    <2>1. PICK r : r = IF backend = "memory" /\ job[c].all THEN ToSet(tuples)
                       ELSE IF deleted THEN ToSet(job[c].items) \cap ToSet(tuples) ELSE {}
        OBVIOUS
    <2>2. /\ tuples' = IF backend = "memory" /\ job[c].all THEN <<>> ELSE Without(tuples, r)
          /\ wasted' = wasted \cup job[c].got \cup r
        BY <2>1 DEF DropCall
    <2>3. Without(tuples, r) \in Seq(Tuples) /\ ToSet(Without(tuples, r)) = ToSet(tuples) \ r
        BY WithoutFacts DEF SpaceKept, TupleSpaceTypeOK
    <2>4. <<>> \in Seq(Tuples) /\ ToSet(<<>>) = {} BY NoneFacts
    <2> QED BY <2>1, <2>2, <2>3, <2>4
<1>2. /\ job' = [job EXCEPT ![c] = Idle] /\ job[c].at # "wait"
      /\ handed' = [t \in Tuples |-> IF t \in job[c].got THEN handed[t] \ {c} ELSE handed[t]]
      /\ cut' = IF job[c].event = "Added" THEN cut \cup ToSet(job[c].items) ELSE cut
      /\ locked' = [h \in Homes |-> IF locked[h] = c THEN NoClient ELSE locked[h]]
      /\ readers' = [h \in Homes |-> readers[h] \ {c}]
    BY DEF DropCall
<1>3. /\ job[c].items \in Seq(Tuples) /\ ToSet(job[c].items) \subseteq Tuples /\ job[c].got \subseteq Tuples
      /\ job[c].event \in {"Added", "Removed"}
    BY CallFacts, NoneFacts DEF SpaceKept
<1>4. job \in [SpaceClients -> Jobs] /\ \A d \in SpaceClients : (d # c => job'[d] = job[d]) /\ (d = c => job'[d] = Idle)
    BY <1>2 DEF SpaceKept, TupleSpaceTypeOK
<1>5. JobInStep(c) BY JobsSplit DEF SpaceKept
<1>6. \A t \in job[c].got : c \in handed[t] BY <1>5 DEF JobInStep
<1>7. ToSet(tuples) \subseteq Tuples BY UnexpiredFacts DEF SpaceKept
<1>8. /\ handed \in [Tuples -> SUBSET SpaceClients]
      /\ \A t \in Tuples : /\ handed'[t] \subseteq handed[t]
                           /\ \A d \in handed[t] : d # c => d \in handed'[t]
                           /\ t \notin job[c].got => handed'[t] = handed[t]
    BY <1>2 DEF SpaceKept, TupleSpaceTypeOK
<1>9. TupleSpaceTypeOK'
    <2>1. job' \in [SpaceClients -> Jobs] BY <1>2, <1>4, IdleFacts
    <2>2. handed' \in [Tuples -> SUBSET SpaceClients] BY <1>2, <1>8
    <2>3. wasted' \subseteq Tuples /\ cut' \subseteq Tuples
        BY <1>1, <1>2, <1>3, <1>7 DEF SpaceKept, TupleSpaceTypeOK
    <2>4. locked' \in [Homes -> SpaceClients \cup {NoClient}] /\ readers' \in [Homes -> SUBSET SpaceClients]
        BY <1>2 DEF SpaceKept, TupleSpaceTypeOK
    <2> QED BY <1>0, <1>1, <2>1, <2>2, <2>3, <2>4 DEF SpaceKept, TupleSpaceTypeOK
<1>10. TuplesAccounted'
    <2>1. \A t \in Tuples : \A d, e \in handed'[t] : d # e => backend = "sqlite" /\ Home(d) # Home(e)
        BY <1>8 DEF SpaceKept, TuplesAccounted
    <2>2. ASSUME NEW t \in ToSet(tuples') PROVE handed'[t] = {} /\ t \notin wasted'
        <3>1. t \in Tuples /\ handed[t] = {} /\ t \notin wasted /\ t \notin removed
            BY <1>1, <1>7 DEF SpaceKept, TuplesAccounted
        <3> QED BY <1>1, <1>6, <1>8, <3>1
    <2>3. ASSUME NEW t \in written
          PROVE  \/ t \in ToSet(tuples') \/ handed'[t] # {}
                 \/ t \in expired \cup cleared \cup wasted' \/ (backend = "sqlite" /\ t \in swept)
        <3>1. t \in Tuples BY DEF SpaceKept, TupleSpaceTypeOK
        <3> QED BY <1>1, <1>8, <3>1, WrittenFacts DEF SpaceKept
    <2> QED BY <1>0, <2>1, <2>2, <2>3 DEF TuplesAccounted
<1>11. JobsInStep'
    <2>1. ASSUME NEW d \in SpaceClients PROVE JobInStep(d)'
        <3>1. CASE d # c
            <4>1. JobInStep(d) BY JobsSplit DEF SpaceKept
            <4>2. Home(d) \in Homes /\ ToSet(job[d].items) \subseteq Tuples BY CallFacts, NoneFacts DEF SpaceKept
            <4>3. locked[Home(d)] = d => locked'[Home(d)] = d BY <1>2, <3>1, <4>2
            <4>4. \A t \in Tuples : d \in handed[t] => d \in handed'[t] BY <1>8, <3>1
            <4>5. \A t \in ToSet(job[d].items) : \A e \in handed'[t] : e \in handed[t] BY <1>8, <4>2
            <4> QED BY <1>0, <1>4, <3>1, <4>1, <4>3, <4>4, <4>5, OtherJob DEF SpaceKept
        <3>2. CASE d = c
            BY <1>4, <3>2, IdleFacts DEF JobInStep
        <3> QED BY <3>1, <3>2
    <2>2. BarriersInStep'
        BY <1>0, <1>2, <1>4, BarriersKeep
    <2> QED BY <2>1, <2>2 DEF JobsInStep, JobInStep, BarriersInStep
<1>12. EventsTrue'
    <2>1. ASSUME NEW t \in Tuples PROVE (handed[t] # {} \/ t \in wasted) => (handed'[t] # {} \/ t \in wasted')
        BY <1>1, <1>8
    <2>2. ToSet(tuples') \cup {t \in Tuples : handed'[t] # {} \/ t \in wasted'} \subseteq written
        BY <1>1, <1>6, <1>7, <1>8, <1>3 DEF SpaceKept, EventsTrue, Given
    <2>3. \A w \in Watchers : \A i \in 1..Len(chan[w]) : chan[w][i][1] = "Removed" =>
             handed'[chan[w][i][2]] # {} \/ chan[w][i][2] \in wasted'
        <3> TAKE w \in Watchers
        <3> TAKE i \in 1..Len(chan[w])
        <3>1. chan[w][i][2] \in Tuples BY EventFacts DEF SpaceKept
        <3>2. chan[w][i][1] = "Removed" => handed[chan[w][i][2]] # {} \/ chan[w][i][2] \in wasted
            BY DEF SpaceKept, EventsTrue, Given
        <3> QED BY <2>1, <3>1, <3>2
    <2> QED BY <1>0, <2>2, <2>3 DEF SpaceKept, EventsTrue, Given
<1>13. NewsUnderWay'
    <2>1. Excused \subseteq Excused' /\ job[c].got \subseteq Excused' BY <1>0, <1>1 DEF Excused
    <2>2. \A d \in SpaceClients : backend = "memory" /\ job'[d].event = "Added" /\ job'[d].at \in {"announce", "send"} =>
             ToSet(job'[d].items) \subseteq Excused'
        BY <1>4, <2>1, IdleFacts DEF SpaceKept, NewsUnderWay
    <2>3. ASSUME NEW w, NEW t, NEW e \in {"Added", "Removed"}, ToCome(w, e, t)
          PROVE  \/ ToCome(w, e, t)'
                 \/ e = "Added" /\ t \in cut'
                 \/ e = "Removed" /\ t \in Excused'
        <3>1. PICK d \in SpaceClients : Sends(d, w, e, t) BY <2>3, ToComeSplit
        <3>2. CASE d # c
            <4>1. Sends(d, w, e, t)' BY <1>4, <3>1, <3>2 DEF Sends
            <4> QED BY <4>1 DEF ToCome, Sends
        <3>3. CASE d = c
            <4>1. job[c].at \in {"announce", "send"} /\ job[c].event = e BY <3>1, <3>3 DEF Sends
            <4>2. job[c].items # <<>> BY <1>5, <4>1 DEF JobInStep
            <4>3. t \in ToSet(job[c].items) BY <1>3, <3>1, <3>3, <4>2, EndFacts DEF Sends
            <4>4. e = "Removed" => t \in job[c].got BY <1>5, <4>1, <4>3 DEF JobInStep
            <4> QED BY <1>2, <2>1, <4>1, <4>3, <4>4
        <3> QED BY <3>2, <3>3
    <2>4. cut \subseteq cut' /\ ToSet(tuples') \subseteq ToSet(tuples) BY <1>1, <1>2
    <2> QED BY <1>0, <1>9, <2>1, <2>2, <2>3, <2>4, NewsKeep
<1> QED BY <1>9, <1>10, <1>11, <1>12, <1>13 DEF SpaceKept

\* Every step of the space keeps the invariant.
LEMMA SpaceStep == SpaceKept /\ [TupleSpaceNext]_spaceVars => SpaceKept'
<1> SUFFICES ASSUME SpaceKept, [TupleSpaceNext]_spaceVars PROVE SpaceKept'
    OBVIOUS
<1>1. CASE UNCHANGED spaceVars
    <2> USE <1>1 DEF spaceVars
    <2>0. \A d : Home(d)' = Home(d) BY HomeStays
    <2>1. TupleSpaceTypeOK' BY DEF SpaceKept, TupleSpaceTypeOK
    <2>2. TuplesAccounted' BY <2>0 DEF SpaceKept, TuplesAccounted
    <2>3. JobsInStep' BY <2>0 DEF SpaceKept, JobsInStep
    <2>4. EventsTrue' BY <2>0 DEF SpaceKept, EventsTrue, Given
    <2>5. NewsUnderWay'
        <3>1. Excused' = Excused BY DEF Excused
        <3>2. \A w, e, t : ToCome(w, e, t)' <=> ToCome(w, e, t) BY DEF ToCome
        <3> QED BY <3>1, <3>2, ZenonT(40) DEF SpaceKept, NewsUnderWay
    <2> QED BY <2>1, <2>2, <2>3, <2>4, <2>5 DEF SpaceKept
<1>2. ASSUME NEW c \in SpaceClients,
             DeleteRows(c) \/ Announce(c) \/ SendEvent(c) \/ Told(c) \/ WatchEntered(c) \/ CheckBarriers(c)
      PROVE  SpaceKept'
    BY <1>2, DeleteStep, AnnounceStep, SendStep, ToldStep, EnteredStep, GateStep
<1>3. ASSUME NEW c \in SpaceClients, NEW p \in Patterns, TakeFirst(c, p) \/ TakeAll(c, p)
      PROVE  SpaceKept'
    BY <1>3, TakeFirstStep, TakeAllStep
<1>4. ASSUME NEW c \in SpaceClients, ClearSpace(c) \/ CleanupExpired(c) \/ AbandonWait(c)
      PROVE  SpaceKept'
    BY <1>4, ClearStep, CleanupStep, AbandonStep
<1> QED BY <1>1, <1>2, <1>3, <1>4, WriteStep, SelectStep, WatchStep, LeaseStep, DropStep, ReceiveStep,
          BarrierWaitStep, DropCallStep
        DEF TupleSpaceNext, TupleSpaceGoesOn

(***************************************************************************)
(* No tuple is lost or given twice without cause, and once all is quiet a  *)
(* watcher knows what is there (write, take, take_all, watch).             *)
(***************************************************************************)
THEOREM SpaceHolds == TupleSpaceSpec => []SpaceInv
<1>1. TupleSpaceSpec => []SpaceKept
    BY SpaceStart, SpaceStep, PTL DEF TupleSpaceSpec
<1> QED BY <1>1, MirrorFollows, PTL

(***************************************************************************)
(* The three keep what they promise in the composition, where one service  *)
(* at a time is followed.                                                  *)
(***************************************************************************)
THEOREM ServicesHold == ServicesSpec => [](SpaceInv /\ BreakerInv /\ WorkflowInv)
<1>1. ServicesInit => SpaceKept /\ BreakerInv /\ WorkflowInv
    BY SpaceStart, BreakerStart, WorkflowStart DEF ServicesInit
<1>2. SpaceKept /\ BreakerInv /\ WorkflowInv /\ [ServicesNext]_servicesVars =>
        (SpaceKept /\ BreakerInv /\ WorkflowInv)'
    <2> SUFFICES ASSUME SpaceKept, BreakerInv, WorkflowInv, [ServicesNext]_servicesVars
                 PROVE  SpaceKept' /\ BreakerInv' /\ WorkflowInv'
        OBVIOUS
    <2>1. [TupleSpaceNext]_spaceVars /\ [BreakerNext]_breakerVars /\ [WorkflowNext]_workflowVars
        BY DEF ServicesNext, Sharing, Breaking, Flowing, servicesVars
    <2> QED BY <2>1, SpaceStep, BreakerStep, WorkflowStep
<1> QED BY <1>1, <1>2, MirrorFollows, PTL DEF ServicesSpec
=============================================================================
