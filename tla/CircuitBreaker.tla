--------------------------- MODULE CircuitBreaker ---------------------------
(***************************************************************************)
(* The circuit breaker                                                     *)
(* (crates/common/src/circuit_breaker/circuit_breaker.rs) with its two     *)
(* users: requests that ask, run and report                                *)
(* (crates/http-client/src/client.rs, crates/node/src/health/              *)
(* circuit_breaker.rs), and the health query that only asks.  Every call   *)
(* holds the write lock throughout, so each is one step; what interleaves  *)
(* is the requests.  Counters are only compared with their thresholds and  *)
(* saturate there.                                                         *)
(***************************************************************************)
EXTENDS Naturals, Sequences, FiniteSets

CONSTANTS
    Callers,  \* concurrent requests
    Configs   \* the CircuitBreakerConfigs considered

\* window_size is 0 when the config has no sliding window.  Nobody checks a
\* config: fields that are left out are 0.
ConfigType ==
    [failure_strategy: {"consecutive", "sliding_window", "error_rate"},
     failure_threshold: Nat,  \* a percentage for "error_rate"
     success_threshold: Nat,
     max_half_open_requests: Nat,
     window_size: Nat,
     minimum_requests: Nat]

ASSUME ConfigAssumption == Configs \subseteq ConfigType

VARIABLES
    config,    \* the breaker's config, fixed when it is made
    state,     \* "closed", "open" or "half_open"; nothing sets Disabled
    elapsed,   \* the timeout since last_opened has elapsed
    failures,  \* consecutive_failures, saturating
    successes, \* consecutive_successes, saturating
    halfOpen,  \* half_open_requests
    window,    \* request_window: TRUE for a success, oldest first
    req,       \* req[c]: "idle", admitted as a "probe" of this half-open
               \* period, or running since "before"
    fresh,     \* failures reported since the breaker closed, saturating
    probes,    \* requests allowed in this half-open period, up to MaxHalfOpen + 2
    lost       \* one of them was a query or has been abandoned

breaker == <<state, elapsed, failures, successes, halfOpen, window>>
breakerVars == <<config, breaker, req, fresh, probes, lost>>

Strategy         == config.failure_strategy
FailureThreshold == config.failure_threshold
SuccessThreshold == config.success_threshold
MaxHalfOpen      == config.max_half_open_requests
WindowSize       == config.window_size
MinimumRequests  == config.minimum_requests

Min2(a, b) == IF a < b THEN a ELSE b

\* Only the consecutive strategy compares consecutive_failures, after a failure.
FailureCap == IF Strategy = "consecutive" /\ FailureThreshold > 0 THEN FailureThreshold ELSE 1

BreakerTypeOK ==
    /\ config \in Configs
    /\ lost \in BOOLEAN
    /\ state \in {"closed", "open", "half_open"}
    /\ elapsed \in BOOLEAN
    /\ failures \in 0..FailureCap
    /\ successes \in 0..SuccessThreshold
    /\ halfOpen \in 0..MaxHalfOpen
    /\ window \in Seq(BOOLEAN) /\ Len(window) <= WindowSize
    /\ req \in [Callers -> {"idle", "probe", "before"}]
    /\ fresh \in 0..FailureCap
    /\ probes \in 0..(MaxHalfOpen + 2)

BreakerInit ==
    /\ config \in Configs
    /\ state = "closed" /\ elapsed = FALSE
    /\ failures = 0 /\ successes = 0 /\ halfOpen = 0
    /\ window = <<>>
    /\ req = [c \in Callers |-> "idle"]
    /\ fresh = 0 /\ probes = 0 /\ lost = FALSE

-----------------------------------------------------------------------------
(* Transitions.                                                            *)

\* Requests that outlive the half-open period are no longer its probes.
Aged(r) == [c \in Callers |-> IF r[c] = "probe" THEN "before" ELSE r[c]]

TransitionToOpen(f, s, r) ==
    /\ state' = "open" /\ elapsed' = FALSE
    /\ halfOpen' = 0 /\ failures' = f /\ successes' = s
    /\ req' = Aged(r)
    /\ fresh' = 0 /\ probes' = 0 /\ lost' = FALSE
    /\ UNCHANGED config

TransitionToClosed(r) ==
    /\ state' = "closed"
    /\ failures' = 0 /\ successes' = 0 /\ halfOpen' = 0
    /\ req' = Aged(r)
    /\ fresh' = 0 /\ probes' = 0 /\ lost' = FALSE
    /\ UNCHANGED <<config, elapsed>>

Stay(f, s, r) ==
    /\ failures' = f /\ successes' = s /\ req' = r
    /\ UNCHANGED <<config, state, elapsed, halfOpen, probes, lost>>

\* Records expire from the old end; then the size limit applies.
AddToWindow(success) ==
    IF WindowSize = 0 THEN window' = window
    ELSE \E k \in 0..Len(window) :
           LET w == Append(SubSeq(window, k + 1, Len(window)), success)
           IN  window' = IF Len(w) > WindowSize THEN Tail(w) ELSE w

FailuresIn(w) == Cardinality({k \in 1..Len(w) : ~w[k]})

\* Mutant: one failure too early.
ShouldTripEarly(f, w) == f + 1 >= FailureThreshold

\* should_trip, with the failure already counted.
ShouldTrip(f, w) ==
    CASE Strategy = "consecutive" -> f >= FailureThreshold
      [] Strategy = "sliding_window" ->
            WindowSize > 0 /\ Len(w) >= MinimumRequests /\ FailuresIn(w) >= FailureThreshold
      [] Strategy = "error_rate" ->
            WindowSize > 0 /\ Len(w) >= MinimumRequests
                /\ 100 * FailuresIn(w) >= FailureThreshold * Len(w)

-----------------------------------------------------------------------------
(* is_request_allowed                                                      *)

AllowClosed ==
    /\ state = "closed"
    /\ UNCHANGED <<config, breaker, fresh, probes>>

\* The request that finds the timeout elapsed opens the half-open period; it
\* is not one of the half_open_requests.
AllowElapsed ==
    /\ state = "open" /\ elapsed
    /\ state' = "half_open"
    /\ failures' = 0 /\ successes' = 0 /\ halfOpen' = 0
    /\ probes' = 1
    /\ UNCHANGED <<config, elapsed, window, fresh>>

\* Mutant: <= for <.
AllowHalfOpenOneMore ==
    /\ state = "half_open" /\ halfOpen <= MaxHalfOpen
    /\ halfOpen' = Min2(halfOpen + 1, MaxHalfOpen)
    /\ probes' = Min2(probes + 1, MaxHalfOpen + 2)
    /\ UNCHANGED <<config, state, elapsed, failures, successes, window, fresh>>

AllowHalfOpen ==
    /\ state = "half_open" /\ halfOpen < MaxHalfOpen
    /\ halfOpen' = halfOpen + 1
    /\ probes' = Min2(probes + 1, MaxHalfOpen + 2)
    /\ UNCHANGED <<config, state, elapsed, failures, successes, window, fresh>>

\* A request is let in (execute, check) ...
Request(c) ==
    /\ req[c] = "idle"
    /\ AllowClosed \/ AllowElapsed \/ AllowHalfOpen
    /\ req' = [req EXCEPT ![c] = IF state' = "half_open" THEN "probe" ELSE "before"]
    /\ UNCHANGED lost

\* ... and rejected otherwise: only a counter changes.  is_circuit_open of the
\* health checker asks too, and never reports.
Query ==
    /\ AllowElapsed \/ AllowHalfOpen
    /\ lost' = TRUE
    /\ UNCHANGED req

-----------------------------------------------------------------------------
\* record_success
RecordSuccess(r) ==
    LET s == Min2(successes + 1, SuccessThreshold) IN
    /\ AddToWindow(TRUE)
    /\ IF state = "half_open" /\ s >= SuccessThreshold
       THEN TransitionToClosed(r)
       ELSE Stay(0, s, r) /\ UNCHANGED fresh

\* Mutant: a failed probe leaves the breaker half-open.
RecordFailureHalfOpen(r) ==
    LET f == Min2(failures + 1, FailureCap) IN
    /\ AddToWindow(FALSE)
    /\ IF state = "closed" /\ ShouldTrip(f, window')
       THEN TransitionToOpen(f, 0, r)
       ELSE /\ Stay(f, 0, r)
            /\ fresh' = IF state = "closed" THEN Min2(fresh + 1, FailureCap) ELSE fresh

\* record_failure: a closed breaker may trip, a half-open one does.
RecordFailure(r) ==
    LET f == Min2(failures + 1, FailureCap) IN
    /\ AddToWindow(FALSE)
    /\ IF state = "half_open" \/ (state = "closed" /\ ShouldTrip(f, window'))
       THEN TransitionToOpen(f, 0, r)
       ELSE /\ Stay(f, 0, r)
            /\ fresh' = IF state = "closed" THEN Min2(fresh + 1, FailureCap) ELSE fresh

Done(c) == [req EXCEPT ![c] = "idle"]

Succeed(c) == req[c] # "idle" /\ RecordSuccess(Done(c))

Fail(c) == req[c] # "idle" /\ RecordFailure(Done(c))

\* The request's future is dropped: nothing is reported.
Abandon(c) ==
    /\ req[c] # "idle"
    /\ req' = Done(c)
    /\ lost' = (lost \/ req[c] = "probe")
    /\ UNCHANGED <<config, breaker, fresh, probes>>

\* trip and reset
Trip == TransitionToOpen(failures, successes, req) /\ UNCHANGED window
Reset == TransitionToClosed(req) /\ UNCHANGED window

\* The timeout elapses.
Elapse ==
    /\ state = "open" /\ ~elapsed
    /\ elapsed' = TRUE
    /\ UNCHANGED <<config, state, failures, successes, halfOpen, window, req, fresh, probes, lost>>

-----------------------------------------------------------------------------
BreakerNext ==
    \/ Elapse \/ Query \/ Trip \/ Reset
    \/ \E c \in Callers : Request(c) \/ Succeed(c) \/ Fail(c) \/ Abandon(c)

BreakerSpec == BreakerInit /\ [][BreakerNext]_breakerVars

-----------------------------------------------------------------------------
(* Properties.                                                             *)

\* However late and in whatever order the results arrive, a closed breaker is
\* below its failure threshold and a half-open one below its success
\* threshold with no failure counted; a threshold of 0 acts as 1.
ThresholdsAct ==
    /\ state = "closed" /\ Strategy = "consecutive" => failures = 0 \/ failures < FailureThreshold
    /\ state = "half_open" => failures = 0 /\ (successes = 0 \/ successes < SuccessThreshold)
    /\ state # "half_open" => halfOpen = 0

\* A half-open period lets in max_half_open_requests and the request that
\* began it, never more, however many are waiting.
Probing == {c \in Callers : req[c] = "probe"}

ProbesBounded ==
    /\ probes <= MaxHalfOpen + 1
    /\ IsFiniteSet(Probing) /\ Cardinality(Probing) <= probes

\* half_open_requests counts exactly the requests and queries let in after the
\* one that began the period, and no probe outlives its period as one.
PlacesCounted ==
    IF state = "half_open" THEN probes = halfOpen + 1 ELSE probes = 0 /\ Probing = {}

\* A closed breaker counts no failure from before it closed.
NothingHeldOver == state = "closed" => failures <= fresh

\* What is_request_allowed(), record_success() and record_failure() keep.
BreakerInv ==
    BreakerTypeOK /\ ThresholdsAct /\ ProbesBounded /\ PlacesCounted /\ NothingHeldOver

\* With consecutive failures counted, a breaker that closed trips only after
\* as many failures were reported to it as a new one needs (unless trip() is
\* called): nothing is held over from before.
FreshTrip ==
    [][state = "closed" /\ state' = "open" /\ Strategy = "consecutive"
          => fresh + 1 >= FailureThreshold \/ Trip]_breakerVars

\* The breaker does not stay half-open while requests keep coming, unless a
\* place among them went to a query or to a request that was dropped, or the
\* config asks for more successes than a half-open period lets in.
HalfOpenResolves ==
    state = "half_open" /\ SuccessThreshold <= MaxHalfOpen + 1
        ~> state # "half_open" \/ lost
=============================================================================
