---------------------------- MODULE CircuitBreaker ----------------------------
(***************************************************************************)
(* The circuit breaker of the MQTT transport adapter                       *)
(* (internal/adapters/mqtt/circuitbreaker.go) together with the part of    *)
(* Adapter.ReadProperty and WriteProperty that uses it: allow, then the    *)
(* request without any lock held, then recordSuccess or recordFailure.     *)
(* Each of the three runs under cb.mu and is one step; requests of         *)
(* different callers overlap freely.                                       *)
(*                                                                         *)
(* Two counters are kept only as far as the code looks at them.            *)
(* consecutiveErrs is compared with circuitBreakerMaxErrors and nothing    *)
(* else, so it saturates there.  openedAt is only subtracted from now and  *)
(* compared with circuitBreakerOpenDuration, so the model keeps that       *)
(* difference, elapsed, and saturates it too.  Time is then unbounded.     *)
(***************************************************************************)
EXTENDS Integers

CONSTANTS
    Callers,                    \* goroutines calling ReadProperty/WriteProperty
    circuitBreakerMaxErrors,    \* failures in a row that open the breaker
    circuitBreakerOpenDuration  \* ticks the breaker stays open

ASSUME CircuitBreakerAssumption ==
    /\ circuitBreakerMaxErrors \in Nat \ {0}
    /\ circuitBreakerOpenDuration \in Nat \ {0}

VARIABLES
    state,            \* cb.state
    consecutiveErrs,  \* cb.consecutiveErrs, saturated
    elapsed,          \* now - cb.openedAt, saturated
    caller,           \* where each caller is
    healthy           \* environment: do broker and device answer right now?

vars == <<state, consecutiveErrs, elapsed, caller, healthy>>

Saturate(n, max) == IF n > max THEN max ELSE n

Init ==
    /\ state = "closed"
    /\ consecutiveErrs = 0
    /\ elapsed = circuitBreakerOpenDuration    \* the zero openedAt is long ago
    /\ caller = [c \in Callers |-> "idle"]
    /\ healthy \in BOOLEAN
-----------------------------------------------------------------------------
(* Faulty variants, to show that the properties below notice them: a       *)
(* success keeps the count, or leaves the breaker open.                    *)
recordSuccessKeepsErrs(c) ==
    /\ caller[c] = "inflight"
    /\ healthy
    /\ state' = "closed"
    /\ caller' = [caller EXCEPT ![c] = "idle"]
    /\ UNCHANGED <<consecutiveErrs, elapsed, healthy>>

recordSuccessIgnored(c) ==
    /\ caller[c] = "inflight"
    /\ healthy
    /\ caller' = [caller EXCEPT ![c] = "idle"]
    /\ consecutiveErrs' = IF state = "closed" THEN 0 ELSE consecutiveErrs
    /\ UNCHANGED <<state, elapsed, healthy>>

(* allow() says no: ReadProperty returns ErrCircuitOpen without a request. *)
Reject(c) ==
    /\ caller[c] = "idle"
    /\ state = "open"
    /\ elapsed < circuitBreakerOpenDuration
    /\ caller' = [caller EXCEPT ![c] = "rejected"]
    /\ UNCHANGED <<state, consecutiveErrs, elapsed, healthy>>

(* allow() says yes, moving an open breaker to half-open first when its    *)
(* time is over.                                                           *)
Admit(c) ==
    /\ caller[c] = "idle"
    /\ state = "open" => elapsed >= circuitBreakerOpenDuration
    /\ state' = IF state = "open" THEN "halfOpen" ELSE state
    /\ caller' = [caller EXCEPT ![c] = "inflight"]
    /\ UNCHANGED <<consecutiveErrs, elapsed, healthy>>

(* recordSuccess() after an answered request, whatever state the breaker   *)
(* has reached in the meantime.                                            *)
recordSuccess(c) ==
    /\ caller[c] = "inflight"
    /\ healthy
    /\ consecutiveErrs' = 0
    /\ state' = "closed"
    /\ caller' = [caller EXCEPT ![c] = "idle"]
    /\ UNCHANGED <<elapsed, healthy>>

(* recordFailure() after a failed or timed-out request.                    *)
recordFailure(c) ==
    /\ caller[c] = "inflight"
    /\ ~healthy
    /\ caller' = [caller EXCEPT ![c] = "idle"]
    /\ \/ /\ state = "halfOpen"
          /\ state' = "open"
          /\ elapsed' = 0
          /\ UNCHANGED consecutiveErrs
       \/ /\ state # "halfOpen"
          /\ consecutiveErrs' = Saturate(consecutiveErrs + 1, circuitBreakerMaxErrors)
          /\ IF consecutiveErrs' >= circuitBreakerMaxErrors
             THEN state' = "open" /\ elapsed' = 0
             ELSE UNCHANGED <<state, elapsed>>
    /\ UNCHANGED healthy

(* A rejected caller gets its error back and may try again.                *)
ReturnErrCircuitOpen(c) ==
    /\ caller[c] = "rejected"
    /\ caller' = [caller EXCEPT ![c] = "idle"]
    /\ UNCHANGED <<state, consecutiveErrs, elapsed, healthy>>

Tick ==
    /\ elapsed < circuitBreakerOpenDuration
    /\ elapsed' = elapsed + 1
    /\ UNCHANGED <<state, consecutiveErrs, caller, healthy>>

(* Broker or device come up or go down.                                    *)
EnvironmentChanges ==
    /\ healthy' = ~healthy
    /\ UNCHANGED <<state, consecutiveErrs, elapsed, caller>>

(* One ReadProperty or WriteProperty call reaching the breaker.            *)
Attempt == \E c \in Callers : Reject(c) \/ Admit(c)

Next ==
    \/ Attempt
    \/ \E c \in Callers : \/ recordSuccess(c)
                          \/ recordFailure(c)
                          \/ ReturnErrCircuitOpen(c)
    \/ Tick
    \/ EnvironmentChanges

Spec == Init /\ [][Next]_vars

(* Time passes, a rejected caller gets its error, and every admitted       *)
(* request ends: readProperty and writeProperty wait under a context with  *)
(* requestTimeout.  That clients go on calling is not assumed here.        *)
FairSpec ==
    /\ Spec
    /\ WF_vars(Tick)
    /\ \A c \in Callers : /\ WF_vars(recordSuccess(c) \/ recordFailure(c))
                          /\ WF_vars(ReturnErrCircuitOpen(c))
-----------------------------------------------------------------------------
(* Type invariant of the breaker and its callers.                          *)
TypeOK ==
    /\ state \in {"closed", "open", "halfOpen"}
    /\ consecutiveErrs \in 0 .. circuitBreakerMaxErrors
    /\ elapsed \in 0 .. circuitBreakerOpenDuration
    /\ caller \in [Callers -> {"idle", "inflight", "rejected"}]
    /\ healthy \in BOOLEAN

(* The breaker is closed exactly while fewer than circuitBreakerMaxErrors  *)
(* requests failed since the last success, however the requests of         *)
(* different callers overlap: no late answer leaves it open with a clean   *)
(* record, or closed with a bad one (allow, recordSuccess, recordFailure). *)
ClosedIffFewErrors ==
    (state = "closed") <=> (consecutiveErrs < circuitBreakerMaxErrors)

(* Recovery: once broker and device answer for good and clients keep       *)
(* calling, the breaker closes and stays closed.  Late failures may push   *)
(* openedAt forward (recordFailure in state open) but not for ever.        *)
Recovers ==
    (<>[]healthy /\ []<><<Attempt>>_vars) => <>[](state = "closed")
=============================================================================
