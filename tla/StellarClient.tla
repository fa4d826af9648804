--------------------------- MODULE StellarClient ---------------------------
(***************************************************************************)
(* The client of the Stellar node (stellar.service.ts): its retries with a *)
(* back-off, its circuit breaker and its rate limiter, under concurrent    *)
(* callers.  Between two awaits a caller's step is atomic; every await is  *)
(* a step of its own.  Time passes in ticks of the process's clock, whole  *)
(* milliseconds in the code; what is kept of a past moment is its age.     *)
(***************************************************************************)
EXTENDS Naturals, Sequences, SequencesExt, FiniteSets

CONSTANTS
    Callers,         \* requests of the API and pollers that call the client
    MaxRetries,      \* attempts of one withRetry
    Threshold,       \* consecutive failures that open the breaker
    MaxRequests,     \* the limiter's maxRequests
    Window,          \* the limiter's windowMs, in ticks
    InitialDelay,    \* INITIAL_DELAY_MS, in ticks
    LimiterFields,   \* whether the field rateLimiter has a value: TRUE, FALSE or both
    Kinds            \* the operations that are called

RetryKinds == {"passOnChain", "events", "latest", "ledger"}
AllKinds == RetryKinds \cup {"health", "fee"}

ASSUME StellarAssumption ==
    /\ IsFiniteSet(Callers)
    /\ MaxRetries \in Nat \ {0}
    /\ \A n \in 1..MaxRetries : 2 ^ (n - 1) \in Nat
    /\ Threshold \in Nat \ {0}
    /\ MaxRequests \in Nat \ {0}
    /\ Window \in Nat \ {0}
    /\ InitialDelay \in Nat
    /\ LimiterFields \subseteq BOOLEAN
    /\ Kinds \subseteq AllKinds

VARIABLES
    limiter,   \* the field rateLimiter was given a value
    up,        \* the node answers
    failures,  \* consecutiveFailures
    open,      \* circuitOpen
    sent,      \* requestTimestamps: the ages of the requests in the window
    call,      \* what each caller is doing
    met        \* history: a caller came to the limiter as another waited, and no window has
               \* been within the limit with nobody waiting since

vars == <<limiter, up, failures, open, sent, call, met>>

Outcomes == {"none", "ok", "failed"}

\* outage is a history variable: the node was down at some time of the call.
Idle == [pc |-> "idle", kind |-> "latest", attempt |-> 1, timer |-> 0,
         outcome |-> "none", outage |-> FALSE]

InFlight(c) == call[c].pc # "idle"
Quiet == \A c \in Callers : ~InFlight(c)

Init ==
    /\ limiter \in LimiterFields
    /\ up = TRUE
    /\ failures = 0
    /\ open = FALSE
    /\ sent = <<>>
    /\ call = [c \in Callers |-> Idle]
    /\ met = FALSE

Goes(c, pc) == call' = [call EXCEPT ![c].pc = pc]
Ends(c, outcome) ==
    call' = [call EXCEPT ![c] = [@ EXCEPT !.pc = "idle", !.attempt = 1,
                                          !.outcome = outcome]]

\* The check of the breaker at the entry: only emitFeeUpdatedEvent has none.
Refused(kind) == open /\ kind # "fee"

\* emitFeeUpdatedEvent asks for the admin's account before it acquires.
FirstStep(kind) == IF kind = "fee" THEN "account" ELSE "acquire"

Begin(c, kind) ==
    /\ ~InFlight(c)
    /\ call' = [call EXCEPT ![c] = [Idle EXCEPT
            !.pc = IF Refused(kind) THEN "idle" ELSE FirstStep(kind),
            !.kind = kind, !.outage = ~up,
            !.outcome = IF Refused(kind) THEN "failed" ELSE "none"]]
    /\ UNCHANGED <<limiter, up, failures, open, sent, met>>

\* Mutant: the breaker is open at the threshold only, and closed by the failure after it.
OpensMutant(n) == n = Threshold

\* The breaker opens with the n-th failure in a row.
Opens(n) == open \/ n >= Threshold

\* An attempt of withRetry throws; isHealthy and emitFeeUpdatedEvent end.
AttemptFails(c) ==
    /\ IF call[c].kind \in RetryKinds
       THEN /\ failures' = failures + 1
            /\ open' = Opens(failures')
       ELSE UNCHANGED <<failures, open>>
    /\ IF call[c].kind \in RetryKinds /\ call[c].attempt < MaxRetries
       THEN call' = [call EXCEPT ![c].pc = "backoff",
                                 ![c].timer = InitialDelay * 2 ^ (call[c].attempt - 1)]
       ELSE Ends(c, "failed")
    /\ UNCHANGED <<limiter, up, sent, met>>

AccountAnswered(c) ==
    /\ call[c].pc = "account"
    /\ up
    /\ Goes(c, "acquire")
    /\ UNCHANGED <<limiter, up, failures, open, sent, met>>

\* A caller comes to the limiter: does it find another waiting there?
Meets(c) == met' = (met \/ \E o \in Callers \ {c} : call[o].pc = "waiting")

\* acquire with room in the window.
Admitted(c) ==
    /\ call[c].pc = "acquire"
    /\ limiter
    /\ Len(sent) < MaxRequests
    /\ sent' = Append(sent, 0)
    /\ Goes(c, "asked")
    /\ Meets(c)
    /\ UNCHANGED <<limiter, up, failures, open>>

\* Mutant: waits for the age of the oldest request, not for what is left of it.
WaitForMutant(age) == age

WaitFor(age) == Window - age

\* acquire with a full window: wait until the oldest request leaves it.
MustWait(c) ==
    /\ call[c].pc = "acquire"
    /\ limiter
    /\ Len(sent) >= MaxRequests
    /\ call' = [call EXCEPT ![c].pc = "waiting", ![c].timer = WaitFor(sent[1])]
    /\ Meets(c)
    /\ UNCHANGED <<limiter, up, failures, open, sent>>

\* Mutant: goes on only if there is room when the wait is over.
WaitIsOverMutant(c) == call[c].timer = 0 /\ Len(sent) < MaxRequests

WaitIsOver(c) == call[c].timer = 0

\* The window is not looked at again.
Woken(c) ==
    /\ call[c].pc = "waiting"
    /\ WaitIsOver(c)
    /\ sent' = Append(sent, 0)
    /\ Goes(c, "asked")
    /\ UNCHANGED <<limiter, up, failures, open, met>>

\* acquire on a field that was never assigned.
NoLimiter(c) ==
    /\ call[c].pc = "acquire"
    /\ ~limiter
    /\ AttemptFails(c)

Succeeds == failures' = 0 /\ open' = FALSE

\* Mutant: the health check's answer closes the breaker too.
ClosesMutant(kind) == kind # "fee"

\* Only withRetry tells the breaker of a success.
Closes(kind) == kind \in RetryKinds

Answered(c) ==
    /\ call[c].pc = "asked"
    /\ up
    /\ IF Closes(call[c].kind)
       THEN Succeeds
       ELSE UNCHANGED <<failures, open>>
    /\ Ends(c, "ok")
    /\ UNCHANGED <<limiter, up, sent, met>>

NotAnswered(c) ==
    /\ call[c].pc \in {"asked", "account"}
    /\ ~up
    /\ AttemptFails(c)

Retry(c) ==
    /\ call[c].pc = "backoff"
    /\ call[c].timer = 0
    /\ call' = [call EXCEPT ![c].pc = "acquire", ![c].attempt = @ + 1]
    /\ UNCHANGED <<limiter, up, failures, open, sent, met>>

Step(c) ==
    \/ AccountAnswered(c)
    \/ Admitted(c)
    \/ MustWait(c)
    \/ Woken(c)
    \/ NoLimiter(c)
    \/ Answered(c)
    \/ NotAnswered(c)
    \/ Retry(c)

OneLess(n) == IF n = 0 THEN 0 ELSE n - 1

InWindow(age) == age < Window

Aged == [i \in DOMAIN sent |-> sent[i] + 1]

\* Time: timers run down, requests age and leave the window.  The oldest come first, so
\* what the filter takes out of the list is a prefix.
Tick ==
    LET out == {i \in DOMAIN Aged : ~InWindow(Aged[i])} IN
    /\ call' = [c \in Callers |-> [call[c] EXCEPT !.timer = OneLess(@)]]
    /\ sent' = SubSeq(Aged, Cardinality(out) + 1, Len(Aged))
    /\ met' = (met /\ \/ Len(sent') > MaxRequests
                      \/ \E c \in Callers : call[c].pc = "waiting")
    /\ UNCHANGED <<limiter, up, failures, open>>

\* The node goes down or comes back.
NodeTurns ==
    /\ up' = ~up
    /\ call' = [c \in Callers |-> [call[c] EXCEPT !.outage = @ \/ InFlight(c)]]
    /\ UNCHANGED <<limiter, failures, open, sent, met>>

Next ==
    \/ \E c \in Callers :
          \/ \E kind \in Kinds : Begin(c, kind)
          \/ Step(c)
    \/ Tick
    \/ NodeTurns

Spec == Init /\ [][Next]_vars

FairSpec ==
    /\ Spec
    /\ WF_vars(Tick)
    /\ \A c \in Callers : WF_vars(Step(c))

----------------------------------------------------------------------------
Call == [pc : {"idle", "account", "acquire", "waiting", "asked", "backoff"},
         kind : AllKinds, attempt : 1..MaxRetries, timer : Nat,
         outcome : Outcomes, outage : BOOLEAN]

\* The client's fields and each caller's locals keep their shapes; what is
\* remembered of past requests lies in the limiter's window.
TypeOK ==
    /\ limiter \in BOOLEAN
    /\ up \in BOOLEAN
    /\ failures \in Nat
    /\ open \in BOOLEAN
    /\ sent \in Seq(0..(Window - 1))
    /\ call \in [Callers -> Call]
    /\ met \in BOOLEAN

\* The breaker is open exactly while the failures since the last success have
\* reached the threshold, however callers overlap: no failure is forgotten by
\* a caller that answers late, and no success leaves it open.
BreakerCounts == open <=> failures >= Threshold

\* How far failures may go once the breaker is open: only the attempts of calls
\* that were already in flight can still fail.
StormBounded ==
    failures < Threshold + MaxRetries * Cardinality(Callers)

\* What the limiter really promises.  No window holds more than maxRequests requests while
\* no caller comes to the limiter as another waits in it, through failures, retries and
\* answers of any number of callers; nor after such a meeting, once a window has been back
\* within the limit with nobody waiting.
LimitHoldsAlone == ~met => Len(sent) <= MaxRequests

\* No call is in flight that could close the open breaker.
Doomed == open /\ \A c \in Callers : InFlight(c) => call[c].kind \notin RetryKinds

\* From then on the breaker never closes, and no call of withRetry goes out again, with
\* the node up or down and whatever the health check and the fee's event find out.
OpenForGood == [][Doomed => Doomed']_vars

\* A caller always gets an answer or an error in the end.
CallsEnd == \A c \in Callers : InFlight(c) ~> ~InFlight(c)

\* "Health check: returns true when Stellar RPC is reachable": isHealthy answers
\* false only if the node was down while it asked.
HealthTruthful ==
    \A c \in Callers :
        call[c].kind = "health" /\ call[c].outcome = "failed" => call[c].outage
============================================================================
