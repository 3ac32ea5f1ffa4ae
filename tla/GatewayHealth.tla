--------------------------- MODULE GatewayHealth ---------------------------
(***************************************************************************)
(* What api-gateway tells of itself: the metrics that every response       *)
(* updates (gateway-metrics.service.ts), readiness, which probes the       *)
(* services behind it, and alerts, which evaluates both together with two  *)
(* summaries those services make (api-gateway.service.ts).  A service may  *)
(* be down, or hang; a request may run into the gateway's own timer        *)
(* (main.ts) and be answered late; a client may go away.                   *)
(***************************************************************************)
EXTENDS Integers, FiniteSets

CONSTANTS
    Requests,     \* bound: requests that are ever made
    Services,     \* behind the gateway
    Summarizers,  \* those that alerts asks for a summary: auth-org, analytics-webhook
    Threshold     \* ALERT_5XX_RATE_THRESHOLD, in percent

ASSUME RequestsAssumption  == IsFiniteSet(Requests)
ASSUME ServicesAssumption  == Summarizers \subseteq Services
ASSUME ThresholdAssumption == Threshold \in 1..100

VARIABLES
    service,    \* "up", "down" or "hung"
    request,    \* the locals of each request
    counts,     \* statusCounts, by class of status
    errors5xx   \* totalErrors5xx

vars == <<service, request, counts, errors5xx>>

Statuses == {"ok", "server", "timeout"}   \* below 500 but for 408; 5xx; 408
Calls    == {"none", "waiting", "answered", "failed"}

\* call: the calls whose failure is the handler's; probe: those of probeWithTimeout.
\* open: the response has been sent and has not finished; ready: it says that all
\* is well.  up is a history: the services that were up at some time of readiness or alerts.
Request == [pc       : {"new", "handling", "late", "ended"},
            kind     : {"api", "readiness", "alerts"},
            call     : [Services -> Calls],
            probe    : [Services -> Calls],
            sent     : Statuses \cup {"no"},
            open     : BOOLEAN,
            ready    : BOOLEAN,
            up       : SUBSET Services]

TypeOK ==
    /\ service   \in [Services -> {"up", "down", "hung"}]
    /\ request   \in [Requests -> Request]
    /\ counts    \in [Statuses -> 0..Cardinality(Requests)]
    /\ errors5xx \in 0..(2 * Cardinality(Requests))

All(s) == [d \in Services |-> s]
UpNow  == {d \in Services : service[d] = "up"}

New == [pc |-> "new", kind |-> "api", call |-> All("none"), probe |-> All("none"),
        sent |-> "no", open |-> FALSE, ready |-> FALSE, up |-> {}]

Init ==
    /\ service   = All("up")
    /\ request   = [r \in Requests |-> New]
    /\ counts    = [s \in Statuses |-> 0]
    /\ errors5xx = 0

Metrics == <<counts, errors5xx>>

\* A service stops, hangs or comes back.
ServiceChanges(d, s) ==
    /\ service[d] # s
    /\ service' = [service EXCEPT ![d] = s]
    /\ request' = IF s # "up" THEN request
                  ELSE [r \in Requests |-> IF request[r].pc = "handling" /\ request[r].kind # "api"
                                           THEN [request[r] EXCEPT !.up = @ \cup {d}]
                                           ELSE request[r]]
    /\ UNCHANGED Metrics

-----------------------------------------------------------------------------
(* Requests.                                                               *)

Starts(r, kind, call, probe) ==
    /\ request[r].pc = "new"
    /\ request' = [request EXCEPT ![r] = [New EXCEPT !.pc = "handling", !.kind = kind,
                                             !.call = call, !.probe = probe,
                                             !.up = IF kind = "api" THEN {} ELSE UpNow]]
    /\ UNCHANGED <<service, Metrics>>

\* Any route that asks one service; the few that ask several are taken for one that does.
Api(r, d) == Starts(r, "api", [All("none") EXCEPT ![d] = "waiting"], All("none"))

Readiness(r) == Starts(r, "readiness", All("none"), All("waiting"))

Alerts(r) == Starts(r, "alerts",
                    [d \in Services |-> IF d \in Summarizers THEN "waiting" ELSE "none"],
                    All("waiting"))

Failed(q)      == \E d \in Services : q.call[d] = "failed"
Pending(calls) == \E d \in Services : calls[d] = "waiting"
Ready(q)       == \A d \in Services : q.probe[d] # "failed"

\* What the handler ends with, or "none" while it waits.  Promise.all rejects at
\* the first failure; readiness answers 503 when a probe failed.
Result(q) ==
    CASE Failed(q)                                          -> "server"
      [] ~Failed(q) /\ (Pending(q.call) \/ Pending(q.probe)) -> "none"
      [] OTHER -> IF q.kind = "readiness" /\ ~Ready(q) THEN "server" ELSE "ok"

\* What returns after the handler has its result changes nothing.
CallReturns(r, d, result) ==
    /\ request[r].call[d] = "waiting" /\ Result(request[r]) = "none"
    /\ \/ result \in {"answered", "failed"} /\ service[d] = "up"
       \/ result = "failed" /\ service[d] = "down"
    /\ request' = [request EXCEPT ![r].call[d] = result]
    /\ UNCHANGED <<service, Metrics>>

ProbeReturns(r, d, result) ==
    /\ request[r].probe[d] = "waiting" /\ Result(request[r]) = "none"
    /\ \/ result = "answered" /\ service[d] = "up"
       \/ result = "failed"   /\ service[d] = "down"
    /\ request' = [request EXCEPT ![r].probe[d] = result]
    /\ UNCHANGED <<service, Metrics>>

\* Mutant: the timer wins with no error.
ProbeTimesOutReady(r, d) ==
    /\ request[r].probe[d] = "waiting" /\ Result(request[r]) = "none"
    /\ request' = [request EXCEPT ![r].probe[d] = "answered"]
    /\ UNCHANGED <<service, Metrics>>

\* Mutant: the timer is only set for services that are down.
ProbeTimesOutIfDown(r, d) ==
    /\ request[r].probe[d] = "waiting" /\ Result(request[r]) = "none"
    /\ service[d] = "down"
    /\ request' = [request EXCEPT ![r].probe[d] = "failed"]
    /\ UNCHANGED <<service, Metrics>>

\* probeWithTimeout: the race is lost, and a later answer is dropped.
ProbeTimesOut(r, d) ==
    /\ request[r].probe[d] = "waiting" /\ Result(request[r]) = "none"
    /\ request' = [request EXCEPT ![r].probe[d] = "failed"]
    /\ UNCHANGED <<service, Metrics>>

Sends(status) == [New EXCEPT !.pc = "ended", !.sent = status, !.open = TRUE]

\* The handler ends in time; AllExceptionsFilter counts a 5xx before it answers.
Respond(r) ==
    LET q == request[r]
        result == Result(q)
    IN
    /\ q.pc = "handling"
    /\ result # "none"
    /\ request' = [request EXCEPT ![r] =
                     [Sends(result) EXCEPT
                        !.ready = (q.kind # "api" /\ result = "ok" /\ Ready(q)), !.up = q.up]]
    /\ errors5xx' = errors5xx + (IF result = "server" THEN 1 ELSE 0)
    /\ UNCHANGED <<service, counts>>

\* res.setTimeout
TimesOut(r) ==
    /\ request[r].pc = "handling"
    /\ request' = [request EXCEPT ![r].pc = "late", ![r].sent = "timeout",
                                        ![r].open = TRUE, ![r].up = {}]
    /\ UNCHANGED <<service, Metrics>>

\* The handler ends after 408 was sent: what it answers can no longer be written.
\* That throws, and the filter takes what is thrown for a 5xx, unless the handler
\* had thrown less than a 5xx itself.  The status of the response changes even so,
\* and is what will be recorded if the response has not finished.
EndsLate(r) ==
    LET q == request[r] IN
    /\ q.pc = "late"
    /\ Result(q) # "none"
    /\ \E status \in {"ok", "server"} :
         /\ Result(q) = "server" => status = "server"
         /\ request' = [request EXCEPT ![r] =
                          [Sends(IF q.open THEN status ELSE "timeout") EXCEPT !.open = q.open]]
         /\ errors5xx' = errors5xx + (IF status = "server" THEN 1 ELSE 0)
    /\ UNCHANGED <<service, counts>>

Closes(r) == request' = [request EXCEPT ![r].open = FALSE, ![r].ready = FALSE, ![r].up = {}]

\* Mutant: the status is counted, not the error, which is left to the filter.
FinishUncounted(r) ==
    /\ request[r].open
    /\ Closes(r)
    /\ counts' = [counts EXCEPT ![request[r].sent] = @ + 1]
    /\ UNCHANGED <<service, errors5xx>>

\* Mutant: finish and close both record the response.
FinishAndClose(r) ==
    /\ request[r].open
    /\ counts' = [counts EXCEPT ![request[r].sent] = @ + 1]
    /\ errors5xx' = errors5xx + (IF request[r].sent = "server" THEN 1 ELSE 0)
    /\ UNCHANGED <<service, request>>

\* res.on('finish'): recordRequest
Finish(r) ==
    /\ request[r].open
    /\ Closes(r)
    /\ counts' = [counts EXCEPT ![request[r].sent] = @ + 1]
    /\ errors5xx' = errors5xx + (IF request[r].sent = "server" THEN 1 ELSE 0)
    /\ UNCHANGED service

\* The client has gone: the response never finishes.
Abort(r) ==
    /\ request[r].open
    /\ Closes(r)
    /\ UNCHANGED <<service, Metrics>>

Handler(r) == Respond(r) \/ EndsLate(r)

Next ==
    \/ \E d \in Services, s \in {"up", "down", "hung"} : ServiceChanges(d, s)
    \/ \E r \in Requests :
         \/ \E d \in Services :
              \/ Api(r, d)
              \/ \E s \in {"answered", "failed"} : CallReturns(r, d, s) \/ ProbeReturns(r, d, s)
              \/ ProbeTimesOut(r, d)
         \/ Readiness(r) \/ Alerts(r)
         \/ Handler(r) \/ TimesOut(r)
         \/ Finish(r) \/ Abort(r)

Spec == Init /\ [][Next]_vars

\* The timers of probes fire and handlers run on; a service need never answer.
Fairness == \A r \in Requests : /\ WF_vars(Handler(r))
                                /\ WF_vars(\E d \in Services : ProbeTimesOut(r, d))

FairSpec == Spec /\ Fairness

-----------------------------------------------------------------------------
(* Properties.                                                             *)

Total == counts["ok"] + counts["server"] + counts["timeout"]

\* errorRate5xx in hundredths of a percent, as toFixed(4) rounds it
Rate(errors, total) == IF total = 0 THEN 0 ELSE (20000 * errors + total) \div (2 * total)

\* The alert gateway.5xx-rate
RateAlert == Rate(errors5xx, Total) >= 100 * Threshold

\* The alert is on whenever the share of 5xx among the finished responses reaches
\* its threshold ("Gateway 5xx error rate above threshold",
\* api-gateway.service.ts:120).
RateAlertNotMissed == Rate(counts["server"], Total) >= 100 * Threshold => RateAlert

\* However the filter, the finish of responses, late answers and lost clients
\* interleave: a 5xx response that finished was counted twice, and beyond those
\* only responses that have not finished, or were not counted as a 5xx because
\* they timed out or the client had gone.  So no alert is missed.
ErrorsAccounted ==
    LET Ended == Cardinality({r \in Requests : request[r].sent \in {"server", "timeout"}}) IN
    /\ 2 * counts["server"] <= errors5xx
    /\ errors5xx <= counts["server"] + Ended
    /\ RateAlertNotMissed

\* Neither readiness nor alerts calls the system ready while a service was not up
\* at any time of the call: it hung, was down, or went from one to the other.
OutageIsNoticed == \A r \in Requests : request[r].ready => request[r].up = Services

\* The handler of readiness comes to an end whatever the services do (that of
\* alerts need not: its summaries have no timer).
ReadinessEnds ==
    \A r \in Requests : (request[r].kind = "readiness" /\ request[r].pc = "handling")
                            ~> request[r].pc = "ended"

=============================================================================
