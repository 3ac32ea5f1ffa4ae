------------------------ MODULE GatewayHealth_proofs ------------------------
(***************************************************************************)
(* Proofs about GatewayHealth, for any finite number of requests, any set  *)
(* of services and any threshold.                                          *)
(***************************************************************************)
EXTENDS GatewayHealth, FiniteSetTheorems, TLAPS

-----------------------------------------------------------------------------
(* Sets of requests, and how a step that touches one request changes them. *)

Closed     == {r \in Requests : request[r].sent # "no" /\ ~request[r].open}
OpenServer == {r \in Requests : request[r].sent = "server" /\ request[r].open}
Ended      == {r \in Requests : request[r].pc = "ended" /\ request[r].sent \in {"server", "timeout"}}
Erred      == {r \in Requests : request[r].sent \in {"server", "timeout"}}

Sizes == /\ Cardinality(Closed)     \in Nat /\ Cardinality(Closed)     <= Cardinality(Requests)
         /\ Cardinality(OpenServer) \in Nat
         /\ Cardinality(Ended)      \in Nat /\ Cardinality(Ended) <= Cardinality(Erred)
         /\ Cardinality(Erred)      \in Nat /\ Cardinality(Erred) <= Cardinality(Requests)
         /\ Cardinality(Requests)   \in Nat

LEMMA Finite ==
  ASSUME NEW S, S \subseteq Requests
  PROVE  /\ IsFiniteSet(S)
         /\ Cardinality(S) \in Nat
         /\ Cardinality(S) <= Cardinality(Requests)
         /\ Cardinality(Requests) \in Nat
BY RequestsAssumption, FS_Subset, FS_CardinalityType

LEMMA SizesTyped == Sizes
<1>1. /\ Closed \subseteq Requests /\ OpenServer \subseteq Requests
      /\ Ended \subseteq Erred /\ Erred \subseteq Requests
  BY DEF Closed, OpenServer, Ended, Erred
<1>2. Cardinality(Ended) <= Cardinality(Erred)
  BY <1>1, Finite, FS_Subset
<1> QED
  BY <1>1, <1>2, Finite DEF Sizes

\* A set of requests of which a step adds, keeps or removes one.
LEMMA SizeOfAdded ==
  ASSUME NEW S, S \subseteq Requests, NEW r \in Requests, r \notin S
  PROVE  Cardinality(S \cup {r}) = Cardinality(S) + 1
BY Finite, FS_AddElement

LEMMA SizeOfRemoved ==
  ASSUME NEW S, S \subseteq Requests, NEW r \in Requests, r \in S
  PROVE  Cardinality(S \ {r}) = Cardinality(S) - 1
BY Finite, FS_RemoveElement

-----------------------------------------------------------------------------
(* The invariant.                                                          *)

\* A request that has not been answered has sent nothing, and no more is known
\* of it; nothing is open or ready that was not sent.
Fresh(q) == /\ q.pc \in {"new", "handling"} => q.sent = "no"
            /\ q.pc \in {"late", "ended"} => q.sent # "no"
            /\ q.sent = "no" => ~q.open /\ ~q.ready
            /\ q.pc = "late" => q.sent = "timeout"

\* The locals of a request are well typed.
Typed == /\ service \in [Services -> {"up", "down", "hung"}]
         /\ request \in [Requests -> Request]
         /\ counts \in [Statuses -> Nat]
         /\ errors5xx \in Nat
         /\ \A r \in Requests : Fresh(request[r])

\* The counters against the requests: each response is recorded once, when it
\* finishes; what is counted beyond the 5xx among them was counted by the filter,
\* once for each request that has ended, and for each 5xx that has finished or may
\* still finish.
Counted ==
    /\ Total <= Cardinality(Closed)
    /\ Cardinality(OpenServer) + counts["server"] <= errors5xx - counts["server"]
    /\ errors5xx - counts["server"] <= Cardinality(Ended)

\* While readiness and alerts run, their history of the services that were up
\* holds those that are up now and those that answered a probe; what calls itself
\* ready was all up.
Probed(q) == /\ q.pc = "handling" /\ q.kind # "api" =>
                  /\ UpNow \subseteq q.up
                  /\ \A d \in Services : /\ q.probe[d] # "none"
                                         /\ q.probe[d] = "answered" => d \in q.up
             /\ q.ready => q.up = Services

AllProbed == \A r \in Requests : Probed(request[r])

-----------------------------------------------------------------------------
(* Types.                                                                  *)

LEMMA NewTyped == New \in Request /\ Fresh(New)
BY DEF New, Request, Fresh, All, Calls, Statuses

LEMMA TypedInit == Init => Typed
BY NewTyped DEF Init, Typed, All, Statuses

\* What every step but a change of a service does: it puts one request somewhere.
LEMMA TypedPut ==
  ASSUME Typed, NEW r \in Requests, NEW q \in Request, Fresh(q),
         request' = [request EXCEPT ![r] = q], UNCHANGED service,
         counts' \in [Statuses -> Nat], errors5xx' \in Nat
  PROVE  Typed'
BY DEF Typed

LEMMA SendsTyped ==
  ASSUME NEW status \in Statuses
  PROVE  Sends(status) \in Request /\ Fresh(Sends(status))
<1>1. Sends(status) = [New EXCEPT !.pc = "ended", !.sent = status, !.open = TRUE]
  BY DEF Sends
<1>2. New \in Request
  BY NewTyped
<1>3. Sends(status) \in Request
  BY <1>1, <1>2 DEF Request
<1>4. Sends(status).pc = "ended" /\ Sends(status).sent = status
  BY <1>1 DEF New
<1> QED
  BY <1>3, <1>4 DEF Fresh, Statuses

LEMMA ResultTyped ==
  ASSUME NEW q
  PROVE  Result(q) \in {"none", "ok", "server"}
BY DEF Result

LEMMA TypedStep == Typed /\ [Next]_vars => Typed'
<1> SUFFICES ASSUME Typed, [Next]_vars PROVE Typed'
  OBVIOUS
<1>0. \A r \in Requests : request[r] \in Request /\ Fresh(request[r])
  BY DEF Typed
<1>00. counts \in [Statuses -> Nat] /\ errors5xx \in Nat
  BY DEF Typed
<1>1. ASSUME NEW d \in Services, NEW s \in {"up", "down", "hung"}, ServiceChanges(d, s)
      PROVE  Typed'
  <2>1. \A r \in Requests : [request[r] EXCEPT !.up = @ \cup {d}] \in Request
                              /\ Fresh([request[r] EXCEPT !.up = @ \cup {d}])
    BY <1>0 DEF Request, Fresh
  <2>2. \A r \in Requests : request'[r] \in Request /\ Fresh(request'[r])
    BY <1>0, <1>1, <2>1 DEF ServiceChanges
  <2>3. request' \in [Requests -> Request]
    BY <1>1, <2>2 DEF ServiceChanges, Typed
  <2> QED
    BY <1>1, <2>2, <2>3 DEF ServiceChanges, Typed, Metrics
<1>2. ASSUME NEW r \in Requests, NEW kind \in {"api", "readiness", "alerts"},
             NEW call \in [Services -> Calls], NEW probe \in [Services -> Calls],
             Starts(r, kind, call, probe)
      PROVE  Typed'
  <2> DEFINE q == [New EXCEPT !.pc = "handling", !.kind = kind, !.call = call, !.probe = probe,
                              !.up = IF kind = "api" THEN {} ELSE UpNow]
  <2>1. q \in Request /\ Fresh(q)
    BY DEF New, Request, Fresh, UpNow, Statuses
  <2>2. request' = [request EXCEPT ![r] = q] /\ UNCHANGED <<service, Metrics>>
    BY <1>2 DEF Starts
  <2> QED
    BY <1>00, <2>1, <2>2, TypedPut DEF Metrics
<1>3. ASSUME NEW r \in Requests, \/ \E d \in Services : Api(r, d)
                                 \/ Readiness(r) \/ Alerts(r)
      PROVE  Typed'
  <2>1. /\ \A d \in Services : [All("none") EXCEPT ![d] = "waiting"] \in [Services -> Calls]
        /\ All("none") \in [Services -> Calls] /\ All("waiting") \in [Services -> Calls]
        /\ [d \in Services |-> IF d \in Summarizers THEN "waiting" ELSE "none"]
             \in [Services -> Calls]
    BY DEF All, Calls
  <2> QED
    BY <1>2, <1>3, <2>1 DEF Api, Readiness, Alerts
<1>4. ASSUME NEW r \in Requests, NEW d \in Services, NEW s \in {"answered", "failed"},
             CallReturns(r, d, s) \/ ProbeReturns(r, d, s) \/ ProbeTimesOut(r, d)
      PROVE  Typed'
  <2>1. /\ [request[r] EXCEPT !.call[d] = s] \in Request
        /\ [request[r] EXCEPT !.probe[d] = s] \in Request
        /\ [request[r] EXCEPT !.probe[d] = "failed"] \in Request
    BY <1>0 DEF Request, Calls
  <2>2. /\ Fresh([request[r] EXCEPT !.call[d] = s])
        /\ Fresh([request[r] EXCEPT !.probe[d] = s])
        /\ Fresh([request[r] EXCEPT !.probe[d] = "failed"])
    BY <1>0 DEF Request, Fresh
  <2> QED
    BY <1>4, <1>00, <2>1, <2>2, TypedPut DEF CallReturns, ProbeReturns, ProbeTimesOut, Metrics
<1>5. ASSUME NEW r \in Requests, Respond(r) PROVE Typed'
  <2> DEFINE q == request[r]
             s == Sends(Result(q))
             n == [s EXCEPT !.ready = (q.kind # "api" /\ Result(q) = "ok" /\ Ready(q)), !.up = q.up]
  <2>1. Result(q) \in Statuses
    BY <1>5, ResultTyped DEF Respond, Statuses
  <2>2. s \in Request /\ Fresh(s) /\ s.sent # "no"
    BY <1>0, <2>1, SendsTyped DEF Sends, New, Statuses
  <2>3. q.up \in SUBSET Services /\ (q.kind # "api" /\ Result(q) = "ok" /\ Ready(q)) \in BOOLEAN
    BY <1>0 DEF Request
  <2>4. n \in Request /\ Fresh(n)
    <3> HIDE DEF s
    <3> QED BY <2>2, <2>3 DEF Request, Fresh
  <2>5. request' = [request EXCEPT ![r] = n] /\ UNCHANGED <<service, counts>>
    BY <1>5 DEF Respond
  <2>6. errors5xx' \in Nat
    BY <1>5, <1>00 DEF Respond
  <2> HIDE DEF n
  <2> QED
    BY <1>00, <2>4, <2>5, <2>6, TypedPut
<1>6. ASSUME NEW r \in Requests, TimesOut(r) PROVE Typed'
  <2> DEFINE n == [request[r] EXCEPT !.pc = "late", !.sent = "timeout", !.open = TRUE, !.up = {}]
  <2>1. n \in Request /\ Fresh(n)
    BY <1>0 DEF Request, Fresh, Statuses
  <2>2. request' = [request EXCEPT ![r] = n] /\ UNCHANGED <<service, Metrics>>
    BY <1>6 DEF TimesOut
  <2> HIDE DEF n
  <2> QED
    BY <1>00, <2>1, <2>2, TypedPut DEF Metrics
<1>7. ASSUME NEW r \in Requests, EndsLate(r) PROVE Typed'
  <2> DEFINE q == request[r]
  <2>1. PICK status \in {"ok", "server"} :
           /\ request' = [request EXCEPT ![r] =
                            [Sends(IF q.open THEN status ELSE "timeout")
                               EXCEPT !.open = q.open]]
           /\ errors5xx' = errors5xx + (IF status = "server" THEN 1 ELSE 0)
    BY <1>7 DEF EndsLate
  <2> DEFINE s == Sends(IF q.open THEN status ELSE "timeout")
             n == [s EXCEPT !.open = q.open]
  <2>2. s \in Request /\ Fresh(s) /\ s.sent # "no"
    BY <1>0, SendsTyped DEF Sends, New, Statuses
  <2>3. q.open \in BOOLEAN
    BY <1>0 DEF Request
  <2>4. n \in Request /\ Fresh(n)
    <3> HIDE DEF s
    <3> QED BY <2>2, <2>3 DEF Request, Fresh
  <2>5. request' = [request EXCEPT ![r] = n] /\ UNCHANGED <<service, counts>>
    BY <1>7, <2>1 DEF EndsLate
  <2>6. errors5xx' \in Nat
    BY <1>00, <2>1
  <2> HIDE DEF n
  <2> QED
    BY <1>00, <2>4, <2>5, <2>6, TypedPut
<1>8. ASSUME NEW r \in Requests, Finish(r) \/ Abort(r) PROVE Typed'
  <2> DEFINE n == [request[r] EXCEPT !.open = FALSE, !.ready = FALSE, !.up = {}]
  <2>1. n \in Request /\ Fresh(n)
    BY <1>0 DEF Request, Fresh
  <2>2. request' = [request EXCEPT ![r] = n] /\ UNCHANGED service
    BY <1>8 DEF Finish, Abort, Closes
  <2>3. counts' \in [Statuses -> Nat] /\ errors5xx' \in Nat
    BY <1>8, <1>00 DEF Finish, Abort, Metrics
  <2> HIDE DEF n
  <2> QED
    BY <2>1, <2>2, <2>3, TypedPut
<1>9. UNCHANGED vars => Typed'
  BY DEF vars, Typed
<1> QED
  BY <1>1, <1>3, <1>4, <1>5, <1>6, <1>7, <1>8, <1>9 DEF Next, Handler

-----------------------------------------------------------------------------
(* The counters.                                                           *)

\* A step that answers nothing, but for a 408.
Quiet(q, next) == \/ next.sent = q.sent /\ next.open = q.open /\ next.pc = q.pc
                  \/ /\ q.sent = "no" /\ q.pc # "ended" /\ next.pc # "ended"
                     /\ next.sent = "no" \/ (next.sent = "timeout" /\ next.open)

LEMMA CountedQuiet ==
  ASSUME Counted, UNCHANGED Metrics, \A r \in Requests : Quiet(request[r], request'[r])
  PROVE  Counted'
<1>1. Closed' = Closed /\ OpenServer' = OpenServer /\ Ended' = Ended
  BY DEF Closed, OpenServer, Ended, Quiet
<1> QED
  BY <1>1 DEF Counted, Total, Metrics

LEMMA RespondCounted ==
  ASSUME Typed, Counted, NEW r \in Requests, Respond(r)
  PROVE  Counted'
<1> DEFINE result == Result(request[r])
<1>1. /\ request[r].pc = "handling" /\ request[r].sent = "no" /\ ~request[r].open
      /\ counts["server"] \in Nat /\ errors5xx \in Nat /\ Total \in Nat
  BY DEF Respond, Typed, Fresh, Request, Total, Statuses
<1>2. result \in {"ok", "server"}
  BY ResultTyped DEF Respond
<1>3. /\ request'[r].sent = result /\ request'[r].open /\ request'[r].pc = "ended"
      /\ \A x \in Requests \ {r} : request'[x] = request[x]
      /\ counts' = counts /\ errors5xx' = errors5xx + (IF result = "server" THEN 1 ELSE 0)
  BY DEF Respond, Sends, New, Typed, Request
<1> HIDE DEF result
<1>4. Closed' = Closed
  BY <1>1, <1>2, <1>3 DEF Closed
<1>5. Total' = Total
  BY <1>3 DEF Total
<1>6. CASE result = "ok"
  <2>1. OpenServer' = OpenServer /\ Ended' = Ended
    BY <1>1, <1>3, <1>6 DEF OpenServer, Ended
  <2> QED
    BY <1>1, <1>3, <1>4, <1>5, <1>6, <2>1, SizesTyped DEF Counted, Sizes
<1>7. CASE result = "server"
  <2>1. /\ OpenServer' = OpenServer \cup {r} /\ Ended' = Ended \cup {r}
        /\ r \notin OpenServer /\ r \notin Ended
        /\ OpenServer \subseteq Requests /\ Ended \subseteq Requests
    BY <1>1, <1>3, <1>7 DEF OpenServer, Ended
  <2>2. /\ Cardinality(OpenServer') = Cardinality(OpenServer) + 1
        /\ Cardinality(Ended') = Cardinality(Ended) + 1
    BY <2>1, SizeOfAdded
  <2> QED
    BY <1>1, <1>3, <1>4, <1>5, <1>7, <2>2, SizesTyped DEF Counted, Sizes
<1> QED
  BY <1>2, <1>6, <1>7

LEMMA EndsLateCounted ==
  ASSUME Typed, Counted, NEW r \in Requests, EndsLate(r)
  PROVE  Counted'
<1>1. /\ request[r].pc = "late" /\ request[r].sent = "timeout" /\ request[r].open \in BOOLEAN
      /\ counts["server"] \in Nat /\ errors5xx \in Nat /\ Total \in Nat
  BY DEF EndsLate, Typed, Fresh, Request, Total, Statuses
<1>2. PICK status \in {"ok", "server"} :
        /\ request' = [request EXCEPT ![r] =
                         [Sends(IF request[r].open THEN status ELSE "timeout")
                            EXCEPT !.open = request[r].open]]
        /\ errors5xx' = errors5xx + (IF status = "server" THEN 1 ELSE 0)
  BY DEF EndsLate
<1>3. /\ request'[r].pc = "ended" /\ request'[r].open = request[r].open
      /\ request'[r].sent = IF request[r].open THEN status ELSE "timeout"
      /\ \A x \in Requests \ {r} : request'[x] = request[x]
      /\ counts' = counts
  BY <1>2 DEF EndsLate, Sends, New, Typed, Request
<1>4. Closed' = Closed /\ Total' = Total
  BY <1>1, <1>3 DEF Closed, Total
<1>5. r \notin Ended /\ r \notin OpenServer /\ Ended \subseteq Requests /\ OpenServer \subseteq Requests
  BY <1>1 DEF Ended, OpenServer
<1>6. CASE request[r].open /\ status = "ok"
  <2>1. OpenServer' = OpenServer /\ Ended' = Ended
    BY <1>1, <1>3, <1>6 DEF OpenServer, Ended
  <2> QED
    BY <1>1, <1>2, <1>3, <1>4, <1>6, <2>1, SizesTyped DEF Counted, Sizes
<1>7. CASE request[r].open /\ status = "server"
  <2>1. OpenServer' = OpenServer \cup {r} /\ Ended' = Ended \cup {r}
    BY <1>1, <1>3, <1>7 DEF OpenServer, Ended
  <2>2. /\ Cardinality(OpenServer') = Cardinality(OpenServer) + 1
        /\ Cardinality(Ended') = Cardinality(Ended) + 1
    BY <1>5, <2>1, SizeOfAdded
  <2> QED
    BY <1>1, <1>2, <1>3, <1>4, <1>7, <2>2, SizesTyped DEF Counted, Sizes
<1>8. CASE ~request[r].open
  <2>1. OpenServer' = OpenServer /\ Ended' = Ended \cup {r}
    BY <1>1, <1>3, <1>8 DEF OpenServer, Ended
  <2>2. Cardinality(Ended') = Cardinality(Ended) + 1
    BY <1>5, <2>1, SizeOfAdded
  <2> QED
    BY <1>1, <1>2, <1>3, <1>4, <2>1, <2>2, SizesTyped DEF Counted, Sizes
<1> QED
  BY <1>1, <1>6, <1>7, <1>8

\* A response that finishes, or never will, moves from the open to the closed.
LEMMA ClosedSets ==
  ASSUME Typed, NEW r \in Requests, request[r].open, Closes(r)
  PROVE  /\ Cardinality(Closed') = Cardinality(Closed) + 1
         /\ Cardinality(OpenServer') = IF request[r].sent = "server"
                                       THEN Cardinality(OpenServer) - 1 ELSE Cardinality(OpenServer)
         /\ Ended' = Ended
         /\ request[r].sent \in Statuses
<1>1. /\ request'[r].pc = request[r].pc /\ request'[r].sent = request[r].sent /\ ~request'[r].open
      /\ \A x \in Requests \ {r} : request'[x] = request[x]
      /\ request[r].sent \in Statuses
  BY DEF Closes, Typed, Fresh, Request
<1>2. /\ Closed' = Closed \cup {r} /\ r \notin Closed /\ Closed \subseteq Requests
      /\ OpenServer' = OpenServer \ {r} /\ OpenServer \subseteq Requests
      /\ r \in OpenServer <=> request[r].sent = "server"
      /\ Ended' = Ended
  BY <1>1 DEF Closed, OpenServer, Ended, Statuses
<1>3. Cardinality(Closed') = Cardinality(Closed) + 1
  BY <1>2, SizeOfAdded
<1>4. r \notin OpenServer => OpenServer' = OpenServer
  BY <1>2
<1> QED
  BY <1>1, <1>2, <1>3, <1>4, SizeOfRemoved

LEMMA FinishCounted ==
  ASSUME Typed, Counted, NEW r \in Requests, Finish(r)
  PROVE  Counted'
<1>1. /\ Cardinality(Closed') = Cardinality(Closed) + 1
      /\ Cardinality(OpenServer') = IF request[r].sent = "server"
                                    THEN Cardinality(OpenServer) - 1 ELSE Cardinality(OpenServer)
      /\ Ended' = Ended
      /\ request[r].sent \in Statuses
  BY ClosedSets DEF Finish
<1>2. /\ counts \in [Statuses -> Nat] /\ errors5xx \in Nat
      /\ counts' = [counts EXCEPT ![request[r].sent] = @ + 1]
      /\ errors5xx' = errors5xx + (IF request[r].sent = "server" THEN 1 ELSE 0)
  BY DEF Finish, Typed
<1>3. Total' = Total + 1 /\ Total \in Nat
  BY <1>1, <1>2 DEF Total, Statuses
<1>4. counts'["server"] = counts["server"] + (IF request[r].sent = "server" THEN 1 ELSE 0)
  BY <1>1, <1>2 DEF Statuses
<1>5. counts["server"] \in Nat
  BY <1>2 DEF Statuses
<1> QED
  BY <1>1, <1>2, <1>3, <1>4, <1>5, SizesTyped DEF Counted, Sizes

LEMMA AbortCounted ==
  ASSUME Typed, Counted, NEW r \in Requests, Abort(r)
  PROVE  Counted'
<1>1. /\ Cardinality(Closed') = Cardinality(Closed) + 1
      /\ Cardinality(OpenServer') = IF request[r].sent = "server"
                                    THEN Cardinality(OpenServer) - 1 ELSE Cardinality(OpenServer)
      /\ Ended' = Ended
  BY ClosedSets DEF Abort
<1>2. Total' = Total /\ Total \in Nat /\ counts["server"] \in Nat /\ errors5xx \in Nat
  BY DEF Abort, Metrics, Total, Typed, Statuses
<1> QED
  BY <1>1, <1>2, SizesTyped DEF Counted, Sizes, Abort, Metrics

LEMMA CountedStep == Typed /\ Counted /\ [Next]_vars => Counted'
<1> SUFFICES ASSUME Typed, Counted, [Next]_vars PROVE Counted'
  OBVIOUS
<1>0. \A r \in Requests : request[r] \in Request /\ Fresh(request[r])
  BY DEF Typed
<1>1. ASSUME NEW d \in Services, NEW s \in {"up", "down", "hung"}, ServiceChanges(d, s)
      PROVE  Counted'
  <2>1. \A r \in Requests : Quiet(request[r], request'[r])
    BY <1>0, <1>1 DEF ServiceChanges, Request, Quiet
  <2> QED
    BY <1>1, <2>1, CountedQuiet DEF ServiceChanges
<1>2. ASSUME NEW r \in Requests, NEW kind, NEW call, NEW probe, Starts(r, kind, call, probe)
      PROVE  Counted'
  <2>1. /\ request[r].pc = "new" /\ request[r].sent = "no"
        /\ request'[r].pc = "handling" /\ request'[r].sent = "no"
        /\ \A x \in Requests \ {r} : request'[x] = request[x]
    BY <1>0, <1>2 DEF Starts, New, Fresh, Typed
  <2>2. \A x \in Requests : Quiet(request[x], request'[x])
    BY <2>1 DEF Quiet
  <2> QED
    BY <1>2, <2>2, CountedQuiet DEF Starts
<1>3. ASSUME NEW r \in Requests, NEW d \in Services, NEW s \in {"answered", "failed"},
             CallReturns(r, d, s) \/ ProbeReturns(r, d, s) \/ ProbeTimesOut(r, d)
      PROVE  Counted'
  <2>1. \A x \in Requests : Quiet(request[x], request'[x])
    BY <1>0, <1>3 DEF CallReturns, ProbeReturns, ProbeTimesOut, Request, Typed, Quiet
  <2>2. UNCHANGED Metrics
    BY <1>3 DEF CallReturns, ProbeReturns, ProbeTimesOut, Metrics
  <2> QED
    BY <2>1, <2>2, CountedQuiet
<1>4. ASSUME NEW r \in Requests, TimesOut(r) PROVE Counted'
  <2>1. /\ request[r].pc = "handling" /\ request[r].sent = "no"
        /\ request'[r].pc = "late" /\ request'[r].sent = "timeout" /\ request'[r].open
        /\ \A x \in Requests \ {r} : request'[x] = request[x]
    BY <1>0, <1>4 DEF TimesOut, Fresh, Typed, Request
  <2>2. \A x \in Requests : Quiet(request[x], request'[x])
    BY <2>1 DEF Quiet
  <2> QED
    BY <1>4, <2>2, CountedQuiet DEF TimesOut
<1>5. UNCHANGED vars => Counted'
  BY DEF vars, Counted, Closed, OpenServer, Ended, Total
<1> QED
  BY <1>1, <1>2, <1>3, <1>4, <1>5, RespondCounted, EndsLateCounted, FinishCounted, AbortCounted
     DEF Next, Handler, Api, Readiness, Alerts

LEMMA CountedInit == Init => Counted
<1> SUFFICES ASSUME Init PROVE Counted
  OBVIOUS
<1>1. Closed = {} /\ OpenServer = {} /\ Ended = {}
  BY DEF Init, New, Closed, OpenServer, Ended
<1>2. counts["server"] = 0 /\ Total = 0 /\ errors5xx = 0
  BY DEF Init, Total, Statuses
<1> QED
  BY <1>1, <1>2, FS_EmptySet DEF Counted

\* Every variable stays in its type, the counters within their bounds.
THEOREM TypeCorrect == Spec => []TypeOK
<1>1. Typed /\ Counted => TypeOK
  <2> SUFFICES ASSUME Typed, Counted PROVE TypeOK
    OBVIOUS
  <2>1. /\ counts["ok"] \in Nat /\ counts["server"] \in Nat /\ counts["timeout"] \in Nat
        /\ counts \in [Statuses -> Nat] /\ errors5xx \in Nat
    BY DEF Typed, Statuses
  <2>2. \A s \in Statuses : counts[s] <= Total
    BY <2>1 DEF Total, Statuses
  <2>3. \A s \in Statuses : counts[s] \in 0..Cardinality(Requests)
    BY <2>1, <2>2, SizesTyped DEF Counted, Sizes, Total, Statuses
  <2>4. errors5xx <= 2 * Cardinality(Requests)
    BY <2>1, <2>3, SizesTyped DEF Counted, Sizes, Statuses
  <2> QED
    BY <2>1, <2>3, <2>4, SizesTyped DEF Typed, TypeOK, Sizes
<1> QED
  BY <1>1, TypedInit, TypedStep, CountedInit, CountedStep, PTL DEF Spec

-----------------------------------------------------------------------------
(* The alert.                                                              *)

LEMMA QuotientGrows ==
  ASSUME NEW a \in Nat, NEW b \in Nat, NEW n \in Nat, n > 0, a <= b
  PROVE  a \div n <= b \div n
<1> DEFINE p == a \div n
           q == b \div n
<1>1. /\ p \in Int /\ n * p <= a
      /\ q \in Int /\ b < n * q + n
  OBVIOUS
<1> HIDE DEF p, q
<1>2. SUFFICES ASSUME p > q PROVE FALSE
  BY <1>1 DEF p, q
<1>3. p >= q + 1
  BY <1>1, <1>2
<1>4. n * p >= n * (q + 1)
  BY <1>1, <1>3
<1>5. n * (q + 1) = n * q + n
  BY <1>1
<1> QED
  BY <1>1, <1>4, <1>5

LEMMA RateGrows ==
  ASSUME NEW e \in Nat, NEW f \in Nat, NEW n \in Nat, e <= f
  PROVE  Rate(e, n) <= Rate(f, n)
<1>1. CASE n = 0
  BY <1>1 DEF Rate
<1>2. CASE n > 0
  <2>1. /\ 20000 * e + n \in Nat /\ 20000 * f + n \in Nat /\ 2 * n \in Nat /\ 2 * n > 0
        /\ 20000 * e + n <= 20000 * f + n
    BY <1>2
  <2> QED
    BY <1>2, <2>1, QuotientGrows DEF Rate
<1> QED
  BY <1>1, <1>2

LEMMA RateTyped == ASSUME NEW e \in Nat, NEW n \in Nat PROVE Rate(e, n) \in Int
<1>1. CASE n = 0
  BY <1>1 DEF Rate
<1>2. CASE n > 0
  <2>1. 20000 * e + n \in Nat /\ 2 * n \in Nat /\ 2 * n > 0
    BY <1>2
  <2> QED
    BY <1>2, <2>1 DEF Rate
<1> QED
  BY <1>1, <1>2

\* However many requests there are: no response with a 5xx is missed by the rate
\* the alert is computed from, and no request adds more than one to it beyond its
\* own response.
THEOREM ErrorsSafe == Spec => []ErrorsAccounted
<1>1. Typed /\ Counted => ErrorsAccounted
  <2> SUFFICES ASSUME Typed, Counted PROVE ErrorsAccounted
    OBVIOUS
  <2>1. /\ counts["server"] \in Nat /\ errors5xx \in Nat /\ Total \in Nat
    BY DEF Typed, Total, Statuses
  <2>2. 2 * counts["server"] <= errors5xx
    BY <2>1, SizesTyped DEF Counted, Sizes
  <2>3. errors5xx <= counts["server"] + Cardinality(Erred)
    BY <2>1, SizesTyped DEF Counted, Sizes
  <2>4. RateAlertNotMissed
    <3>1. Rate(counts["server"], Total) <= Rate(errors5xx, Total)
      BY <2>1, <2>2, RateGrows
    <3> QED
      BY <3>1, <2>1, RateTyped, ThresholdAssumption DEF RateAlertNotMissed, RateAlert
  <2> QED
    BY <2>2, <2>3, <2>4 DEF ErrorsAccounted, Erred
<1> QED
  BY <1>1, TypedInit, TypedStep, CountedInit, CountedStep, PTL DEF Spec

-----------------------------------------------------------------------------
(* Readiness and alerts.                                                   *)

\* All that counts of a step that is about one request.
LEMMA ProbedPut ==
  ASSUME AllProbed, NEW r \in Requests, UNCHANGED service,
         \A x \in Requests \ {r} : request'[x] = request[x],
         Probed(request[r])'
  PROVE  AllProbed'
BY DEF AllProbed, Probed, UpNow

LEMMA ProbedInit == Init => AllProbed
BY DEF Init, New, AllProbed, Probed

LEMMA ProbedStep == Typed /\ AllProbed /\ [Next]_vars => AllProbed'
<1> SUFFICES ASSUME Typed, AllProbed, [Next]_vars PROVE AllProbed'
  OBVIOUS
<1>0. \A r \in Requests : request[r] \in Request /\ Fresh(request[r]) /\ Probed(request[r])
  BY DEF Typed, AllProbed
<1>1. ASSUME NEW d \in Services, NEW s \in {"up", "down", "hung"}, ServiceChanges(d, s)
      PROVE  AllProbed'
  <2> SUFFICES ASSUME NEW r \in Requests PROVE Probed(request[r])'
    BY DEF AllProbed
  <2>1. UpNow' \subseteq UpNow \cup (IF s = "up" THEN {d} ELSE {})
    BY <1>1 DEF ServiceChanges, UpNow, Typed
  <2>2. /\ request'[r].pc = request[r].pc /\ request'[r].kind = request[r].kind
        /\ request'[r].probe = request[r].probe /\ request'[r].ready = request[r].ready
        /\ request'[r].up = IF s = "up" /\ request[r].pc = "handling" /\ request[r].kind # "api"
                            THEN request[r].up \cup {d} ELSE request[r].up
    BY <1>0, <1>1 DEF ServiceChanges, Request
  <2>3. request[r].pc = "handling" => ~request[r].ready
    BY <1>0 DEF Fresh
  <2>4. (request[r].pc = "handling" /\ request[r].kind # "api") =>
           /\ UpNow' \subseteq request'[r].up
           /\ \A e \in Services : /\ request'[r].probe[e] # "none"
                                  /\ request'[r].probe[e] = "answered" => e \in request'[r].up
    BY <1>0, <2>1, <2>2 DEF Probed
  <2>5. request'[r].ready => request'[r].up = Services
    BY <1>0, <2>2, <2>3 DEF Probed
  <2> QED
    BY <2>2, <2>4, <2>5 DEF Probed
<1>2. ASSUME NEW r \in Requests, NEW kind, NEW call, NEW probe, Starts(r, kind, call, probe),
             kind # "api" => probe = All("waiting")
      PROVE  AllProbed'
  <2>1. /\ request'[r].kind = kind /\ request'[r].probe = probe /\ ~request'[r].ready
        /\ request'[r].up = IF kind = "api" THEN {} ELSE UpNow
        /\ \A x \in Requests \ {r} : request'[x] = request[x]
        /\ UNCHANGED service
    BY <1>2 DEF Starts, New, Typed
  <2>2. Probed(request[r])'
    BY <1>2, <2>1 DEF Probed, All, UpNow
  <2> QED
    BY <2>1, <2>2, ProbedPut
<1>3. ASSUME NEW r \in Requests, (\E d \in Services : Api(r, d)) \/ Readiness(r) \/ Alerts(r)
      PROVE  AllProbed'
  BY <1>2, <1>3 DEF Api, Readiness, Alerts
<1>4. ASSUME NEW r \in Requests, NEW d \in Services, NEW s \in {"answered", "failed"},
             CallReturns(r, d, s)
      PROVE  AllProbed'
  <2>1. /\ request'[r].pc = request[r].pc /\ request'[r].kind = request[r].kind
        /\ request'[r].probe = request[r].probe /\ request'[r].ready = request[r].ready
        /\ request'[r].up = request[r].up
        /\ \A x \in Requests \ {r} : request'[x] = request[x]
        /\ UNCHANGED service
    BY <1>0, <1>4 DEF CallReturns, Typed, Request
  <2>2. Probed(request[r])'
    BY <1>0, <2>1 DEF Probed, UpNow
  <2> QED
    BY <2>1, <2>2, ProbedPut
<1>5. ASSUME NEW r \in Requests, NEW d \in Services, NEW s \in {"answered", "failed"},
             \/ ProbeReturns(r, d, s)
             \/ s = "failed" /\ ProbeTimesOut(r, d)
      PROVE  AllProbed'
  <2>1. /\ request' = [request EXCEPT ![r].probe[d] = s]
        /\ s = "answered" => d \in UpNow
        /\ UNCHANGED service
    BY <1>5 DEF ProbeReturns, ProbeTimesOut, UpNow
  <2>2. /\ request'[r].pc = request[r].pc /\ request'[r].kind = request[r].kind
        /\ request'[r].ready = request[r].ready /\ request'[r].up = request[r].up
        /\ request'[r].probe = [request[r].probe EXCEPT ![d] = s]
        /\ \A x \in Requests \ {r} : request'[x] = request[x]
    BY <1>0, <2>1 DEF Typed, Request
  <2>3. request[r].probe \in [Services -> Calls]
    BY <1>0 DEF Request
  <2>4. Probed(request[r])'
    BY <1>0, <2>1, <2>2, <2>3 DEF Probed, UpNow
  <2> QED
    BY <2>1, <2>2, <2>4, ProbedPut
<1>6. ASSUME NEW r \in Requests, Respond(r) PROVE AllProbed'
  <2>1. /\ request'[r].pc = "ended" /\ request'[r].up = request[r].up
        /\ request'[r].ready = (/\ request[r].kind # "api" /\ Result(request[r]) = "ok"
                                /\ Ready(request[r]))
        /\ request[r].pc = "handling"
        /\ \A x \in Requests \ {r} : request'[x] = request[x]
        /\ UNCHANGED service
    BY <1>0, <1>6 DEF Respond, Sends, New, Typed, Request
  <2>2. ASSUME request'[r].ready PROVE request[r].up = Services
    <3>1. request[r].kind # "api" /\ Ready(request[r]) /\ ~Pending(request[r].probe)
      BY <2>1, <2>2 DEF Result
    <3>2. \A d \in Services : request[r].probe[d] = "answered"
      BY <1>0, <2>1, <3>1 DEF Ready, Pending, Probed, Request, Calls
    <3> QED
      BY <1>0, <2>1, <3>1, <3>2 DEF Probed, Request
  <2>3. Probed(request[r])'
    BY <2>1, <2>2 DEF Probed
  <2> QED
    BY <2>1, <2>3, ProbedPut
<1>7. ASSUME NEW r \in Requests, TimesOut(r) \/ EndsLate(r) \/ Finish(r) \/ Abort(r)
      PROVE  AllProbed'
  <2>1. /\ \A x \in Requests \ {r} : request'[x] = request[x]
        /\ UNCHANGED service
    <3>1. UNCHANGED service /\ \E q : request' = [request EXCEPT ![r] = q]
      BY <1>7 DEF TimesOut, EndsLate, Finish, Abort, Closes
    <3> QED
      BY <3>1 DEF Typed
  <2>2. TimesOut(r) => request'[r].pc = "late" /\ ~request'[r].ready
    BY <1>0 DEF TimesOut, Typed, Request, Fresh
  <2>3. EndsLate(r) => request'[r].pc = "ended" /\ ~request'[r].ready
    BY <1>0 DEF EndsLate, Sends, New, Typed
  <2>4. Finish(r) \/ Abort(r) => /\ request'[r].pc = request[r].pc /\ ~request'[r].ready
                                 /\ request[r].pc # "handling"
    BY <1>0 DEF Finish, Abort, Closes, Typed, Request, Fresh
  <2>5. Probed(request[r])'
    BY <1>7, <2>2, <2>3, <2>4 DEF Probed
  <2> QED
    BY <2>1, <2>5, ProbedPut
<1>8. UNCHANGED vars => AllProbed'
  BY DEF vars, AllProbed, Probed, UpNow
<1>9. ASSUME NEW r \in Requests, NEW d \in Services, ProbeTimesOut(r, d) PROVE AllProbed'
  BY <1>5, <1>9
<1> QED
  BY <1>1, <1>3, <1>4, <1>5, <1>6, <1>7, <1>8, <1>9 DEF Next, Handler

\* Whatever the services do while the probes run, and however many there are: a
\* response that says ready names no service that was never up while it was made.
THEOREM OutageSafe == Spec => []OutageIsNoticed
<1>1. AllProbed => OutageIsNoticed
  BY DEF AllProbed, Probed, OutageIsNoticed
<1> QED
  BY <1>1, TypedInit, TypedStep, ProbedInit, ProbedStep, PTL DEF Spec

=============================================================================
