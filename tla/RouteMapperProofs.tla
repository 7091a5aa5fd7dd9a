-------------------------- MODULE RouteMapperProofs --------------------------
(***************************************************************************)
(* TLAPS proofs about the scale test, for any number of routes, any number *)
(* of requests per route and any latency bound.                            *)
(***************************************************************************)
EXTENDS RouteMapper, TLAPS

TypeOK ==
  /\ pc \in [Routes -> {"idle", "delete-route", "map-route", "request", "report",
                        "done"}]
  /\ attempt \in [Routes -> Nat]
  /\ now \in [Routes -> Nat]
  /\ lastFailure \in [Routes -> Nat]
  /\ succeeded \in [Routes -> BOOLEAN]
  /\ postFailed \in [Routes -> BOOLEAN]
  /\ reachedAt \in [Routes -> Nat \cup {None}]
  /\ unanswered \in [Routes -> Nat]
  /\ results \in [Routes -> Nat \cup {None}]
  /\ failures \subseteq Routes
  /\ postFailures \subseteq Routes
  /\ cfFailed \in BOOLEAN
  /\ verdict \in {"running", "passed", "failed"}

\* Nothing is reported of a route before its goroutine ends.
ReportsAtEnd ==
  \A r \in Routes :
    pc[r] # "done" => results[r] = None /\ r \notin failures \cup postFailures

(***************************************************************************)
(* A goroutine that has ended left its mark in exactly one way: it failed  *)
(* the test on a cf command, or counted its route as failed, or measured a *)
(* route that it reached.                                                  *)
(***************************************************************************)
EndedWithReport ==
  \A r \in Routes :
    /\ pc[r] = "done" => cfFailed \/ r \in failures \/ results[r] # None
    /\ r \in failures => results[r] = None
    /\ results[r] # None =>
         /\ succeeded[r]
         /\ results[r] = lastFailure[r]
         /\ postFailed[r] => r \in postFailures

(***************************************************************************)
(* Until the first 200 the last failure lies a sleep and the requests      *)
(* without an answer back, each of them a second at most; the answer that  *)
(* reaches the route adds its latency.  From then on lastFailure only      *)
(* grows, since a later failure is a later moment.                         *)
(***************************************************************************)
LastFailureKept ==
  \A r \in Routes :
    /\ succeeded[r] <=> reachedAt[r] # None
    /\ reachedAt[r] # None => now[r] >= reachedAt[r]
    /\ reachedAt[r] = None => now[r] <= lastFailure[r] + 1 + unanswered[r]
    /\ reachedAt[r] # None => reachedAt[r] <= lastFailure[r] + 2 + unanswered[r]

PassedOnReports ==
  verdict = "passed" => Waited /\ ~ cfFailed /\ failures = {} /\ postFailures = {}

RInv ==
  /\ TypeOK
  /\ ReportsAtEnd
  /\ EndedWithReport
  /\ LastFailureKept
  /\ PassedOnReports

-----------------------------------------------------------------------------

LEMMA MapperInit == Init => RInv
<1> SUFFICES ASSUME Init PROVE RInv
  OBVIOUS
<1>1. TypeOK
  BY DEF Init, TypeOK, None
<1>2. ReportsAtEnd /\ EndedWithReport /\ PassedOnReports
  BY DEF Init, ReportsAtEnd, EndedWithReport, PassedOnReports
<1>3. LastFailureKept
  BY DEF Init, LastFailureKept, None
<1> QED BY <1>1, <1>2, <1>3 DEF RInv

\* A goroutine that moves has not ended, so the test has not passed.
LEMMA NotPassed ==
  ASSUME RInv, NEW r \in Routes, pc[r] # "done"
  PROVE  verdict # "passed" /\ results[r] = None /\ r \notin failures \cup postFailures
BY DEF RInv, PassedOnReports, Waited, ReportsAtEnd

(***************************************************************************)
(* A step of one goroutine that reports nothing: its pc moves, to "done"   *)
(* only with cfFailed set, and the measured times are kept.                *)
(***************************************************************************)
LEMMA SilentStep ==
  ASSUME RInv, TypeOK', NEW r \in Routes, pc[r] # "done",
         NEW to, pc' = [pc EXCEPT ![r] = to],
         to = "done" => cfFailed', cfFailed => cfFailed',
         \A q \in Routes \ {r} : /\ succeeded'[q] = succeeded[q]
                                 /\ postFailed'[q] = postFailed[q]
                                 /\ lastFailure'[q] = lastFailure[q],
         LastFailureKept', UNCHANGED <<collected, verdict>>
  PROVE  RInv'
<1> USE DEF collected
<1>1. verdict # "passed" /\ results[r] = None /\ r \notin failures \cup postFailures
  BY NotPassed
<1>2. pc'[r] = to /\ \A q \in Routes \ {r} : pc'[q] = pc[q]
  BY DEF RInv, TypeOK
<1>3. ReportsAtEnd'
  BY <1>1, <1>2 DEF RInv, ReportsAtEnd
<1>4. EndedWithReport'
  <2> SUFFICES ASSUME NEW q \in Routes
               PROVE  /\ pc'[q] = "done" => cfFailed' \/ q \in failures \/ results[q] # None
                      /\ q \in failures => results[q] = None
                      /\ results[q] # None =>
                           /\ succeeded'[q]
                           /\ results[q] = lastFailure'[q]
                           /\ postFailed'[q] => q \in postFailures
    BY DEF EndedWithReport
  <2>1. CASE q = r
    BY <1>1, <1>2, <2>1
  <2>2. CASE q # r
    BY <1>2, <2>2 DEF RInv, EndedWithReport
  <2> QED BY <2>1, <2>2
<1>5. PassedOnReports'
  BY <1>1 DEF PassedOnReports
<1> QED BY <1>3, <1>4, <1>5 DEF RInv

LEMMA CommandStep ==
  ASSUME RInv, NEW r \in Routes,
         \/ MapRoute(r)
         \/ cfWithRetry(r, "delete-route", "map-route")
         \/ cfWithRetry(r, "map-route", "request")
  PROVE  RInv'
<1>1. PICK to \in {"delete-route", "map-route", "request", "done"} :
        /\ pc[r] # "done" /\ pc' = [pc EXCEPT ![r] = to]
        /\ cfFailed' \in BOOLEAN
        /\ to = "done" => cfFailed'
        /\ cfFailed => cfFailed'
        /\ UNCHANGED <<locals, collected, verdict>>
  <2>1. cfFailed \in BOOLEAN
    BY DEF RInv, TypeOK
  <2>2. CASE MapRoute(r)
    BY <2>1, <2>2 DEF MapRoute, Goto
  <2>3. CASE cfWithRetry(r, "delete-route", "map-route")
    BY <2>1, <2>3 DEF cfWithRetry, Goto
  <2>4. CASE cfWithRetry(r, "map-route", "request")
    BY <2>1, <2>4 DEF cfWithRetry, Goto
  <2> QED BY <2>2, <2>3, <2>4
<1>2. TypeOK'
  BY <1>1 DEF RInv, TypeOK, locals, collected
<1>3. LastFailureKept'
  BY <1>1 DEF RInv, LastFailureKept, locals
<1> QED BY <1>1, <1>2, <1>3, SilentStep DEF locals

\* What every request does to the goroutine and to the clock.
LEMMA AttemptStep ==
  ASSUME RInv, NEW r \in Routes, NEW seconds \in Nat, NextAttempt(r, seconds)
  PROVE  /\ pc[r] # "done"
         /\ \E to \in {"request", "report"} : pc' = [pc EXCEPT ![r] = to]
         /\ pc' \in [Routes -> {"idle", "delete-route", "map-route", "request",
                                "report", "done"}]
         /\ attempt' \in [Routes -> Nat] /\ now' \in [Routes -> Nat]
         /\ now'[r] = now[r] + seconds
         /\ \A q \in Routes \ {r} : now'[q] = now[q]
         /\ UNCHANGED <<collected, cfFailed, verdict>>
<1>1. /\ pc[r] = "request" /\ UNCHANGED <<collected, cfFailed, verdict>>
      /\ attempt' = [attempt EXCEPT ![r] = @ + 1]
      /\ now' = [now EXCEPT ![r] = @ + seconds]
  BY DEF NextAttempt
<1>2. PICK to \in {"request", "report"} : pc' = [pc EXCEPT ![r] = to]
  BY DEF NextAttempt, Goto
<1>3. /\ pc \in [Routes -> {"idle", "delete-route", "map-route", "request", "report",
                            "done"}]
      /\ attempt \in [Routes -> Nat] /\ now \in [Routes -> Nat]
  BY DEF RInv, TypeOK
<1>4. attempt' \in [Routes -> Nat] /\ attempt[r] + 1 \in Nat
  BY <1>1, <1>3
<1>5. now[r] + seconds \in Nat
  BY <1>3
<1>6. /\ now' \in [Routes -> Nat] /\ now'[r] = now[r] + seconds
      /\ \A q \in Routes \ {r} : now'[q] = now[q]
  BY <1>1, <1>3, <1>5
<1>7. pc' \in [Routes -> {"idle", "delete-route", "map-route", "request", "report",
                         "done"}]
  BY <1>2, <1>3
<1> QED BY <1>1, <1>2, <1>4, <1>6, <1>7

\* A request of r leaves the other goroutines' measurements alone.
LEMMA TimesKept ==
  ASSUME RInv, NEW r \in Routes,
         /\ succeeded'[r] <=> reachedAt'[r] # None
         /\ reachedAt'[r] # None => now'[r] >= reachedAt'[r]
         /\ reachedAt'[r] = None => now'[r] <= lastFailure'[r] + 1 + unanswered'[r]
         /\ reachedAt'[r] # None => reachedAt'[r] <= lastFailure'[r] + 2 + unanswered'[r],
         \A q \in Routes \ {r} : /\ now'[q] = now[q]
                                 /\ succeeded'[q] = succeeded[q]
                                 /\ reachedAt'[q] = reachedAt[q]
                                 /\ unanswered'[q] = unanswered[q]
                                 /\ lastFailure'[q] = lastFailure[q]
  PROVE  LastFailureKept'
<1> SUFFICES ASSUME NEW q \in Routes
             PROVE  /\ succeeded'[q] <=> reachedAt'[q] # None
                    /\ reachedAt'[q] # None => now'[q] >= reachedAt'[q]
                    /\ reachedAt'[q] = None =>
                         now'[q] <= lastFailure'[q] + 1 + unanswered'[q]
                    /\ reachedAt'[q] # None =>
                         reachedAt'[q] <= lastFailure'[q] + 2 + unanswered'[q]
  BY DEF LastFailureKept
<1>1. CASE q = r
  BY <1>1
<1>2. CASE q # r
  BY <1>2 DEF RInv, LastFailureKept
<1> QED BY <1>1, <1>2

\* What is known of one goroutine's times before it makes a request.
LEMMA TimesKnown ==
  ASSUME RInv, NEW r \in Routes
  PROVE  /\ now[r] \in Nat /\ lastFailure[r] \in Nat /\ unanswered[r] \in Nat
         /\ reachedAt[r] \in Nat \cup {None}
         /\ succeeded[r] <=> reachedAt[r] # None
         /\ reachedAt[r] # None => now[r] >= reachedAt[r]
         /\ reachedAt[r] = None => now[r] <= lastFailure[r] + 1 + unanswered[r]
         /\ reachedAt[r] # None => reachedAt[r] <= lastFailure[r] + 2 + unanswered[r]
BY DEF RInv, TypeOK, LastFailureKept

\* A request without an answer costs a second at most, and is counted.
LEMMA GetErrorStep ==
  ASSUME RInv, NEW r \in Routes, GetError(r)
  PROVE  RInv'
<1>1. PICK latency \in {0, 1} : NextAttempt(r, latency)
  BY DEF GetError, UpToASecond
<1>2. /\ TypeOK
      /\ unanswered' = [unanswered EXCEPT ![r] = IF succeeded[r] THEN unanswered[r]
                                                ELSE unanswered[r] + 1]
      /\ UNCHANGED <<lastFailure, succeeded, postFailed, reachedAt>>
  BY DEF GetError, RInv
<1>3. unanswered' \in [Routes -> Nat]
  <2>1. (IF succeeded[r] THEN unanswered[r] ELSE unanswered[r] + 1) \in Nat
    BY <1>2 DEF TypeOK
  <2> QED BY <1>2, <2>1 DEF TypeOK
<1>4. TypeOK'
  BY <1>1, <1>2, <1>3, AttemptStep DEF TypeOK, collected
<1>5. /\ unanswered'[r] = IF succeeded[r] THEN unanswered[r] ELSE unanswered[r] + 1
      /\ \A q \in Routes \ {r} : unanswered'[q] = unanswered[q]
      /\ now'[r] = now[r] + latency
      /\ \A q \in Routes \ {r} : now'[q] = now[q]
  BY <1>1, <1>2, AttemptStep DEF TypeOK
<1>6. /\ succeeded'[r] <=> reachedAt'[r] # None
      /\ reachedAt'[r] # None => now'[r] >= reachedAt'[r]
      /\ reachedAt'[r] = None => now'[r] <= lastFailure'[r] + 1 + unanswered'[r]
      /\ reachedAt'[r] # None => reachedAt'[r] <= lastFailure'[r] + 2 + unanswered'[r]
  BY <1>2, <1>5, TimesKnown
<1>7. LastFailureKept'
  BY <1>2, <1>5, <1>6, TimesKept
<1>8. /\ pc[r] # "done" /\ UNCHANGED <<collected, cfFailed, verdict>>
      /\ \E to \in {"request", "report"} : pc' = [pc EXCEPT ![r] = to]
  BY <1>1, AttemptStep
<1> QED BY <1>2, <1>4, <1>7, <1>8, SilentStep

\* A bad answer is the latest failure there is.
LEMMA GetBadStep ==
  ASSUME RInv, NEW r \in Routes, GetBad(r)
  PROVE  RInv'
<1>1. PICK latency \in {0, 1}, body \in {0, 1} :
        /\ body = 0 \/ (succeeded[r] /\ ~ postFailed[r])
        /\ lastFailure' = [lastFailure EXCEPT ![r] = now[r] + latency]
        /\ NextAttempt(r, latency + body + 1)
  BY DEF GetBad, UpToASecond
<1>2. /\ TypeOK /\ latency + body + 1 \in Nat
      /\ postFailed' = [postFailed EXCEPT ![r] = succeeded[r]]
      /\ unanswered' = [unanswered EXCEPT ![r] = IF succeeded[r] THEN unanswered[r]
                                                ELSE 0]
      /\ UNCHANGED <<succeeded, reachedAt>>
  BY DEF GetBad, RInv
<1>3. lastFailure' \in [Routes -> Nat] /\ unanswered' \in [Routes -> Nat]
  <2>1. now[r] + latency \in Nat /\ (IF succeeded[r] THEN unanswered[r] ELSE 0) \in Nat
    BY <1>2 DEF TypeOK
  <2> QED BY <1>1, <1>2, <2>1 DEF TypeOK
<1>4. TypeOK'
  BY <1>1, <1>2, <1>3, AttemptStep DEF TypeOK, collected
<1>5. /\ lastFailure'[r] = now[r] + latency
      /\ unanswered'[r] = IF succeeded[r] THEN unanswered[r] ELSE 0
      /\ \A q \in Routes \ {r} : /\ lastFailure'[q] = lastFailure[q]
                                 /\ postFailed'[q] = postFailed[q]
                                 /\ unanswered'[q] = unanswered[q]
  BY <1>1, <1>2 DEF TypeOK
<1>6. /\ now'[r] = now[r] + (latency + body + 1)
      /\ \A q \in Routes \ {r} : now'[q] = now[q]
  BY <1>1, <1>2, AttemptStep
<1>7. /\ succeeded'[r] <=> reachedAt'[r] # None
      /\ reachedAt'[r] # None => now'[r] >= reachedAt'[r]
      /\ reachedAt'[r] = None => now'[r] <= lastFailure'[r] + 1 + unanswered'[r]
      /\ reachedAt'[r] # None => reachedAt'[r] <= lastFailure'[r] + 2 + unanswered'[r]
  BY <1>1, <1>2, <1>5, <1>6, TimesKnown
<1>8. LastFailureKept'
  BY <1>2, <1>5, <1>6, <1>7, TimesKept
<1>9. /\ pc[r] # "done" /\ UNCHANGED <<collected, cfFailed, verdict>>
      /\ \E to \in {"request", "report"} : pc' = [pc EXCEPT ![r] = to]
  BY <1>1, <1>2, AttemptStep
<1>10. \A q \in Routes \ {r} : lastFailure'[q] = lastFailure[q]
  BY <1>2, <1>5
<1>11. \A q \in Routes \ {r} : succeeded'[q] = succeeded[q] /\ postFailed'[q] = postFailed[q]
  BY <1>2, <1>5
<1> QED BY <1>4, <1>8, <1>9, <1>10, <1>11, SilentStep

\* The first 200 fixes the moment the route was reached.
LEMMA GetOKStep ==
  ASSUME RInv, NEW r \in Routes, GetOK(r)
  PROVE  RInv'
<1>1. PICK latency \in {0, 1} :
        /\ reachedAt' = [reachedAt EXCEPT ![r] = IF reachedAt[r] = None
                                                THEN now[r] + latency ELSE reachedAt[r]]
        /\ NextAttempt(r, latency + 1)
  BY DEF GetOK, UpToASecond
<1>2. /\ TypeOK /\ latency + 1 \in Nat
      /\ succeeded' = [succeeded EXCEPT ![r] = TRUE]
      /\ postFailed' = [postFailed EXCEPT ![r] = FALSE]
      /\ UNCHANGED <<lastFailure, unanswered>>
  BY DEF GetOK, RInv
<1>3. reachedAt' \in [Routes -> Nat \cup {None}]
  <2>1. (IF reachedAt[r] = None THEN now[r] + latency ELSE reachedAt[r])
          \in Nat \cup {None}
    BY <1>2 DEF TypeOK
  <2> QED BY <1>1, <1>2, <2>1 DEF TypeOK
<1>4. TypeOK'
  BY <1>1, <1>2, <1>3, AttemptStep DEF TypeOK, collected
<1>5. /\ reachedAt'[r] = (IF reachedAt[r] = None THEN now[r] + latency
                         ELSE reachedAt[r])
      /\ succeeded'[r]
      /\ \A q \in Routes \ {r} : /\ reachedAt'[q] = reachedAt[q]
                                 /\ succeeded'[q] = succeeded[q]
                                 /\ postFailed'[q] = postFailed[q]
  BY <1>1, <1>2 DEF TypeOK
<1>6. /\ now'[r] = now[r] + (latency + 1)
      /\ \A q \in Routes \ {r} : now'[q] = now[q]
  BY <1>1, <1>2, AttemptStep
<1>7. /\ succeeded'[r] <=> reachedAt'[r] # None
      /\ reachedAt'[r] # None => now'[r] >= reachedAt'[r]
      /\ reachedAt'[r] = None => now'[r] <= lastFailure'[r] + 1 + unanswered'[r]
      /\ reachedAt'[r] # None => reachedAt'[r] <= lastFailure'[r] + 2 + unanswered'[r]
  BY <1>2, <1>5, <1>6, TimesKnown DEF None
<1>8. LastFailureKept'
  BY <1>2, <1>5, <1>6, <1>7, TimesKept
<1>9. /\ pc[r] # "done" /\ UNCHANGED <<collected, cfFailed, verdict>>
      /\ \E to \in {"request", "report"} : pc' = [pc EXCEPT ![r] = to]
  BY <1>1, <1>2, AttemptStep
<1>10. \A q \in Routes \ {r} : lastFailure'[q] = lastFailure[q]
  BY <1>2, <1>5
<1>11. \A q \in Routes \ {r} : succeeded'[q] = succeeded[q] /\ postFailed'[q] = postFailed[q]
  BY <1>2, <1>5
<1> QED BY <1>4, <1>8, <1>9, <1>10, <1>11, SilentStep

\* A goroutine reports its route once, as failed or as measured, and ends.
LEMMA ReportStep ==
  ASSUME RInv, NEW r \in Routes, Report(r)
  PROVE  RInv'
<1>1. /\ TypeOK /\ pc[r] = "report" /\ pc' = [pc EXCEPT ![r] = "done"]
      /\ UNCHANGED <<locals, cfFailed, verdict>>
  BY DEF Report, Goto, RInv
<1>2. verdict # "passed" /\ results[r] = None /\ r \notin failures \cup postFailures
  BY <1>1, NotPassed
<1>3. pc'[r] = "done" /\ \A q \in Routes \ {r} : pc'[q] = pc[q]
  BY <1>1 DEF TypeOK
<1>4. LastFailureKept' /\ PassedOnReports'
  BY <1>1, <1>2 DEF RInv, LastFailureKept, PassedOnReports, locals
<1>5. CASE ~ succeeded[r]
  <2>1. failures' = failures \cup {r} /\ UNCHANGED <<results, postFailures>>
    BY <1>5 DEF Report
  <2>2. TypeOK'
    BY <1>1, <2>1 DEF TypeOK, locals
  <2>3. ReportsAtEnd'
    BY <1>3, <2>1 DEF RInv, ReportsAtEnd
  <2>4. EndedWithReport'
    BY <1>1, <1>2, <1>3, <2>1 DEF RInv, EndedWithReport, locals
  <2> QED BY <1>4, <2>2, <2>3, <2>4 DEF RInv
<1>6. CASE succeeded[r]
  <2>1. /\ results' = [results EXCEPT ![r] = lastFailure[r]] /\ UNCHANGED failures
        /\ postFailures' = IF postFailed[r] THEN postFailures \cup {r} ELSE postFailures
    BY <1>6 DEF Report
  <2>2. /\ results'[r] = lastFailure[r] /\ lastFailure[r] \in Nat /\ results'[r] # None
        /\ \A q \in Routes \ {r} : /\ results'[q] = results[q]
                                   /\ q \in postFailures' <=> q \in postFailures
    BY <1>1, <2>1 DEF TypeOK, None
  <2>3. TypeOK'
    BY <1>1, <2>1, <2>2 DEF TypeOK, locals
  <2>4. ReportsAtEnd'
    BY <1>3, <2>1, <2>2 DEF RInv, ReportsAtEnd
  <2>5. EndedWithReport'
    <3> SUFFICES ASSUME NEW q \in Routes
                 PROVE  /\ pc'[q] = "done" =>
                             cfFailed \/ q \in failures \/ results'[q] # None
                        /\ q \in failures => results'[q] = None
                        /\ results'[q] # None =>
                             /\ succeeded[q]
                             /\ results'[q] = lastFailure[q]
                             /\ postFailed[q] => q \in postFailures'
      BY <1>1, <2>1 DEF EndedWithReport, locals
    <3>1. CASE q = r
      BY <1>2, <1>6, <2>1, <2>2, <3>1
    <3>2. CASE q # r
      BY <1>3, <2>2, <3>2 DEF RInv, EndedWithReport
    <3> QED BY <3>1, <3>2
  <2> QED BY <1>4, <2>3, <2>4, <2>5 DEF RInv
<1>7. succeeded[r] \in BOOLEAN
  BY <1>1 DEF TypeOK
<1> QED BY <1>5, <1>6, <1>7

LEMMA EvaluateStep ==
  ASSUME RInv, Evaluate
  PROVE  RInv'
<1>1. /\ Waited /\ UNCHANGED <<pc, locals, collected, cfFailed>>
      /\ verdict' \in {"passed", "failed"}
      /\ verdict' = "passed" => ~ cfFailed /\ postFailures = {} /\ failures = {}
  BY DEF Evaluate
<1>2. TypeOK' /\ ReportsAtEnd' /\ EndedWithReport' /\ LastFailureKept'
  BY <1>1 DEF RInv, TypeOK, ReportsAtEnd, EndedWithReport, LastFailureKept, locals,
              collected
<1>3. PassedOnReports'
  BY <1>1 DEF PassedOnReports, Waited, collected
<1> QED BY <1>2, <1>3 DEF RInv

LEMMA MapperInvariance == Spec => []RInv
<1>1. RInv /\ [Next]_vars => RInv'
  <2> SUFFICES ASSUME RInv, [Next]_vars PROVE RInv'
    OBVIOUS
  <2>1. CASE UNCHANGED vars
    BY <2>1 DEF vars, RInv, TypeOK, ReportsAtEnd, EndedWithReport, LastFailureKept,
                PassedOnReports, Waited, locals, collected
  <2>2. CASE Evaluate
    BY <2>2, EvaluateStep
  <2>3. ASSUME NEW r \in Routes, Goroutine(r) PROVE RInv'
    BY <2>3, CommandStep, GetErrorStep, GetBadStep, GetOKStep, ReportStep DEF Goroutine
  <2> QED BY <2>1, <2>2, <2>3 DEF Next
<1> QED BY <1>1, MapperInit, PTL DEF Spec

(***************************************************************************)
(* The scale test passes only on routes that were all reached and that all *)
(* answered with 200 at the end, however the goroutines that report into   *)
(* the shared RouteMapper are interleaved.                                 *)
(***************************************************************************)
THEOREM PassesOnMappedRoutes == Spec => []PassMeansAllMapped
<1>1. RInv => PassMeansAllMapped
  BY DEF RInv, PassMeansAllMapped, PassedOnReports, EndedWithReport, Waited
<1> QED BY <1>1, MapperInvariance, PTL

(***************************************************************************)
(* No route is reported twice, and a measurement is never shorter than the *)
(* route took to be reached by more than a sleep, an answer's latency and  *)
(* the requests of that last stretch that ended in an error, whatever the  *)
(* latencies are and wherever the seconds begin.                           *)
(***************************************************************************)
THEOREM RoutesMeasuredOnce == Spec => []MeasuredOnce
<1>1. RInv => MeasuredOnce
  <2> SUFFICES ASSUME RInv, NEW r \in Routes, results[r] # None
               PROVE  /\ r \notin failures
                      /\ results[r] >= reachedAt[r] - 2 - unanswered[r]
    BY DEF MeasuredOnce, Measured
  <2>1. r \notin failures /\ results[r] = lastFailure[r] /\ succeeded[r]
    BY DEF RInv, EndedWithReport
  <2> QED BY <2>1, TimesKnown DEF None
<1> QED BY <1>1, MapperInvariance, PTL

=============================================================================
