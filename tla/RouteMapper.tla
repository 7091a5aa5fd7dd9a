----------------------------- MODULE RouteMapper -----------------------------
(***************************************************************************)
(* The scale test (test/scale): one goroutine per route deletes an old     *)
(* route, maps a new one and requests it Attempts times, and the test      *)
(* evaluates what they collected once all have ended.                      *)
(*                                                                         *)
(* A goroutine knows the time from time.Now().Unix(), in whole seconds; so *)
(* does the model, which counts them from its startTime.  A request takes  *)
(* no more than the client's timeout of one second, and so moves that      *)
(* clock by 0 or by 1, depending on fractions nobody reads; the sleep of   *)
(* one second moves it by 1.  The goroutine's own steps take no time.      *)
(***************************************************************************)
EXTENDS Integers, FiniteSets

CONSTANTS
  Routes,
  Attempts,   \* requests per route; 60 in the code
  MaxLatency  \* of 95% of the routes; 10 seconds in the test

ASSUME RouteMapperAssumption == Attempts \in Nat /\ MaxLatency \in Nat

None == -1

VARIABLES
  pc,           \* per goroutine: "idle", a cf command, "request", "report", "done"
  attempt, now, lastFailure, succeeded, postFailed,  \* its clock and its locals
  reachedAt,    \* when its first 200 arrived, None before
  unanswered,   \* its requests without an answer since the last bad one, up to then
  results, failures, postFailures,  \* the RouteMapper's fields, by route
  cfFailed,     \* whether a goroutine gave up on cf
  verdict       \* of the test: "running", "passed" or "failed"

locals == <<attempt, now, lastFailure, succeeded, postFailed, reachedAt,
            unanswered>>
collected == <<results, failures, postFailures>>
vars == <<pc, locals, collected, cfFailed, verdict>>

Init ==
  /\ pc = [r \in Routes |-> "idle"]
  /\ attempt = [r \in Routes |-> 0]
  /\ now = [r \in Routes |-> 0]
  /\ lastFailure = [r \in Routes |-> 0]
  /\ succeeded = [r \in Routes |-> FALSE]
  /\ postFailed = [r \in Routes |-> FALSE]
  /\ reachedAt = [r \in Routes |-> None]
  /\ unanswered = [r \in Routes |-> 0]
  /\ results = [r \in Routes |-> None]
  /\ failures = {}
  /\ postFailures = {}
  /\ cfFailed = FALSE
  /\ verdict = "running"

Goto(r, step) == pc' = [pc EXCEPT ![r] = step]

MapRoute(r) ==
  /\ pc[r] = "idle"
  /\ Goto(r, "delete-route")
  /\ UNCHANGED <<locals, collected, cfFailed, verdict>>

\* Mutant: a goroutine that fails is still waited for.
cfWithoutDone(r, command, next) ==
  /\ pc[r] = command
  /\ \/ Goto(r, next) /\ UNCHANGED cfFailed
     \/ Goto(r, "lost") /\ cfFailed' = TRUE
  /\ UNCHANGED <<locals, collected, verdict>>

\* A cf command, retried; Fail fails the test and ends the goroutine, which
\* has deferred its Done.
cfWithRetry(r, command, next) ==
  /\ pc[r] = command
  /\ \/ Goto(r, next) /\ UNCHANGED cfFailed
     \/ Goto(r, "done") /\ cfFailed' = TRUE
  /\ UNCHANGED <<locals, collected, verdict>>

\* What a time of at most a second adds to Unix().
UpToASecond == {0, 1}

NextAttempt(r, seconds) ==
  /\ pc[r] = "request"
  /\ attempt' = [attempt EXCEPT ![r] = @ + 1]
  /\ now' = [now EXCEPT ![r] = @ + seconds]
  /\ Goto(r, IF attempt'[r] = Attempts THEN "report" ELSE "request")
  /\ UNCHANGED <<collected, cfFailed, verdict>>

\* No answer: the next request follows at once.
GetError(r) ==
  /\ \E latency \in UpToASecond : NextAttempt(r, latency)
  /\ unanswered' = [unanswered EXCEPT ![r] = IF succeeded[r] THEN @ ELSE @ + 1]
  /\ UNCHANGED <<lastFailure, succeeded, postFailed, reachedAt>>

\* Mutant: the time of a failure is not kept.
GetBadUntimed(r) ==
  /\ \E latency \in UpToASecond : NextAttempt(r, latency + 1)
  /\ postFailed' = [postFailed EXCEPT ![r] = succeeded[r]]
  /\ unanswered' = [unanswered EXCEPT ![r] = IF succeeded[r] THEN @ ELSE 0]
  /\ UNCHANGED <<lastFailure, succeeded, reachedAt>>

\* The body, read once after a success, falls under the same timeout.
GetBad(r) ==
  /\ \E latency \in UpToASecond, body \in UpToASecond :
       /\ latency + body <= 1
       /\ body = 0 \/ (succeeded[r] /\ ~ postFailed[r])
       /\ lastFailure' = [lastFailure EXCEPT ![r] = now[r] + latency]
       /\ NextAttempt(r, latency + body + 1)
  /\ postFailed' = [postFailed EXCEPT ![r] = succeeded[r]]
  /\ unanswered' = [unanswered EXCEPT ![r] = IF succeeded[r] THEN @ ELSE 0]
  /\ UNCHANGED <<succeeded, reachedAt>>

GetOK(r) ==
  /\ \E latency \in UpToASecond :
       /\ reachedAt' = [reachedAt EXCEPT ![r] = IF @ = None THEN now[r] + latency ELSE @]
       /\ NextAttempt(r, latency + 1)
  /\ succeeded' = [succeeded EXCEPT ![r] = TRUE]
  /\ postFailed' = [postFailed EXCEPT ![r] = FALSE]
  /\ UNCHANGED <<lastFailure, unanswered>>

Report(r) ==
  /\ pc[r] = "report"
  /\ Goto(r, "done")
  /\ IF ~ succeeded[r]
     THEN /\ failures' = failures \cup {r}
          /\ UNCHANGED <<results, postFailures>>
     ELSE /\ results' = [results EXCEPT ![r] = lastFailure[r]]
          /\ postFailures' = IF postFailed[r] THEN postFailures \cup {r}
                             ELSE postFailures
          /\ UNCHANGED failures
  /\ UNCHANGED <<locals, cfFailed, verdict>>

Measured == {r \in Routes : results[r] # None}

\* stats.Percentile(results, 95) <= 10, as it comes out for the test's 1000
\* routes; of no results there is no percentile.
FastEnough ==
  /\ Measured # {}
  /\ LET slow == {r \in Measured : results[r] > MaxLatency}
     IN  100 * Cardinality(slow) <= 5 * Cardinality(Measured)

\* Mutant: the test does not wait for its goroutines.
AllStarted == \A r \in Routes : pc[r] # "idle"

\* waitGroup.Wait returns.
Waited == \A r \in Routes : pc[r] = "done"

Evaluate ==
  /\ verdict = "running"
  /\ Waited
  /\ verdict' = IF cfFailed \/ postFailures # {} \/ failures # {} \/ ~ FastEnough
                THEN "failed" ELSE "passed"
  /\ UNCHANGED <<pc, locals, collected, cfFailed>>

Goroutine(r) ==
  \/ MapRoute(r)
  \/ cfWithRetry(r, "delete-route", "map-route")
  \/ cfWithRetry(r, "map-route", "request")
  \/ GetError(r) \/ GetBad(r) \/ GetOK(r) \/ Report(r)

Next == (\E r \in Routes : Goroutine(r)) \/ Evaluate

Spec == Init /\ [][Next]_vars
             /\ \A r \in Routes : WF_vars(Goroutine(r))
             /\ WF_vars(Evaluate)

-----------------------------------------------------------------------------
(******************************** Properties *******************************)

(***************************************************************************)
(* A passing test has seen every route through: each was answered with 200 *)
(* and its last answer, errors aside, was a 200, whatever order the        *)
(* goroutines delivered in.                                                *)
(***************************************************************************)
PassMeansAllMapped ==
  verdict = "passed" =>
    \A r \in Routes : succeeded[r] /\ ~ postFailed[r] /\ results[r] # None

(***************************************************************************)
(* A route is counted as failed or measured, never both, and what was      *)
(* measured falls short of the time it took to be reached by two seconds   *)
(* at most (a sleep and the latency of the answer), and by one more for    *)
(* each request that ended in an error before: those are repeated without  *)
(* moving lastFailure.                                                     *)
(***************************************************************************)
MeasuredOnce ==
  \A r \in Measured :
    /\ r \notin failures
    /\ results[r] >= reachedAt[r] - 2 - unanswered[r]

\* The test comes to a verdict: no goroutine keeps Wait waiting for ever.
TestEnds == <>(verdict # "running")

=============================================================================
