------------------------- MODULE ControlPlaneUptime -------------------------
(***************************************************************************)
(* The control plane uptime test (test/uptime): while an upgrade of cf is  *)
(* under way it keeps mapping routes, samples each of them from a          *)
(* goroutine of its own, and at the end decides whether enough of them     *)
(* were available.  Three kinds of actors share state: the test, the       *)
(* upgrade checker's polling goroutine and the samplers.                   *)
(*                                                                         *)
(* Data.  A request passes the SLI or it does not; latencies, codes and    *)
(* errors are only reported.  Percentages are compared by multiplication.  *)
(* Time is left out: a sleep, a sample time or the discovery timeout may   *)
(* end at any moment.                                                      *)
(***************************************************************************)
EXTENDS UpgradeChecker

CONSTANTS
  Nil,          \* the collector's results before the first one
  MaxRoutes,    \* bound on the routes mapped
  MaxRequests,  \* bound on the requests of one sample
  AvailabilityPercentage,  \* what a route's requests must exceed
  SLOPercentage            \* what the share of available routes must reach

ASSUME UptimeAssumption ==
  /\ MaxRoutes \in Nat /\ MaxRequests \in Nat
  /\ AvailabilityPercentage \in 0..100 /\ SLOPercentage \in 0..100

\* One route's counts, and ControlPlaneResults.
SampleResults == [pass : Nat, fail : Nat]

AllResults == [collected : Seq(SampleResults), dataReady : BOOLEAN,
               pass : Nat, fail : Nat]

ASSUME NilAssumption == Nil \notin AllResults

VARIABLES
  pc,           \* where the test is
  expired,      \* the discovery timeout has passed
  count,        \* routes mapped so far
  samples,      \* per route: its sampler's phase and counters
  results,      \* ControlPlaneResults, Nil before the first AddResult
  verdict

testVars == <<pc, expired, count, verdict>>
vars == <<checkerVars, testVars, samples, results>>

NewSample == [phase |-> "unborn", pass |-> 0, fail |-> 0]

NewResults == [collected |-> <<>>, dataReady |-> FALSE, pass |-> 0, fail |-> 0]

Init ==
  /\ CheckerInit
  /\ pc = "looping" /\ expired = FALSE /\ count = 0 /\ verdict = "none"
  /\ samples = [i \in 1..MaxRoutes |-> NewSample]
  /\ results = Nil

Expire ==
  /\ Alive
  /\ pc \in {"looping", "checked"}
  /\ expired' = TRUE
  /\ UNCHANGED <<checkerVars, pc, count, verdict, samples, results>>

-----------------------------------------------------------------------------
(*************************** uptime.*Results *******************************)

(***************************************************************************)
(* result.SuccessPercentage() > ControlPlaneSLODataPlaneAvailability...:   *)
(* of no requests at all it is NaN, which exceeds nothing.                 *)
(***************************************************************************)
Available(result) ==
  100 * result.pass > AvailabilityPercentage * (result.pass + result.fail)

\* Record, and RecordError for a request that got no answer.
Record(result, hasPassedSLI) ==
  IF hasPassedSLI THEN [result EXCEPT !.pass = @ + 1]
  ELSE [result EXCEPT !.fail = @ + 1]

AddResult(r, result) ==
  [r EXCEPT !.collected = Append(@, result), !.dataReady = FALSE]

Recount(r) ==
  LET good == {j \in DOMAIN r.collected : Available(r.collected[j])}
  IN  [r EXCEPT !.pass = @ + Cardinality(good),
                !.fail = @ + Cardinality(DOMAIN r.collected \ good),
                !.dataReady = TRUE]

\* Mutant: the counters are brought up to date at every call.
prepareResultsAlways(r) == Recount(r)

prepareResults(r) == IF r.dataReady THEN r ELSE Recount(r)

-----------------------------------------------------------------------------
(************************** collector.Request ******************************)

Phase(i, from, to) ==
  /\ Alive
  /\ samples[i].phase = from
  /\ samples' = [samples EXCEPT ![i].phase = to]
  /\ UNCHANGED <<checkerVars, testVars>>

Wake(i) == Phase(i, "sleeping", "sampling") /\ UNCHANGED results

\* One timeGetRequest and the record of its outcome.
Sample(i) ==
  /\ Alive
  /\ samples[i].phase = "sampling"
  /\ samples[i].pass + samples[i].fail < MaxRequests
  /\ \E hasPassedSLI \in BOOLEAN :
       samples' = [samples EXCEPT ![i] = Record(@, hasPassedSLI)]
  /\ UNCHANGED <<checkerVars, testVars, results>>

\* addResult, under the mutex; the first one creates the results.
addResult(i) ==
  /\ Phase(i, "sampling", "added")
  /\ results' = AddResult(IF results = Nil THEN NewResults ELSE results,
                          [pass |-> samples[i].pass, fail |-> samples[i].fail])

\* Mutant: the sampler returns without telling the wait group.
NeverDone(i) == FALSE

Done(i) == Phase(i, "added", "done") /\ UNCHANGED results

\* Mutant: a sampler that has not woken up is not waited for.
NobodyAwake == \A i \in 1..MaxRoutes : samples[i].phase \in {"unborn", "sleeping", "done"}

\* The counter of the wait group is zero.
Waited == \A i \in 1..MaxRoutes : samples[i].phase \in {"unborn", "done"}

-----------------------------------------------------------------------------
(******************************* The test **********************************)

Goto(from, to) ==
  /\ Alive
  /\ pc = from
  /\ pc' = to
  /\ UNCHANGED expired

\* Every look at the checker takes its mutex anew.
CheckFound ==
  /\ \/ /\ HasFoundUpgrade \/ ~ expired
        /\ Goto("looping", "checked")
        /\ UNCHANGED verdict
     \/ /\ ~ HasFoundUpgrade /\ expired
        /\ Goto("looping", "stopping")
        /\ verdict' = "no upgrade"
  /\ UNCHANGED <<checkerVars, count, samples, results>>

Break ==
  /\ HasFoundUpgrade /\ IsUpgradeFinished
  /\ Goto("checked", "waiting")
  /\ UNCHANGED <<checkerVars, count, verdict, samples, results>>

\* Map a route and start its sampler; past the bound the loop only goes round.
Request ==
  /\ ~ (HasFoundUpgrade /\ IsUpgradeFinished)
  /\ Goto("checked", "looping")
  /\ IF count < MaxRoutes
     THEN /\ count' = count + 1
          /\ samples' = [samples EXCEPT ![count + 1].phase = "sleeping"]
     ELSE UNCHANGED <<count, samples>>
  /\ UNCHANGED <<checkerVars, verdict, results>>

Wait ==
  /\ Waited
  /\ Goto("waiting", "printing")
  /\ UNCHANGED <<checkerVars, count, verdict, samples, results>>

\* With no sample at all there are no results to print: a nil dereference.
PrintResults ==
  /\ \/ /\ results # Nil
        /\ Goto("printing", "expecting")
        /\ results' = prepareResults(results)
        /\ UNCHANGED verdict
     \/ /\ results = Nil
        /\ Goto("printing", "stopping")
        /\ verdict' = "panic"
        /\ UNCHANGED results
  /\ UNCHANGED <<checkerVars, count, samples>>

\* SuccessPercentage prepares the results once more.
Expect ==
  /\ Goto("expecting", "stopping")
  /\ results' = prepareResults(results)
  /\ verdict' = IF 100 * results'.pass >= SLOPercentage * (results'.pass + results'.fail)
                THEN "pass" ELSE "fail"
  /\ UNCHANGED <<checkerVars, count, samples>>

\* AfterEach: close the channel, then wait for the goroutine.
Stop ==
  /\ \/ Goto("stopping", "stopped") /\ CloseStopChan
     \/ PollingEnded /\ Goto("stopped", "finished") /\ UNCHANGED checkerVars
  /\ UNCHANGED <<count, verdict, samples, results>>

Test == CheckFound \/ Break \/ Request \/ Wait \/ PrintResults \/ Expect \/ Stop

\* A step of kapp or of the checker, which the test does not take part in.
Aside(A) == Alive /\ A /\ UNCHANGED <<testVars, samples, results>>

Next ==
  \/ Aside(Checker)
  \/ Expire
  \/ \E i \in 1..MaxRoutes : Wake(i) \/ Sample(i) \/ addResult(i) \/ Done(i)
  \/ Test

(***************************************************************************)
(* Goroutines run, sleeps and timeouts end, and so does an upgrade that    *)
(* has begun; whether one begins is up to the user.                        *)
(***************************************************************************)
Fairness ==
  /\ WF_vars(Test)
  /\ WF_vars(Aside(checkUpgrade))
  /\ WF_vars(Aside(StopPolling))
  /\ WF_vars(Expire)
  /\ \A c \in Changes : WF_vars(Aside(FinishChange(c)))
  /\ \A i \in 1..MaxRoutes : /\ WF_vars(Wake(i))
                             /\ WF_vars(addResult(i))
                             /\ WF_vars(Done(i))

Spec == Init /\ [][Next]_vars /\ Fairness

-----------------------------------------------------------------------------
(******************************* Properties ********************************)

Judged == verdict \in {"pass", "fail"}

(***************************************************************************)
(* At the verdict every mapped route has been counted, once: no sampler is *)
(* late (the wait group), none is lost (the mutex around the results), and *)
(* preparing the results for printing and again for the percentage does    *)
(* not count them twice (dataReady).                                       *)
(***************************************************************************)
EverySampleCountsOnce == Judged => results.pass + results.fail = count

(***************************************************************************)
(* The verdict is the one the samples deserve, in whatever order the       *)
(* samplers delivered them.                                                *)
(***************************************************************************)
VerdictMatchesSamples ==
  Judged =>
    LET good == {i \in 1..count : Available(samples[i])}
    IN  (verdict = "pass") <=> (100 * Cardinality(good) >= SLOPercentage * count)

(***************************************************************************)
(* The test stops mapping routes only when the very upgrade the checker    *)
(* found has finished, whatever older app-changes kapp still lists.        *)
(***************************************************************************)
MeasuresToTheEnd ==
  pc \in {"waiting", "printing", "expecting"} =>
    upgradeName # NoName /\ kapp[upgradeName] = "finished"

(***************************************************************************)
(* The test ends, with the checker's goroutine gone: no upgrade, a missed  *)
(* upgrade or one found, neither the loop nor a wait group holds it for    *)
(* ever.                                                                   *)
(***************************************************************************)
TestEnds == <>(pc = "finished" \/ ~ Alive)

=============================================================================
