---------------------- MODULE ControlPlaneUptimeProofs ----------------------
(***************************************************************************)
(* TLAPS proofs about the control plane uptime test, for any number of     *)
(* routes and requests, any percentages and any set of app-changes.        *)
(***************************************************************************)
EXTENDS ControlPlaneUptime, FiniteSetTheorems, TLAPS

Phases == {"unborn", "sleeping", "sampling", "added", "done"}

TypeOK ==
  /\ kapp \in [Changes -> {"absent", "running", "finished"}]
  /\ upgradeName \in Changes \cup {NoName}
  /\ upgradeDone \in BOOLEAN
  /\ pc \in {"looping", "checked", "waiting", "printing", "expecting", "stopping",
             "stopped", "finished"}
  /\ count \in 0..MaxRoutes
  /\ verdict \in {"none", "no upgrade", "panic", "pass", "fail"}
  /\ samples \in [1..MaxRoutes -> [phase : Phases, pass : Nat, fail : Nat]]
  /\ results \in AllResults \cup {Nil}

\* What the checker calls finished is the upgrade it found, and stays so.
UpgradeFinished ==
  upgradeDone => upgradeName # NoName /\ kapp[upgradeName] = "finished"

BrokeOnFinish == pc \in {"waiting", "printing", "expecting"} => upgradeDone

\* The routes mapped so far have a sampler, the others have none.
SamplersStarted ==
  \A i \in 1..MaxRoutes : samples[i].phase = "unborn" <=> i > count

Delivered == {i \in 1..MaxRoutes : samples[i].phase \in {"added", "done"}}

Good(collected) == {j \in DOMAIN collected : Available(collected[j])}

(***************************************************************************)
(* The results collected are those of the samplers that have delivered, in *)
(* some order: as many, and as many available ones.                        *)
(***************************************************************************)
Collected ==
  IF results = Nil THEN Delivered = {}
  ELSE /\ Len(results.collected) = Cardinality(Delivered)
       /\ Cardinality(Good(results.collected)) =
            Cardinality({i \in Delivered : Available(samples[i])})

\* The counters are of everything collected, or have not been touched.
Counted ==
  results # Nil =>
    IF results.dataReady
    THEN /\ results.pass = Cardinality(Good(results.collected))
         /\ results.pass + results.fail = Len(results.collected)
         /\ Waited
         /\ pc \in {"expecting", "stopping", "stopped", "finished"}
    ELSE results.pass = 0 /\ results.fail = 0

WaitedFor == pc \in {"printing", "expecting"} => Waited

Prepared ==
  pc = "expecting" \/ Judged => results # Nil /\ results.dataReady

VerdictGiven ==
  Judged =>
    /\ pc \in {"stopping", "stopped", "finished"}
    /\ (verdict = "pass") <=>
         (100 * results.pass >= SLOPercentage * (results.pass + results.fail))

UInv ==
  /\ TypeOK
  /\ UpgradeFinished
  /\ BrokeOnFinish
  /\ SamplersStarted
  /\ Collected
  /\ Counted
  /\ WaitedFor
  /\ Prepared
  /\ VerdictGiven

-----------------------------------------------------------------------------
(****************************** Counting ***********************************)

LEMMA Finite ==
  ASSUME TypeOK
  PROVE  /\ IsFiniteSet(Delivered)
         /\ IsFiniteSet({i \in Delivered : Available(samples[i])})
<1>1. IsFiniteSet(1..MaxRoutes)
  BY FS_Interval, UptimeAssumption
<1> QED BY <1>1, FS_Subset DEF Delivered

LEMMA GoodFinite ==
  ASSUME NEW c \in Seq(SampleResults)
  PROVE  /\ IsFiniteSet(DOMAIN c) /\ Cardinality(DOMAIN c) = Len(c)
         /\ Good(c) \subseteq DOMAIN c
         /\ IsFiniteSet(Good(c)) /\ Cardinality(Good(c)) \in Nat
<1>1. DOMAIN c = 1..Len(c) /\ Len(c) \in Nat
  OBVIOUS
<1>2. IsFiniteSet(DOMAIN c) /\ Cardinality(DOMAIN c) = Len(c)
  BY <1>1, FS_Interval
<1>3. Good(c) \subseteq DOMAIN c
  BY DEF Good
<1> QED BY <1>2, <1>3, FS_Subset, FS_CardinalityType

\* A further result is a good one or it is not.
LEMMA GoodAppend ==
  ASSUME NEW c \in Seq(SampleResults), NEW x \in SampleResults
  PROVE  Cardinality(Good(Append(c, x))) =
           IF Available(x) THEN Cardinality(Good(c)) + 1 ELSE Cardinality(Good(c))
<1>1. /\ DOMAIN c = 1..Len(c) /\ Len(c) \in Nat
      /\ DOMAIN Append(c, x) = 1..(Len(c) + 1)
      /\ \A j \in 1..Len(c) : Append(c, x)[j] = c[j]
      /\ Append(c, x)[Len(c) + 1] = x
  OBVIOUS
<1>2. Good(Append(c, x)) = IF Available(x) THEN Good(c) \cup {Len(c) + 1} ELSE Good(c)
  BY <1>1 DEF Good
<1>3. Len(c) + 1 \notin Good(c)
  BY <1>1 DEF Good
<1> QED BY <1>2, <1>3, GoodFinite, FS_AddElement

LEMMA AddResultFields ==
  ASSUME NEW r \in AllResults, NEW x \in SampleResults
  PROVE  /\ AddResult(r, x) \in AllResults
         /\ AddResult(r, x).collected = Append(r.collected, x)
         /\ AddResult(r, x).dataReady = FALSE
         /\ AddResult(r, x).pass = r.pass /\ AddResult(r, x).fail = r.fail
<1> DEFINE c == Append(r.collected, x)
<1>1. c \in Seq(SampleResults)
  BY DEF AllResults
<1>2. AddResult(r, x) = [r EXCEPT !.collected = c, !.dataReady = FALSE]
  BY DEF AddResult
<1>3. /\ r.dataReady \in BOOLEAN /\ r.pass \in Nat /\ r.fail \in Nat
      /\ r = [collected |-> r.collected, dataReady |-> r.dataReady,
              pass |-> r.pass, fail |-> r.fail]
  BY DEF AllResults
<1> HIDE DEF c
<1>4. AddResult(r, x) = [collected |-> c, dataReady |-> FALSE,
                         pass |-> r.pass, fail |-> r.fail]
  BY <1>2, <1>3
<1>5. AddResult(r, x) \in AllResults
  BY <1>1, <1>3, <1>4 DEF AllResults
<1> QED BY <1>4, <1>5 DEF c

\* A first count takes everything collected, each result once.
LEMMA RecountExact ==
  ASSUME NEW r \in AllResults, r.pass = 0, r.fail = 0
  PROVE  /\ Recount(r) \in AllResults
         /\ Recount(r).dataReady
         /\ Recount(r).collected = r.collected
         /\ Recount(r).pass = Cardinality(Good(r.collected))
         /\ Recount(r).pass + Recount(r).fail = Len(r.collected)
<1> DEFINE c == r.collected
           bad == DOMAIN c \ Good(c)
<1>1. c \in Seq(SampleResults)
  BY DEF AllResults
<1>2. /\ IsFiniteSet(DOMAIN c) /\ Cardinality(DOMAIN c) = Len(c)
      /\ Good(c) \subseteq DOMAIN c /\ Cardinality(Good(c)) \in Nat
  BY <1>1, GoodFinite
<1>3. DOMAIN c \cap Good(c) = Good(c)
  BY <1>2
<1>4. IsFiniteSet(bad) /\ Cardinality(bad) = Len(c) - Cardinality(Good(c))
  <2>1. IsFiniteSet(DOMAIN c)
    BY <1>2
  <2>2. /\ IsFiniteSet(DOMAIN c \ Good(c))
        /\ Cardinality(DOMAIN c \ Good(c))
             = Cardinality(DOMAIN c) - Cardinality(DOMAIN c \cap Good(c))
    BY ONLY <2>1, FS_Difference, Zenon
  <2> QED BY <1>2, <1>3, <2>2, Zenon
<1>5. Cardinality(bad) \in Nat
  BY <1>4, FS_CardinalityType
<1>6. Recount(r) = [r EXCEPT !.pass = @ + Cardinality(Good(c)),
                             !.fail = @ + Cardinality(bad),
                             !.dataReady = TRUE]
  BY DEF Recount, Good
<1> HIDE DEF bad
<1>7. /\ Recount(r).dataReady = TRUE
      /\ Recount(r).collected = c
      /\ Recount(r).pass = 0 + Cardinality(Good(c))
      /\ Recount(r).fail = 0 + Cardinality(bad)
      /\ Recount(r) \in AllResults
  <2> HIDE DEF c
  <2>1. 0 + Cardinality(Good(c)) \in Nat /\ 0 + Cardinality(bad) \in Nat
    BY <1>2, <1>5
  <2> QED BY <1>6, <2>1 DEF AllResults, c
<1>8. Len(c) \in Nat
  BY <1>1
<1> QED BY <1>2, <1>4, <1>5, <1>7, <1>8

-----------------------------------------------------------------------------
(******************************* Samplers **********************************)

\* While a sampler is at work nothing has been counted or judged.
LEMMA Busy ==
  ASSUME UInv, NEW i \in 1..MaxRoutes, samples[i].phase \notin {"unborn", "done"}
  PROVE  /\ ~ Waited
         /\ pc \notin {"printing", "expecting"}
         /\ ~ Judged
         /\ results # Nil => ~ results.dataReady
<1>1. ~ Waited
  BY DEF Waited
<1> QED BY <1>1 DEF UInv, WaitedFor, Counted, Prepared

\* What a step of one sampler leaves to show.
LEMMA SamplerStep ==
  ASSUME UInv, UNCHANGED <<checkerVars, testVars>>,
         NEW i \in 1..MaxRoutes, samples[i].phase \notin {"unborn", "done"},
         NEW s \in [phase : Phases \ {"unborn"}, pass : Nat, fail : Nat],
         samples' = [samples EXCEPT ![i] = s],
         results' \in AllResults \cup {Nil},
         results' # Nil => ~ results'.dataReady /\ results'.pass = 0 /\ results'.fail = 0,
         Collected'
  PROVE  UInv'
<1> USE DEF checkerVars, testVars
<1>0. /\ pc \notin {"printing", "expecting"} /\ ~ Judged
      /\ samples \in [1..MaxRoutes -> [phase : Phases, pass : Nat, fail : Nat]]
  BY Busy DEF UInv, TypeOK
<1>1. samples' \in [1..MaxRoutes -> [phase : Phases, pass : Nat, fail : Nat]]
  BY <1>0
<1>2. TypeOK'
  BY <1>1 DEF UInv, TypeOK
<1>3. SamplersStarted'
  <2>1. \A j \in 1..MaxRoutes \ {i} : samples'[j] = samples[j]
    BY <1>0
  <2>2. samples'[i].phase # "unborn"
    BY <1>0
  <2> QED BY <2>1, <2>2 DEF UInv, SamplersStarted
<1>4. Counted'
  BY DEF Counted
<1>5. WaitedFor' /\ Prepared' /\ VerdictGiven'
  BY <1>0 DEF WaitedFor, Prepared, VerdictGiven, Judged
<1>6. UpgradeFinished' /\ BrokeOnFinish'
  BY DEF UInv, UpgradeFinished, BrokeOnFinish
<1> QED BY <1>2, <1>3, <1>4, <1>5, <1>6 DEF UInv

\* Until a sampler delivers, and after, nothing is collected from it.
LEMMA CollectedKept ==
  ASSUME UInv, NEW i \in 1..MaxRoutes, NEW s,
         samples' = [samples EXCEPT ![i] = s], UNCHANGED results,
         \/ i \notin Delivered /\ s.phase \notin {"added", "done"}
         \/ /\ i \in Delivered /\ s.phase \in {"added", "done"}
            /\ s.pass = samples[i].pass /\ s.fail = samples[i].fail
  PROVE  Collected'
<1>1. /\ DOMAIN samples = 1..MaxRoutes
      /\ samples'[i] = s
      /\ \A j \in 1..MaxRoutes \ {i} : samples'[j] = samples[j]
  BY DEF UInv, TypeOK
<1>2. Delivered' = Delivered
  BY <1>1 DEF Delivered
<1>3. \A j \in Delivered : Available(samples'[j]) <=> Available(samples[j])
  BY <1>1 DEF Delivered, Available
<1>4. {j \in Delivered : Available(samples[j])}' = {j \in Delivered : Available(samples[j])}
  BY <1>2, <1>3
<1> QED BY <1>2, <1>4 DEF UInv, Collected

LEMMA SamplersStep ==
  ASSUME UInv, NEW i \in 1..MaxRoutes,
         Wake(i) \/ Sample(i) \/ addResult(i) \/ Done(i)
  PROVE  UInv'
<1> DEFINE Results == [phase : Phases \ {"unborn"}, pass : Nat, fail : Nat]
<1>0. /\ samples[i] \in [phase : Phases, pass : Nat, fail : Nat]
      /\ results \in AllResults \cup {Nil}
      /\ TypeOK
  BY DEF UInv, TypeOK
<1>1. samples[i].phase \notin {"unborn", "done"}
  BY DEF Wake, Sample, addResult, Done, Phase
<1>2. results # Nil => ~ results.dataReady /\ results.pass = 0 /\ results.fail = 0
  BY <1>1, Busy DEF UInv, Counted
<1>3. ASSUME NEW from, NEW to \in Phases \ {"unborn"}, Phase(i, from, to)
      PROVE  /\ UNCHANGED <<checkerVars, testVars>>
             /\ samples' = [samples EXCEPT ![i] = [samples[i] EXCEPT !.phase = to]]
             /\ [samples[i] EXCEPT !.phase = to] \in Results
             /\ samples[i].phase = from
  BY <1>0, <1>3 DEF Phase
<1>4. CASE Wake(i)
  <2> DEFINE s == [samples[i] EXCEPT !.phase = "sampling"]
  <2>1. /\ UNCHANGED <<checkerVars, testVars, results>>
        /\ samples' = [samples EXCEPT ![i] = s] /\ s \in Results
        /\ samples[i].phase = "sleeping"
    BY <1>3, <1>4 DEF Wake, Phases
  <2>2. i \notin Delivered /\ s.phase \notin {"added", "done"}
    BY <1>0, <2>1 DEF Delivered
  <2> HIDE DEF s
  <2>3. Collected'
    BY <2>1, <2>2, CollectedKept
  <2> QED BY <1>0, <1>1, <1>2, <2>1, <2>3, SamplerStep
<1>5. CASE Done(i)
  <2> DEFINE s == [samples[i] EXCEPT !.phase = "done"]
  <2>1. /\ UNCHANGED <<checkerVars, testVars, results>>
        /\ samples' = [samples EXCEPT ![i] = s] /\ s \in Results
        /\ samples[i].phase = "added"
    BY <1>3, <1>5 DEF Done, Phases
  <2>2. /\ i \in Delivered /\ s.phase \in {"added", "done"}
        /\ s.pass = samples[i].pass /\ s.fail = samples[i].fail
    BY <1>0, <2>1 DEF Delivered
  <2> HIDE DEF s
  <2>3. Collected'
    BY <2>1, <2>2, CollectedKept
  <2> QED BY <1>0, <1>1, <1>2, <2>1, <2>3, SamplerStep
<1>6. CASE Sample(i)
  <2>1. PICK passed \in BOOLEAN :
          samples' = [samples EXCEPT ![i] = Record(samples[i], passed)]
    BY <1>0, <1>6 DEF Sample
  <2> DEFINE s == Record(samples[i], passed)
  <2>2. UNCHANGED <<checkerVars, testVars, results>> /\ samples[i].phase = "sampling"
    BY <1>6 DEF Sample
  <2>3. s \in Results /\ s.phase = "sampling"
    BY <1>0, <2>2 DEF Record, Phases
  <2>4. i \notin Delivered
    BY <2>2 DEF Delivered
  <2> HIDE DEF s
  <2>5. Collected'
    BY <2>1, <2>2, <2>3, <2>4, CollectedKept DEF s
  <2> QED BY <1>0, <1>1, <1>2, <2>1, <2>2, <2>3, <2>5, SamplerStep DEF s
<1>7. CASE addResult(i)
  <2> DEFINE s == [samples[i] EXCEPT !.phase = "added"]
             x == [pass |-> samples[i].pass, fail |-> samples[i].fail]
             old == IF results = Nil THEN NewResults ELSE results
             c == old.collected
  <2>1. /\ UNCHANGED <<checkerVars, testVars>>
        /\ samples' = [samples EXCEPT ![i] = s] /\ s \in Results
        /\ samples[i].phase = "sampling"
        /\ results' = AddResult(old, x)
    BY <1>3, <1>7 DEF addResult, Phases
  <2>2. s.phase = "added" /\ s.pass = x.pass /\ s.fail = x.fail /\ x \in SampleResults
    BY <1>0 DEF SampleResults
  <2>3. old \in AllResults /\ ~ old.dataReady /\ old.pass = 0 /\ old.fail = 0
    BY <1>0, <1>2 DEF NewResults, AllResults, SampleResults
  <2>4. /\ Len(c) = Cardinality(Delivered)
        /\ Cardinality(Good(c)) = Cardinality({j \in Delivered : Available(samples[j])})
    <3>1. CASE results = Nil
      <4>1. Delivered = {} /\ c = <<>>
        BY <3>1 DEF UInv, Collected, NewResults
      <4>2. Good(c) = {} /\ Len(c) = 0 /\ {j \in Delivered : Available(samples[j])} = {}
        BY <4>1 DEF Good
      <4> QED BY <4>1, <4>2, FS_EmptySet
    <3>2. CASE results # Nil
      BY <3>2 DEF UInv, Collected
    <3> QED BY <3>1, <3>2
  <2>5. c \in Seq(SampleResults)
    BY <2>3 DEF AllResults
  <2> HIDE DEF s, x, old, c
  <2>6. /\ results' \in AllResults /\ results'.collected = Append(c, x)
        /\ ~ results'.dataReady /\ results'.pass = 0 /\ results'.fail = 0
    BY <2>1, <2>2, <2>3, AddResultFields DEF c
  <2>7. results' # Nil
    BY <2>6, NilAssumption
  <2>8. /\ DOMAIN samples = 1..MaxRoutes
        /\ samples'[i] = s
        /\ \A j \in 1..MaxRoutes \ {i} : samples'[j] = samples[j]
    BY <1>0, <2>1 DEF TypeOK
  <2>9. i \notin Delivered /\ Delivered' = Delivered \cup {i}
    BY <2>1, <2>2, <2>8 DEF Delivered
  <2>10. Available(samples'[i]) <=> Available(x)
    BY <2>2, <2>8 DEF Available
  <2>11. {j \in Delivered : Available(samples[j])}' =
           IF Available(x) THEN {j \in Delivered : Available(samples[j])} \cup {i}
           ELSE {j \in Delivered : Available(samples[j])}
    <3>1. \A j \in Delivered : j # i /\ samples'[j] = samples[j]
      BY <2>8, <2>9 DEF Delivered
    <3> QED BY <2>9, <2>10, <3>1
  <2>12. /\ Cardinality(Delivered') = Cardinality(Delivered) + 1
         /\ Cardinality({j \in Delivered : Available(samples[j])}') =
              IF Available(x) THEN Cardinality({j \in Delivered : Available(samples[j])}) + 1
              ELSE Cardinality({j \in Delivered : Available(samples[j])})
    <3>1. i \notin {j \in Delivered : Available(samples[j])}
      BY <2>9
    <3> QED BY <1>0, <2>9, <2>11, <3>1, Finite, FS_AddElement
  <2>13. Len(Append(c, x)) = Len(c) + 1
    BY <2>2, <2>5
  <2>14. Collected'
    BY <2>2, <2>4, <2>5, <2>6, <2>7, <2>12, <2>13, GoodAppend DEF Collected
  <2> QED BY <1>1, <2>1, <2>6, <2>14, SamplerStep
<1> QED BY <1>4, <1>5, <1>6, <1>7

-----------------------------------------------------------------------------
(******************************* The test **********************************)

\* Steps of the test that change neither samples nor results.
LEMMA TestMoves ==
  ASSUME UInv, UNCHANGED <<checkerVars, count, samples, results>>,
         pc' \in {"looping", "checked", "waiting", "printing", "expecting", "stopping",
                  "stopped", "finished"},
         verdict' = verdict \/ verdict' \in {"no upgrade", "panic"},
         Judged => verdict' = verdict,
         pc' \in {"waiting", "printing", "expecting"} => upgradeDone,
         pc' \in {"printing", "expecting"} => Waited,
         pc' = "expecting" => pc = "expecting",
         pc' \in {"expecting", "stopping", "stopped", "finished"}
           \/ pc \notin {"expecting", "stopping", "stopped", "finished"},
         Judged => pc' \in {"stopping", "stopped", "finished"}
  PROVE  UInv'
<1> USE DEF checkerVars
<1>1. Waited' = Waited /\ Delivered' = Delivered
  BY DEF Waited, Delivered
<1>2. TypeOK'
  BY DEF UInv, TypeOK
<1>3. UpgradeFinished' /\ BrokeOnFinish' /\ SamplersStarted'
  BY DEF UInv, UpgradeFinished, BrokeOnFinish, SamplersStarted
<1>4. Collected'
  BY <1>1 DEF UInv, Collected
<1>5. Counted'
  BY <1>1 DEF UInv, Counted
<1>6. WaitedFor'
  BY <1>1 DEF WaitedFor
<1>7. Judged' => Judged /\ verdict' = verdict
  BY DEF Judged
<1>8. Prepared' /\ VerdictGiven'
  BY <1>7 DEF UInv, Prepared, VerdictGiven
<1> QED BY <1>2, <1>3, <1>4, <1>5, <1>6, <1>8 DEF UInv

\* kapp and the checker: a finished upgrade stays finished.
LEMMA CheckerStep ==
  ASSUME UInv, Checker, UNCHANGED <<testVars, samples, results>>
  PROVE  UInv'
<1> USE DEF testVars
<1>1. /\ kapp \in [Changes -> {"absent", "running", "finished"}]
      /\ upgradeName \in Changes \cup {NoName} /\ upgradeDone \in BOOLEAN
      /\ UpgradeFinished
  BY DEF UInv, TypeOK
<1>2. /\ kapp' \in [Changes -> {"absent", "running", "finished"}]
      /\ upgradeName' \in Changes \cup {NoName} /\ upgradeDone' \in BOOLEAN
      /\ UpgradeFinished'
      /\ upgradeDone => upgradeDone'
  <2>1. ASSUME NEW c \in Changes, StartChange(c) \/ FinishChange(c)
        PROVE  /\ kapp' \in [Changes -> {"absent", "running", "finished"}]
               /\ UNCHANGED <<upgradeName, upgradeDone>>
               /\ \A d \in Changes : kapp[d] = "finished" => kapp'[d] = "finished"
    BY <1>1, <2>1 DEF StartChange, FinishChange
  <2>2. CASE \E c \in Changes : StartChange(c) \/ FinishChange(c)
    BY <1>1, <2>1, <2>2 DEF UpgradeFinished
  <2>3. CASE checkUpgrade
    <3>1. CASE upgradeName = NoName
      <4>1. upgradeName' \in Changes \cup {NoName} /\ UNCHANGED <<kapp, upgradeDone>>
        BY <2>3, <3>1 DEF checkUpgrade, discoverUpgradeName
      <4>2. ~ upgradeDone
        BY <1>1, <3>1 DEF UpgradeFinished
      <4> QED BY <1>1, <4>1, <4>2 DEF UpgradeFinished
    <3>2. CASE upgradeName # NoName
      <4>1. /\ UNCHANGED <<kapp, upgradeName>>
            /\ upgradeDone' = (upgradeDone \/ checkIfUpgradeHasFinished(upgradeName))
        BY <2>3, <3>2 DEF checkUpgrade
      <4> QED BY <1>1, <3>2, <4>1 DEF UpgradeFinished, checkIfUpgradeHasFinished
    <3> QED BY <3>1, <3>2
  <2>4. CASE kappAppChangeLSPanics \/ StopPolling
    BY <1>1, <2>4 DEF kappAppChangeLSPanics, StopPolling, UpgradeFinished
  <2> QED BY <2>2, <2>3, <2>4 DEF Checker
<1>3. TypeOK' /\ BrokeOnFinish' /\ SamplersStarted'
  BY <1>2 DEF UInv, TypeOK, BrokeOnFinish, SamplersStarted
<1>4. Waited' = Waited /\ Delivered' = Delivered
  BY DEF Waited, Delivered
<1>5. Collected' /\ Counted' /\ WaitedFor'
  BY <1>4 DEF UInv, Collected, Counted, WaitedFor
<1>6. Prepared' /\ VerdictGiven'
  BY DEF UInv, Prepared, VerdictGiven, Judged
<1> QED BY <1>2, <1>3, <1>5, <1>6 DEF UInv

\* A route is mapped: one sampler more, which has delivered nothing.
LEMMA RequestStep ==
  ASSUME UInv, Request
  PROVE  UInv'
<1>0. /\ TypeOK /\ pc = "checked" /\ pc' = "looping"
      /\ UNCHANGED <<checkerVars, verdict, results>>
  BY DEF UInv, Request, Goto
<1>1. CASE UNCHANGED <<count, samples>>
  <2>1. ~ Judged
    BY <1>0 DEF UInv, VerdictGiven
  <2> QED BY <1>0, <1>1, <2>1, TestMoves
<1>2. CASE /\ count < MaxRoutes /\ count' = count + 1
           /\ samples' = [samples EXCEPT ![count + 1].phase = "sleeping"]
  <2> DEFINE i == count + 1
             s == [samples[i] EXCEPT !.phase = "sleeping"]
  <2>1. i \in 1..MaxRoutes /\ count \in Nat /\ count + 1 \in 0..MaxRoutes
    <3>1. count \in 0..MaxRoutes /\ MaxRoutes \in Nat
      BY <1>0, UptimeAssumption DEF TypeOK
    <3>2. count < MaxRoutes
      BY <1>2
    <3> QED BY <3>1, <3>2
  <2>2. /\ s \in [phase : Phases, pass : Nat, fail : Nat] /\ s.phase = "sleeping"
        /\ samples' = [samples EXCEPT ![i] = s]
        /\ samples[i].phase = "unborn"
    <3>1. samples[i] \in [phase : Phases, pass : Nat, fail : Nat]
      BY <1>0, <2>1 DEF TypeOK
    <3>2. samples[i].phase = "unborn"
      BY <2>1 DEF UInv, SamplersStarted
    <3> QED BY <1>2, <3>1, <3>2 DEF Phases
  <2>3. i \notin Delivered
    BY <2>2 DEF Delivered
  <2>4. /\ samples' \in [1..MaxRoutes -> [phase : Phases, pass : Nat, fail : Nat]]
        /\ samples'[i] = s
        /\ \A j \in 1..MaxRoutes \ {i} : samples'[j] = samples[j]
    BY <1>0, <2>1, <2>2 DEF TypeOK
  <2>5. TypeOK'
    BY <1>0, <1>2, <2>1, <2>4 DEF TypeOK, checkerVars
  <2>6. SamplersStarted'
    <3> SUFFICES ASSUME NEW j \in 1..MaxRoutes
                 PROVE  samples'[j].phase = "unborn" <=> j > count + 1
      BY <1>2 DEF SamplersStarted
    <3>1. CASE j = i
      BY <2>1, <2>2, <2>4, <3>1
    <3>2. CASE j # i
      <4>1. samples'[j].phase = "unborn" <=> j > count
        BY <2>4, <3>2 DEF UInv, SamplersStarted
      <4> QED BY <2>1, <3>2, <4>1
    <3> QED BY <3>1, <3>2
  <2>7. ~ Judged /\ (results # Nil => ~ results.dataReady)
    BY <1>0 DEF UInv, VerdictGiven, Counted
  <2> HIDE DEF i, s
  <2>8. Collected'
    BY <1>0, <2>1, <2>2, <2>3, CollectedKept DEF i
  <2>9. Counted' /\ WaitedFor' /\ Prepared' /\ VerdictGiven'
    BY <1>0, <2>7 DEF UInv, Counted, WaitedFor, Prepared, VerdictGiven, Judged
  <2>10. UpgradeFinished' /\ BrokeOnFinish'
    BY <1>0 DEF UInv, UpgradeFinished, BrokeOnFinish, checkerVars
  <2> QED BY <2>5, <2>6, <2>8, <2>9, <2>10 DEF UInv
<1> QED BY <1>1, <1>2 DEF Request

\* PrintResults and Expect: the results are prepared, the first time only.
LEMMA PrepareStep ==
  ASSUME UInv, UNCHANGED <<checkerVars, count, samples>>, results # Nil,
         results' = prepareResults(results), Waited,
         pc \in {"printing", "expecting"},
         \/ pc' = "expecting" /\ UNCHANGED verdict
         \/ /\ pc' = "stopping"
            /\ verdict' = IF 100 * results'.pass
                               >= SLOPercentage * (results'.pass + results'.fail)
                          THEN "pass" ELSE "fail"
  PROVE  UInv'
<1> USE DEF checkerVars
<1>0. results \in AllResults /\ TypeOK /\ ~ Judged
  BY DEF UInv, TypeOK, VerdictGiven
<1>1. /\ results' \in AllResults /\ results' # Nil /\ results'.dataReady
      /\ results'.collected = results.collected
      /\ results'.pass = Cardinality(Good(results.collected))
      /\ results'.pass + results'.fail = Len(results.collected)
  <2>1. CASE results.dataReady
    BY <1>0, <2>1, NilAssumption DEF UInv, Counted, prepareResults
  <2>2. CASE ~ results.dataReady
    BY <1>0, <2>2, RecountExact, NilAssumption DEF UInv, Counted, prepareResults
  <2> QED BY <2>1, <2>2
<1>2. Waited' /\ Delivered' = Delivered
  BY DEF Waited, Delivered
<1>3. TypeOK'
  BY <1>0, <1>1 DEF TypeOK
<1>4. Collected'
  BY <1>1, <1>2 DEF UInv, Collected
<1>5. Counted' /\ WaitedFor'
  BY <1>1, <1>2 DEF Counted, WaitedFor
<1>6. Prepared' /\ VerdictGiven'
  BY <1>0, <1>1 DEF Prepared, VerdictGiven, Judged
<1>7. UpgradeFinished' /\ BrokeOnFinish' /\ SamplersStarted'
  BY DEF UInv, UpgradeFinished, BrokeOnFinish, SamplersStarted
<1> QED BY <1>3, <1>4, <1>5, <1>6, <1>7 DEF UInv

LEMMA UptimeStep ==
  ASSUME UInv, [Next]_vars
  PROVE  UInv'
<1> USE DEF testVars
<1>0. TypeOK /\ WaitedFor /\ Prepared /\ VerdictGiven /\ BrokeOnFinish
  BY DEF UInv
<1>1. CASE Aside(Checker)
  BY <1>1, CheckerStep DEF Aside
<1>2. CASE Expire
  BY <1>0, <1>2, TestMoves
     DEF Expire, TypeOK, WaitedFor, VerdictGiven, BrokeOnFinish
<1>3. ASSUME NEW i \in 1..MaxRoutes, Wake(i) \/ Sample(i) \/ addResult(i) \/ Done(i)
      PROVE  UInv'
  BY <1>3, SamplersStep
<1>4. CASE CheckFound
  <2>1. pc = "looping" /\ ~ Judged
    BY <1>0, <1>4 DEF CheckFound, Goto, VerdictGiven
  <2> QED BY <1>4, <2>1, TestMoves DEF CheckFound, Goto
<1>5. CASE Break
  <2>1. pc = "checked" /\ ~ Judged
    BY <1>0, <1>5 DEF Break, Goto, VerdictGiven
  <2> QED BY <1>5, <2>1, TestMoves DEF Break, Goto, IsUpgradeFinished
<1>6. CASE Request
  BY <1>6, RequestStep
<1>7. CASE Wait
  <2>1. pc = "waiting" /\ ~ Judged /\ upgradeDone
    BY <1>0, <1>7 DEF Wait, Goto, VerdictGiven, BrokeOnFinish
  <2> QED BY <1>7, <2>1, TestMoves DEF Wait, Goto
<1>8. CASE PrintResults
  <2>1. pc = "printing" /\ ~ Judged /\ Waited
    BY <1>0, <1>8 DEF PrintResults, Goto, VerdictGiven, WaitedFor
  <2>2. CASE results # Nil
    BY <1>8, <2>1, <2>2, PrepareStep DEF PrintResults, Goto
  <2>3. CASE results = Nil
    BY <1>8, <2>1, <2>3, TestMoves DEF PrintResults, Goto
  <2> QED BY <2>2, <2>3
<1>9. CASE Expect
  <2>1. pc = "expecting" /\ Waited /\ results # Nil
    BY <1>0, <1>9 DEF Expect, Goto, Prepared, WaitedFor
  <2> QED BY <1>9, <2>1, PrepareStep DEF Expect, Goto
<1>10. CASE Stop
  <2>1. /\ pc \in {"stopping", "stopped"} /\ pc' \in {"stopped", "finished"}
        /\ UNCHANGED <<kapp, upgradeName, upgradeDone, count, verdict, samples, results>>
    BY <1>10 DEF Stop, Goto, CloseStopChan, checkerVars
  <2>2. Waited' = Waited /\ Delivered' = Delivered
    BY <2>1 DEF Waited, Delivered
  <2>3. TypeOK' /\ UpgradeFinished' /\ BrokeOnFinish' /\ SamplersStarted'
    BY <2>1 DEF UInv, TypeOK, UpgradeFinished, BrokeOnFinish, SamplersStarted
  <2>4. Collected' /\ Counted' /\ WaitedFor'
    BY <2>1, <2>2 DEF UInv, Collected, Counted, WaitedFor
  <2>5. Prepared' /\ VerdictGiven'
    BY <2>1 DEF UInv, Prepared, VerdictGiven, Judged
  <2> QED BY <2>3, <2>4, <2>5 DEF UInv
<1>11. CASE UNCHANGED vars
  BY <1>0, <1>11, TestMoves DEF vars, TypeOK, WaitedFor, VerdictGiven, BrokeOnFinish
<1> QED BY <1>1, <1>2, <1>3, <1>4, <1>5, <1>6, <1>7, <1>8, <1>9, <1>10, <1>11
        DEF Next, Test

LEMMA UptimeInit == Init => UInv
<1> SUFFICES ASSUME Init PROVE UInv
  OBVIOUS
<1>1. TypeOK
  <2>1. count \in 0..MaxRoutes
    BY UptimeAssumption DEF Init
  <2>2. samples \in [1..MaxRoutes -> [phase : Phases, pass : Nat, fail : Nat]]
    BY DEF Init, NewSample, Phases
  <2> QED BY <2>1, <2>2 DEF Init, CheckerInit, TypeOK
<1>2. SamplersStarted
  BY UptimeAssumption DEF Init, SamplersStarted, NewSample
<1>3. Delivered = {}
  BY DEF Init, Delivered, NewSample
<1>4. Collected /\ Counted
  BY <1>3 DEF Init, Collected, Counted
<1>5. UpgradeFinished /\ BrokeOnFinish /\ WaitedFor /\ Prepared /\ VerdictGiven
  BY DEF Init, CheckerInit, UpgradeFinished, BrokeOnFinish, WaitedFor, Prepared,
         VerdictGiven, Judged
<1> QED BY <1>1, <1>2, <1>4, <1>5 DEF UInv

LEMMA UptimeInvariance == Spec => []UInv
BY UptimeInit, UptimeStep, PTL DEF Spec

-----------------------------------------------------------------------------
(******************************** Theorems *********************************)

\* At the verdict the samplers that have delivered are those of the routes.
LEMMA AllDelivered ==
  ASSUME UInv, Judged
  PROVE  /\ results # Nil /\ results.dataReady
         /\ Delivered = 1..count
         /\ Cardinality(Delivered) = count
<1>1. results # Nil /\ results.dataReady /\ Waited /\ count \in 0..MaxRoutes
  BY DEF UInv, Prepared, Counted, TypeOK
<1>2. Delivered = 1..count
  <2>1. \A i \in 1..MaxRoutes : samples[i].phase \in {"added", "done"} <=> ~ (i > count)
    BY <1>1 DEF UInv, SamplersStarted, Waited
  <2>2. count \in Nat /\ count <= MaxRoutes /\ MaxRoutes \in Nat
    BY <1>1, UptimeAssumption
  <2> QED BY <2>1, <2>2 DEF Delivered
<1>3. Cardinality(1..count) = count
  BY <1>1, FS_Interval
<1> QED BY <1>1, <1>2, <1>3

(***************************************************************************)
(* The wait group, the mutex and dataReady together see to it that the     *)
(* verdict counts every mapped route once, however many there are.         *)
(***************************************************************************)
THEOREM SamplesCountedOnce == Spec => []EverySampleCountsOnce
<1>1. UInv => EverySampleCountsOnce
  BY AllDelivered DEF EverySampleCountsOnce, UInv, Counted, Collected
<1> QED BY <1>1, UptimeInvariance, PTL

(***************************************************************************)
(* The verdict compares the share of available routes with the SLO, in     *)
(* whatever order the samplers added their results.                        *)
(***************************************************************************)
THEOREM VerdictDeserved == Spec => []VerdictMatchesSamples
<1>1. UInv => VerdictMatchesSamples
  <2> SUFFICES ASSUME UInv, Judged
               PROVE  (verdict = "pass") <=>
                        (100 * Cardinality({i \in 1..count : Available(samples[i])})
                           >= SLOPercentage * count)
    BY DEF VerdictMatchesSamples
  <2>1. /\ results # Nil /\ results.dataReady
        /\ Delivered = 1..count /\ Cardinality(Delivered) = count
    BY AllDelivered
  <2>2. results.pass = Cardinality({i \in 1..count : Available(samples[i])})
    BY <2>1 DEF UInv, Counted, Collected
  <2>3. results.pass + results.fail = count
    BY <2>1 DEF UInv, Counted, Collected
  <2> QED BY <2>2, <2>3 DEF UInv, VerdictGiven
<1> QED BY <1>1, UptimeInvariance, PTL

(***************************************************************************)
(* The loop is left only after the upgrade the checker found has finished, *)
(* whatever else kapp lists.                                               *)
(***************************************************************************)
THEOREM MeasuredToTheEnd == Spec => []MeasuresToTheEnd
<1>1. UInv => MeasuresToTheEnd
  BY DEF UInv, BrokeOnFinish, UpgradeFinished, MeasuresToTheEnd
<1> QED BY <1>1, UptimeInvariance, PTL

=============================================================================
