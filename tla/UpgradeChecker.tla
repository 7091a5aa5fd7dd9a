--------------------------- MODULE UpgradeChecker ---------------------------
(***************************************************************************)
(* The upgrade checker of the uptime tests (test/uptime/internal/checker): *)
(* a goroutine polls kapp (external) for an upgrade of cf, remembers the   *)
(* first unfinished app-change it sees and notices when that one is        *)
(* finished.  The tests look at it concurrently, one mutex at a time.      *)
(* Time is left out: a poll may come at any moment.                        *)
(***************************************************************************)
EXTENDS Integers, Sequences, FiniteSets

CONSTANTS
  Changes,      \* names of the app-changes kapp may list
  NoName        \* the empty upgradeName

ASSUME CheckerAssumption == NoName \notin Changes

VARIABLES
  kapp,         \* per app-change: "absent", "running" or "finished"
  upgradeName, upgradeDone,
  stopped,      \* stopChan is closed
  polling       \* the goroutine is "running", "gone" or "panicked"

checkerVars == <<kapp, upgradeName, upgradeDone, stopped, polling>>

CheckerInit ==
  /\ kapp \in [Changes -> {"absent", "finished"}]
  /\ upgradeName = NoName
  /\ upgradeDone = FALSE
  /\ stopped = FALSE
  /\ polling = "running"

\* A panic outside the test's own goroutine ends the process.
Alive == polling # "panicked"

-----------------------------------------------------------------------------
(*********************************** kapp **********************************)

StartChange(c) ==
  /\ kapp[c] = "absent"
  /\ \A d \in Changes : kapp[d] # "running"
  /\ kapp' = [kapp EXCEPT ![c] = "running"]
  /\ UNCHANGED <<upgradeName, upgradeDone, stopped, polling>>

FinishChange(c) ==
  /\ kapp[c] = "running"
  /\ kapp' = [kapp EXCEPT ![c] = "finished"]
  /\ UNCHANGED <<upgradeName, upgradeDone, stopped, polling>>

-----------------------------------------------------------------------------
(**************************** checker.Upgrade ******************************)

\* discoverUpgradeName: an app-change that has not finished, if there is one.
discoverUpgradeName ==
  LET unfinished == {c \in Changes : kapp[c] = "running"}
  IN  IF unfinished = {} THEN {NoName} ELSE unfinished

\* Mutant: any finished app-change will do.
anyUpgradeHasFinished(name) == \E c \in Changes : kapp[c] = "finished"

checkIfUpgradeHasFinished(name) == kapp[name] = "finished"

checkUpgrade ==
  /\ polling = "running"
  /\ IF upgradeName = NoName
     THEN upgradeName' \in discoverUpgradeName /\ UNCHANGED upgradeDone
     ELSE /\ upgradeDone' = (upgradeDone \/ checkIfUpgradeHasFinished(upgradeName))
          /\ UNCHANGED upgradeName
  /\ UNCHANGED <<kapp, stopped, polling>>

\* kapp fails or answers with something that is not JSON.
kappAppChangeLSPanics ==
  /\ polling = "running"
  /\ polling' = "panicked"
  /\ UNCHANGED <<kapp, upgradeName, upgradeDone, stopped>>

\* The goroutine sees the closed channel and leaves.
StopPolling ==
  /\ stopped /\ polling = "running"
  /\ polling' = "gone"
  /\ UNCHANGED <<kapp, upgradeName, upgradeDone, stopped>>

HasFoundUpgrade == upgradeName # NoName

IsUpgradeFinished == upgradeDone

\* Stop, first half: close the channel.
CloseStopChan ==
  /\ stopped' = TRUE
  /\ UNCHANGED <<kapp, upgradeName, upgradeDone, polling>>

\* Stop, second half: waitGroup.Wait returns.
PollingEnded == polling = "gone"

Checker ==
  \/ \E c \in Changes : StartChange(c) \/ FinishChange(c)
  \/ checkUpgrade
  \/ kappAppChangeLSPanics
  \/ StopPolling

=============================================================================
