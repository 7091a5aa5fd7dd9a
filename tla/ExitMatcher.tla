----------------------------- MODULE ExitMatcher -----------------------------
(***************************************************************************)
(* The stress tests' ExitSuccessfully matcher (stress/matchers), polled by *)
(* gomega's Eventually (external) while the process it watches runs: each  *)
(* poll asks MatchMayChangeInTheFuture first and then Match, and the       *)
(* process may exit in between.                                            *)
(***************************************************************************)
EXTENDS Integers

CONSTANTS
  ExitCodes,  \* codes a process may exit with
  MaxPolls    \* polls before Eventually times out

Running == -1

VARIABLES
  kind,            \* what is matched: a "session", another "exiter" or "other"
  exitCode,        \* of the process, Running before it exits
  stage,           \* of a poll: "oracle", "match" or "decide"
  polls,
  atPoll,          \* exitCode when the current poll began
  mayChange,       \* the oracle's answer
  actualExitCode,  \* the matcher's field
  verdict          \* "pending", "passed", or how the assertion failed

vars == <<kind, exitCode, stage, polls, atPoll, mayChange, actualExitCode, verdict>>

Init ==
  /\ kind \in {"session", "exiter", "other"}
  /\ exitCode = Running
  /\ stage = "oracle"
  /\ polls = 0
  /\ atPoll = Running
  /\ mayChange = TRUE
  /\ actualExitCode = 0
  /\ verdict = "pending"

Exit ==
  /\ exitCode = Running
  /\ exitCode' \in ExitCodes
  /\ UNCHANGED <<kind, stage, polls, atPoll, mayChange, actualExitCode, verdict>>

\* Mutant: the matcher never knows.
MayAlwaysChange == TRUE

\* Only of a session is it known that nothing more will happen.
MatchMayChangeInTheFuture == kind = "session" => exitCode = Running

Ask ==
  /\ verdict = "pending"
  /\ stage = "oracle"
  /\ stage' = "match"
  /\ atPoll' = exitCode
  /\ mayChange' = MatchMayChangeInTheFuture
  /\ UNCHANGED <<kind, exitCode, polls, actualExitCode, verdict>>

\* Match fails with an error on anything without an exit code.
Match ==
  /\ verdict = "pending"
  /\ stage = "match"
  /\ stage' = "decide"
  /\ actualExitCode' = IF kind = "other" THEN actualExitCode ELSE exitCode
  /\ UNCHANGED <<kind, exitCode, polls, atPoll, mayChange, verdict>>

Matches == kind # "other" /\ actualExitCode = 0

\* Mutant: the exit code is always reported.
AlwaysExitCode == "wrong exit code"

\* How the assertion ends when it fails; of a mere Exiter no message is made.
FailureMessage ==
  CASE kind = "other"  -> "error"
    [] kind = "exiter" -> "panic"
    [] OTHER -> IF actualExitCode = Running THEN "did not exit"
                ELSE "wrong exit code"

Decide ==
  /\ verdict = "pending"
  /\ stage = "decide"
  /\ \/ /\ Matches
        /\ verdict' = "passed"
        /\ UNCHANGED <<stage, polls>>
     \/ /\ ~ Matches
        /\ ~ mayChange \/ polls = MaxPolls
        /\ verdict' = FailureMessage
        /\ UNCHANGED <<stage, polls>>
     \/ /\ ~ Matches
        /\ mayChange
        /\ polls < MaxPolls
        /\ polls' = polls + 1
        /\ stage' = "oracle"
        /\ UNCHANGED verdict
  /\ UNCHANGED <<kind, exitCode, atPoll, mayChange, actualExitCode>>

Next == Exit \/ Ask \/ Match \/ Decide

\* gomega goes on polling; the process need not ever exit.
Spec == Init /\ [][Next]_vars /\ WF_vars(Ask \/ Match \/ Decide)

-----------------------------------------------------------------------------

(***************************************************************************)
(* Whatever moment the process exits at, the assertion tells the truth     *)
(* about it: it passes only on exit code 0, blames the code only of a      *)
(* process that failed, and says that a process did not exit only after    *)
(* waiting for all polls.  An oracle asked after Match instead of before   *)
(* it would bail out on a process that succeeded in between.               *)
(***************************************************************************)
VerdictFitsProcess ==
  /\ verdict = "passed" => exitCode = 0
  /\ verdict = "wrong exit code" => exitCode \notin {Running, 0}
  /\ verdict = "did not exit" => polls = MaxPolls

(***************************************************************************)
(* A failed process is not waited for until the timeout: the poll that     *)
(* begins after a session has exited is the last one.                      *)
(***************************************************************************)
NoPollAfterExit ==
  kind = "session" /\ stage = "oracle" => atPoll = Running

=============================================================================
