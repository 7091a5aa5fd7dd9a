-------------------------- MODULE ExitMatcherProofs --------------------------
(***************************************************************************)
(* TLAPS proofs about the ExitSuccessfully matcher, for any exit codes and *)
(* any number of polls.                                                    *)
(***************************************************************************)
EXTENDS ExitMatcher, TLAPS

TypeOK ==
  /\ kind \in {"session", "exiter", "other"}
  /\ stage \in {"oracle", "match", "decide"}
  /\ verdict \in {"pending", "passed", "error", "panic", "did not exit",
                  "wrong exit code"}

\* An exit that came before the poll is the one this poll works with.
ExitIsFinal == atPoll # Running => exitCode = atPoll

\* During a poll the oracle's answer is about the moment the poll began.
AnswerOfPoll ==
  stage # "oracle" => (mayChange <=> (kind = "session" => atPoll = Running))

(***************************************************************************)
(* Match sees the exit code of a moment after the oracle was asked: the    *)
(* process was still running or has the code it has now, and it has that   *)
(* code when it had already exited as the poll began.                      *)
(***************************************************************************)
CodeOfPoll ==
  stage = "decide" /\ kind # "other" =>
    /\ actualExitCode \in {Running, exitCode}
    /\ atPoll # Running => actualExitCode = atPoll

EInv ==
  /\ TypeOK
  /\ ExitIsFinal
  /\ AnswerOfPoll
  /\ CodeOfPoll
  /\ VerdictFitsProcess
  /\ NoPollAfterExit

LEMMA MatcherInit == Init => EInv
BY DEF Init, EInv, TypeOK, ExitIsFinal, AnswerOfPoll, CodeOfPoll,
       VerdictFitsProcess, NoPollAfterExit

\* The process exits, at any point of a poll or after the verdict.
LEMMA ExitStep ==
  ASSUME EInv, Exit
  PROVE  EInv'
<1>1. /\ exitCode = Running
      /\ UNCHANGED <<kind, stage, polls, atPoll, mayChange, actualExitCode, verdict>>
  BY DEF Exit
<1>2. atPoll = Running
  BY <1>1 DEF EInv, ExitIsFinal
<1>3. TypeOK' /\ ExitIsFinal' /\ AnswerOfPoll' /\ NoPollAfterExit'
  BY <1>1, <1>2 DEF EInv, TypeOK, ExitIsFinal, AnswerOfPoll, NoPollAfterExit
<1>4. CodeOfPoll'
  BY <1>1, <1>2 DEF EInv, CodeOfPoll
<1>5. VerdictFitsProcess'
  <2>1. exitCode # 0
    BY <1>1 DEF Running
  <2>2. verdict \notin {"passed", "wrong exit code"}
    BY <1>1, <2>1 DEF EInv, VerdictFitsProcess
  <2> QED BY <1>1, <2>2 DEF EInv, VerdictFitsProcess
<1> QED BY <1>3, <1>4, <1>5 DEF EInv

LEMMA AskStep ==
  ASSUME EInv, Ask
  PROVE  EInv'
<1>1. /\ verdict = "pending" /\ stage' = "match" /\ atPoll' = exitCode
      /\ mayChange' = (kind = "session" => exitCode = Running)
      /\ UNCHANGED <<kind, exitCode, polls, actualExitCode, verdict>>
  BY DEF Ask, MatchMayChangeInTheFuture
<1> QED BY <1>1 DEF EInv, TypeOK, ExitIsFinal, AnswerOfPoll, CodeOfPoll,
                    VerdictFitsProcess, NoPollAfterExit

LEMMA MatchStep ==
  ASSUME EInv, Match
  PROVE  EInv'
<1>1. /\ verdict = "pending" /\ stage = "match" /\ stage' = "decide"
      /\ kind # "other" => actualExitCode' = exitCode
      /\ UNCHANGED <<kind, exitCode, polls, atPoll, mayChange, verdict>>
  BY DEF Match
<1> QED BY <1>1 DEF EInv, TypeOK, ExitIsFinal, AnswerOfPoll, CodeOfPoll,
                    VerdictFitsProcess, NoPollAfterExit

LEMMA DecideStep ==
  ASSUME EInv, Decide
  PROVE  EInv'
<1>1. /\ TypeOK /\ stage = "decide"
      /\ UNCHANGED <<kind, exitCode, atPoll, mayChange, actualExitCode>>
  BY DEF EInv, Decide
<1>2. mayChange <=> (kind = "session" => atPoll = Running)
  BY <1>1 DEF EInv, AnswerOfPoll
<1>3. kind # "other" => /\ actualExitCode \in {Running, exitCode}
                        /\ atPoll # Running => actualExitCode = atPoll
  BY <1>1 DEF EInv, CodeOfPoll
<1>4. CASE Matches /\ verdict' = "passed" /\ UNCHANGED <<stage, polls>>
  <2>1. exitCode = 0
    BY <1>3, <1>4 DEF Matches, Running
  <2> QED BY <1>1, <1>4, <2>1 DEF EInv, TypeOK, ExitIsFinal, AnswerOfPoll,
                CodeOfPoll, VerdictFitsProcess, NoPollAfterExit
<1>5. CASE /\ ~ Matches /\ (~ mayChange \/ polls = MaxPolls)
           /\ verdict' = FailureMessage /\ UNCHANGED <<stage, polls>>
  <2>1. verdict' \in {"error", "panic", "did not exit", "wrong exit code"}
    BY <1>5 DEF FailureMessage
  <2>2. ASSUME verdict' \in {"did not exit", "wrong exit code"}
        PROVE  /\ kind = "session"
               /\ (verdict' = "did not exit") <=> (actualExitCode = Running)
    BY <1>1, <1>5, <2>2 DEF FailureMessage, TypeOK
  <2>3. verdict' = "wrong exit code" => exitCode \notin {Running, 0}
    BY <1>3, <1>5, <2>2 DEF Matches
  <2>4. verdict' = "did not exit" => polls = MaxPolls
    BY <1>2, <1>3, <1>5, <2>2
  <2> QED BY <1>1, <1>5, <2>1, <2>3, <2>4 DEF EInv, TypeOK, ExitIsFinal,
                AnswerOfPoll, CodeOfPoll, VerdictFitsProcess, NoPollAfterExit
<1>6. CASE mayChange /\ stage' = "oracle" /\ verdict = "pending" /\ UNCHANGED verdict
  BY <1>1, <1>2, <1>6 DEF EInv, TypeOK, ExitIsFinal, AnswerOfPoll, CodeOfPoll,
                          VerdictFitsProcess, NoPollAfterExit
<1> QED BY <1>4, <1>5, <1>6 DEF Decide

LEMMA MatcherInvariance == Spec => []EInv
<1>1. EInv /\ [Next]_vars => EInv'
  <2> SUFFICES ASSUME EInv, [Next]_vars PROVE EInv'
    OBVIOUS
  <2>1. CASE UNCHANGED vars
    BY <2>1 DEF vars, EInv, TypeOK, ExitIsFinal, AnswerOfPoll, CodeOfPoll,
                VerdictFitsProcess, NoPollAfterExit
  <2> QED BY <2>1, ExitStep, AskStep, MatchStep, DecideStep DEF Next
<1> QED BY <1>1, MatcherInit, PTL DEF Spec

(***************************************************************************)
(* ExitSuccessfully tells the truth about a process that may exit at any   *)
(* moment: MatchMayChangeInTheFuture is asked before Match, so that what   *)
(* Match reads is never older than the oracle's answer.                    *)
(***************************************************************************)
THEOREM VerdictIsTrue == Spec => []VerdictFitsProcess
BY MatcherInvariance, PTL DEF EInv

\* Eventually does not begin another poll of a session that exited before
\* the last one, whatever it exited with.
THEOREM LastPollAfterExit == Spec => []NoPollAfterExit
BY MatcherInvariance, PTL DEF EInv

=============================================================================
