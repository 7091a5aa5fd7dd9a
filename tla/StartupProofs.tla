---------------------------- MODULE StartupProofs ----------------------------
(***************************************************************************)
(* TLAPS proofs about the start-up of a route controller process, for any  *)
(* environments, any durations and any number of faults.                   *)
(***************************************************************************)
EXTENDS Startup, TLAPS

\* The steps of main after cfg.Load, in their order.
AfterLoad == {"manager", "setup", "owner", "complete", "start", "running"}

\* main goes on only with a configuration that was read from its environment.
Loaded == step \in AfterLoad => Loads(env) /\ config = Load(env)

(***************************************************************************)
(* The indexes are those registered by this process so far: an index that  *)
(* failed to register is not there, and main is not past it.               *)
(***************************************************************************)
Indexed ==
  /\ indexes \subseteq Indexes
  /\ step \in {"owner", "complete", "start", "running"} => "spec.fqdn" \in indexes
  /\ step \in {"complete", "start", "running"} => "spec.owner" \in indexes

SInv ==
  /\ env \in Environments
  /\ step \in AfterLoad \cup {"config", "exited"}
  /\ Loaded
  /\ Indexed

LEMMA StartupInit == Init => SInv
BY DEF Init, SInv, AfterLoad, Loaded, Indexed

\* A step of main that registers nothing.
LEMMA ProceedStep ==
  ASSUME SInv, NEW from, NEW to, Proceed(from, to), UNCHANGED <<env, config, indexes>>,
         \/ from = "manager" /\ to = "setup"
         \/ from = "complete" /\ to = "start"
         \/ from = "start" /\ to = "running"
  PROVE  SInv'
<1>1. step = from /\ step' \in {to, "exited"}
  BY DEF Proceed
<1>2. Loaded'
  BY <1>1 DEF SInv, Loaded, AfterLoad
<1>3. Indexed'
  BY <1>1 DEF SInv, Indexed
<1> QED BY <1>1, <1>2, <1>3 DEF SInv, AfterLoad

\* A step of SetupWithManager that registers an index, or fails to.
LEMMA IndexStep ==
  ASSUME SInv, NEW index, NEW from, NEW to, IndexField(index, from, to),
         \/ index = "spec.fqdn" /\ from = "setup" /\ to = "owner"
         \/ index = "spec.owner" /\ from = "owner" /\ to = "complete"
  PROVE  SInv'
<1>1. /\ step = from /\ step' \in {to, "exited"} /\ UNCHANGED <<env, config>>
      /\ indexes' = IF step' = to THEN indexes \cup {index} ELSE indexes
  BY DEF IndexField, Proceed
<1>2. Loaded'
  BY <1>1 DEF SInv, Loaded, AfterLoad
<1>3. Indexed'
  BY <1>1 DEF SInv, Indexed, Indexes
<1> QED BY <1>1, <1>2, <1>3 DEF SInv, AfterLoad

LEMMA StartupStep ==
  ASSUME SInv, [Next]_vars
  PROVE  SInv'
<1>1. CASE LoadConfig
  <2>1. /\ step = "config" /\ UNCHANGED <<env, indexes>>
        /\ \/ Loads(env) /\ step' = "manager" /\ config' = Load(env)
           \/ step' = "exited"
    BY <1>1 DEF LoadConfig
  <2>2. Loaded'
    BY <2>1 DEF Loaded, AfterLoad, Loads, Load
  <2>3. Indexed'
    BY <2>1 DEF SInv, Indexed
  <2> QED BY <2>1, <2>2, <2>3 DEF SInv, AfterLoad
<1>2. CASE NewManager
  BY <1>2, ProceedStep DEF NewManager
<1>3. CASE SetupWithManager
  BY <1>3, IndexStep, ProceedStep DEF SetupWithManager
<1>4. CASE Start
  BY <1>4, ProceedStep DEF Start
<1>5. CASE StartReturns
  BY <1>5 DEF StartReturns, SInv, AfterLoad, Loaded, Indexed
<1>6. CASE Restart
  BY <1>6 DEF Restart, SInv, AfterLoad, Loaded, Indexed
<1>7. CASE UNCHANGED vars
  BY <1>7 DEF vars, SInv, AfterLoad, Loaded, Indexed
<1> QED BY <1>1, <1>2, <1>3, <1>4, <1>5, <1>6, <1>7 DEF Next, Main

LEMMA StartupInvariance == Spec => []SInv
BY StartupInit, StartupStep, PTL DEF Spec

(***************************************************************************)
(* A process that reconciles has registered both indexes itself and has    *)
(* the gateway and the namespace of its own environment, after whatever    *)
(* sequence of failed starts, lost leases and restarts.                    *)
(***************************************************************************)
THEOREM RunsSetUp == Spec => []RunsOnlyWhenSetUp
<1>1. SInv => RunsOnlyWhenSetUp
  <2> SUFFICES ASSUME SInv, step = "running"
               PROVE  /\ indexes = Indexes
                      /\ config.gateway # Unset /\ config.namespace # Unset
    BY DEF RunsOnlyWhenSetUp
  <2>1. indexes = Indexes
    BY DEF SInv, Indexed, Indexes
  <2>2. Loads(env) /\ config = Load(env)
    BY DEF SInv, Loaded, AfterLoad
  <2> QED BY <2>1, <2>2 DEF Loads, Load
<1> QED BY <1>1, StartupInvariance, PTL

LEMMA OnlyElement ==
  ASSUME NEW S, NEW s \in Seq(S), Len(s) = 1
  PROVE  DOMAIN s = 1..1 /\ s[1] \in S
OBVIOUS

(***************************************************************************)
(* cfg.Load reads a plain number as that many seconds: the sum over the    *)
(* single part has one solution, which the number and its unit give.       *)
(***************************************************************************)
LEMMA SuffixedNumber ==
  ASSUME NEW text \in [negative : BOOLEAN, parts : Seq([number : Nat, unit : STRING])],
         PlainNumber(text)
  PROVE  LET n == text.parts[1].number
         IN  Duration(Suffixed(text)) = 1000 * (IF text.negative THEN - n ELSE n)
<1> DEFINE parts == text.parts
           read == Suffixed(text)
<1>1. /\ parts \in Seq([number : Nat, unit : STRING]) /\ text.negative \in BOOLEAN
      /\ Len(parts) = 1 /\ parts[1].unit = ""
  BY DEF PlainNumber
<1>2. DOMAIN parts = 1..1 /\ parts[1] \in [number : Nat, unit : STRING]
  BY <1>1, OnlyElement
<1>3. WithS(parts[1].unit) = "s"
  BY <1>1 DEF WithS
<1>4. read.negative = text.negative
  BY DEF Suffixed
<1>5. read.parts = [i \in 1..1 |-> [number |-> parts[i].number,
                                   unit |-> IF i < 1 THEN parts[i].unit
                                            ELSE WithS(parts[i].unit)]]
  BY <1>1, <1>2 DEF Suffixed
<1> HIDE DEF read, parts
<1>6. Len(read.parts) = 1
  BY <1>5
<1>7. /\ read.parts[1].unit = "s" /\ read.parts[1].number = parts[1].number
      /\ parts[1].number \in Nat
  BY <1>2, <1>3, <1>5
<1> DEFINE number == parts[1].number
           Sum(f) == [i \in 0..Len(read.parts) |->
                        IF i = 0 THEN 0
                        ELSE f[i - 1] + read.parts[i].number
                                          * Milliseconds[read.parts[i].unit]]
           sum == CHOOSE f : f = Sum(f)
           solution == [i \in 0..1 |-> IF i = 0 THEN 0 ELSE number * 1000]
<1>8. Milliseconds["s"] = 1000
  BY DEF Milliseconds
<1>9. solution = Sum(solution)
  BY <1>6, <1>7, <1>8
<1>10. sum = Sum(sum)
  BY <1>9
<1> HIDE DEF sum
<1>11. sum[0] = 0 /\ sum[1] = number * 1000
  BY <1>6, <1>7, <1>8, <1>10
<1>12. Duration(read) = IF read.negative THEN - sum[Len(read.parts)]
                        ELSE sum[Len(read.parts)]
  BY DEF Duration, sum
<1> HIDE DEF number
<1>13. /\ number \in Nat
       /\ Duration(read) = IF text.negative THEN - sum[1] ELSE sum[1]
  BY <1>4, <1>6, <1>7, <1>12 DEF number
<1>14. /\ text.negative = TRUE => Duration(read) = 1000 * (- number)
       /\ text.negative = FALSE => Duration(read) = 1000 * number
  BY <1>11, <1>13
<1>15. Duration(read) = 1000 * (IF text.negative THEN - number ELSE number)
  <2>1. CASE text.negative = TRUE
    BY <1>14, <2>1
  <2>2. CASE text.negative = FALSE
    BY <1>14, <2>2
  <2> QED BY <1>1, <2>1, <2>2
<1> QED BY <1>15, Zenon DEF read, parts, number

(***************************************************************************)
(* A process that reconciles uses the interval of its environment: N means *)
(* N seconds, no value means 30, whatever failed starts came before.       *)
(***************************************************************************)
THEOREM IntervalConfigured == Spec => []IntervalIsAsConfigured
<1>1. SInv => IntervalIsAsConfigured
  <2> SUFFICES ASSUME SInv, step = "running"
               PROVE  /\ env.interval = Unset => config.interval = 30 * 1000
                      /\ env.interval # Unset /\ PlainNumber(env.interval) =>
                           LET n == env.interval.parts[1].number
                           IN  config.interval =
                                 1000 * (IF env.interval.negative THEN - n ELSE n)
    BY DEF IntervalIsAsConfigured
  <2>1. config = Load(env) /\ env \in Environments
    BY DEF SInv, Loaded, AfterLoad
  <2>2. env.interval = Unset => config.interval = 30 * 1000
    BY <2>1 DEF Load, DefaultInterval
  <2>3. ASSUME env.interval # Unset, PlainNumber(env.interval)
        PROVE  LET n == env.interval.parts[1].number
               IN  config.interval = 1000 * (IF env.interval.negative THEN - n ELSE n)
    <3> DEFINE text == env.interval
               read == Suffixed(text)
    <3>1. text \in [negative : BOOLEAN, parts : Seq([number : Nat, unit : STRING])]
      BY <2>1, <2>3, EnvironmentsAssumption
    <3>2. config.interval = Duration(read)
      BY <2>1, <2>3 DEF Load
    <3> QED BY <2>3, <3>1, <3>2, SuffixedNumber
  <2> QED BY <2>2, <2>3
<1> QED BY <1>1, StartupInvariance, PTL

=============================================================================
