------------------------------- MODULE Startup -------------------------------
(***************************************************************************)
(* How a route controller process comes up (main.go): flags, cfg.Load, the *)
(* manager, SetupWithManager with its two indexes, and mgr.Start.  Every   *)
(* failure is fatal, and the kubelet starts the container again.           *)
(*                                                                         *)
(* RESYNC_INTERVAL is a text: a sign and a sequence of numbers with units, *)
(* h, m, s, ms or none, the last usually without.  Durations are in ms;    *)
(* MaxDuration stands for the largest time.Duration.                       *)
(***************************************************************************)
EXTENDS Integers, Sequences

CONSTANTS
  Unset,         \* an environment variable that does not exist
  Environments,  \* the environments a container may be started with
  MaxDuration,
  MaxFaults      \* bound on calls that fail and on lost leases

\* An interval that is set is a sign and a sequence of numbers with units.
ASSUME EnvironmentsAssumption ==
  \A e \in Environments :
    e.interval # Unset =>
      e.interval \in [negative : BOOLEAN, parts : Seq([number : Nat, unit : STRING])]

Indexes == {"spec.fqdn", "spec.owner"}

NoConfig == [gateway |-> Unset, namespace |-> Unset, interval |-> 0]

VARIABLES
  env,      \* the container's environment
  step,     \* where in main the process is
  config,   \* what cfg.Load returned
  indexes,  \* the indexes of the manager's caches
  faults

vars == <<env, step, config, indexes, faults>>

-----------------------------------------------------------------------------
(********************************* cfg.Load ********************************)

\* Mutant: "ms" is appended to every text.
WithMs(unit) == IF unit = "" THEN "ms" ELSE "unknown"

\* The unit that results from appending "s" to the text.
WithS(unit) ==
  CASE unit = ""  -> "s"
    [] unit = "m" -> "ms"
    [] OTHER      -> "unknown"

Milliseconds == [ms |-> 1, s |-> 1000, m |-> 60000, h |-> 3600000]

\* fmt.Sprintf("%ss", text): an empty text becomes a unit without a number.
Suffixed(text) ==
  LET parts == text.parts
      unit(i) == IF i < Len(parts) THEN parts[i].unit ELSE WithS(parts[i].unit)
  IN  [negative |-> text.negative,
       parts |-> [i \in DOMAIN parts |-> [number |-> parts[i].number, unit |-> unit(i)]]]

Duration(text) ==
  LET parts == text.parts
      sum[i \in 0..Len(parts)] ==
        IF i = 0 THEN 0 ELSE sum[i - 1] + parts[i].number * Milliseconds[parts[i].unit]
  IN  IF text.negative THEN - sum[Len(parts)] ELSE sum[Len(parts)]

\* time.ParseDuration returns no error.
Parses(text) ==
  /\ text.parts # <<>>
  /\ \A i \in DOMAIN text.parts : text.parts[i].unit \in DOMAIN Milliseconds
  /\ Duration(text) \in (- MaxDuration)..MaxDuration

DefaultInterval == 30000

\* Mutant: a missing RESYNC_INTERVAL is an error.
LoadsExplicit(e) ==
  /\ e.gateway # Unset
  /\ e.namespace # Unset
  /\ e.interval # Unset
  /\ Parses(Suffixed(e.interval))

\* Load returns no error; a variable that exists may be empty.
Loads(e) ==
  /\ e.gateway # Unset
  /\ e.namespace # Unset
  /\ e.interval = Unset \/ Parses(Suffixed(e.interval))

Load(e) ==
  [gateway |-> e.gateway, namespace |-> e.namespace,
   interval |-> IF e.interval = Unset THEN DefaultInterval
                ELSE Duration(Suffixed(e.interval))]

-----------------------------------------------------------------------------
(*********************************** main **********************************)

Fault ==
  /\ faults < MaxFaults
  /\ faults' = faults + 1

\* A step of main succeeds, or logs the error and exits.
Proceed(from, to) ==
  /\ step = from
  /\ \/ step' = to /\ UNCHANGED faults
     \/ step' = "exited" /\ Fault

LoadConfig ==
  /\ step = "config"
  /\ IF Loads(env) THEN step' = "manager" /\ config' = Load(env)
     ELSE step' = "exited" /\ UNCHANGED config
  /\ UNCHANGED <<env, indexes, faults>>

NewManager ==
  /\ Proceed("manager", "setup")
  /\ UNCHANGED <<env, config, indexes>>

\* Mutant: the index is not registered.
SkipIndex(index, from, to) ==
  /\ Proceed(from, to)
  /\ UNCHANGED <<env, config, indexes>>

IndexField(index, from, to) ==
  /\ Proceed(from, to)
  /\ indexes' = IF step' = to THEN indexes \cup {index} ELSE indexes
  /\ UNCHANGED <<env, config>>

SetupWithManager ==
  \/ IndexField("spec.fqdn", "setup", "owner")
  \/ IndexField("spec.owner", "owner", "complete")
  \/ /\ Proceed("complete", "start")
     /\ UNCHANGED <<env, config, indexes>>

Start ==
  /\ Proceed("start", "running")
  /\ UNCHANGED <<env, config, indexes>>

\* Start returns: a signal, a lost lease or a lost cache.
StartReturns ==
  /\ step = "running"
  /\ Fault
  /\ step' = "exited"
  /\ UNCHANGED <<env, config, indexes>>

\* The kubelet starts a new process, which has nothing of the old one.
Restart ==
  /\ step = "exited"
  /\ step' = "config"
  /\ config' = NoConfig
  /\ indexes' = {}
  /\ UNCHANGED <<env, faults>>

Init ==
  /\ env \in Environments
  /\ step = "config"
  /\ config = NoConfig
  /\ indexes = {}
  /\ faults = 0

Main == LoadConfig \/ NewManager \/ SetupWithManager \/ Start

Next == Main \/ StartReturns \/ Restart

\* The process runs and the kubelet restarts it; nothing makes calls fail.
Spec == Init /\ [][Next]_vars /\ WF_vars(Main) /\ WF_vars(Restart)

-----------------------------------------------------------------------------
(******************************** Properties *******************************)

PlainNumber(text) == Len(text.parts) = 1 /\ text.parts[1].unit = ""

(***************************************************************************)
(* A controller that reconciles does so with the resync interval its       *)
(* environment asks for: N means N seconds (0 and less included, which     *)
(* turns resync off), no value means 30 seconds, and one too large for a   *)
(* time.Duration never wraps round but keeps the process from starting.    *)
(***************************************************************************)
IntervalIsAsConfigured ==
  step = "running" =>
    /\ env.interval = Unset => config.interval = 30 * 1000
    /\ env.interval # Unset /\ PlainNumber(env.interval) =>
         LET n == env.interval.parts[1].number
         IN  config.interval = 1000 * (IF env.interval.negative THEN - n ELSE n)

(***************************************************************************)
(* Reconcile lists by both indexes (route_controller.go:67, 109): whenever *)
(* the process gets to run, after whatever failed attempts, both are       *)
(* registered in this process, and a gateway and a namespace are known.    *)
(***************************************************************************)
RunsOnlyWhenSetUp ==
  step = "running" => /\ indexes = Indexes
                      /\ config.gateway # Unset
                      /\ config.namespace # Unset

Startable ==
  /\ env.gateway # Unset
  /\ env.namespace # Unset
  /\ \/ env.interval = Unset
     \/ /\ PlainNumber(env.interval)
        /\ env.interval.parts[1].number * 1000 <= MaxDuration

(***************************************************************************)
(* Once calls stop failing, a controller with both variables set and an    *)
(* interval that is a number in range, or none, runs for good: no start-up *)
(* error leaves a half-started process behind, and none is final.          *)
(***************************************************************************)
ComesUp == <>[](Startable => step = "running")

-----------------------------------------------------------------------------
(********************************** Inputs *********************************)

Part(n, unit) == [number |-> n, unit |-> unit]

MCTexts ==
  [negative : BOOLEAN,
   parts : {<<>>}
           \cup {<<Part(n, u)>> : n \in {0, 1, 900, 1000000}, u \in {"", "ms", "s", "m"}}
           \cup {<<Part(1, "h"), Part(30, u)>> : u \in {"", "m", "h"}}]

MCEnvironments ==
  [gateway : {Unset, "", "ns/gateway"}, namespace : {Unset, "", "ns"},
   interval : {Unset} \cup MCTexts]

=============================================================================
