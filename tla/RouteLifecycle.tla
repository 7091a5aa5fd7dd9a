--------------------------- MODULE RouteLifecycle ----------------------------
(***************************************************************************)
(* What the route controller promises about each Route, without caches,    *)
(* work queue or API calls: the stages of a Route's life, which Services   *)
(* are provided for it at which stage, and when a VirtualService may stop  *)
(* listing it.  RouteController is shown to implement this.                *)
(***************************************************************************)
EXTENDS Naturals

CONSTANTS RouteNames, ServiceNames, VirtualServiceNames

VARIABLES
  stage,     \* per route: "absent", "open", "guarded" (finalizer) or "leaving"
  existing,  \* the Services that exist
  provided,  \* per Service: the stored route it is for, if any, as a set
  listed,    \* per VirtualService: the stored routes it lists
  losses     \* how many children others have deleted

serviceVars == <<existing, provided>>
vars == <<stage, serviceVars, listed, losses>>

Init ==
  /\ stage = [k \in RouteNames |-> "absent"]
  /\ existing = {}
  /\ provided = [s \in ServiceNames |-> {}]
  /\ listed = [n \in VirtualServiceNames |-> {}]
  /\ losses = 0

Move(k, from, to) ==
  /\ stage[k] = from
  /\ stage' = [stage EXCEPT ![k] = to]

Create(k) == Move(k, "absent", "open") /\ UNCHANGED <<serviceVars, listed, losses>>

Guard(k) == Move(k, "open", "guarded") /\ UNCHANGED <<serviceVars, listed, losses>>

Condemn(k) ==
  Move(k, "guarded", "leaving") /\ UNCHANGED <<serviceVars, listed, losses>>

\* The route is gone: no list has it any more, its Services are orphans.
Vanish(k) ==
  /\ Move(k, "open", "absent") \/ Move(k, "leaving", "absent")
  /\ provided' = [s \in ServiceNames |-> provided[s] \ {k}]
  /\ listed' = [n \in VirtualServiceNames |-> listed[n] \ {k}]
  /\ UNCHANGED <<existing, losses>>

\* Services are made only for routes that cannot vanish unnoticed.
Provide(s, k) ==
  /\ stage[k] \in {"guarded", "leaving"}
  /\ existing' = existing \cup {s}
  /\ provided' = [provided EXCEPT ![s] = {k}]
  /\ UNCHANGED <<stage, listed, losses>>

Remove(s) ==
  /\ existing' = existing \ {s}
  /\ provided' = [provided EXCEPT ![s] = {}]

Retract(s) == Remove(s) /\ UNCHANGED <<stage, listed, losses>>

\* A VirtualService is rewritten or deleted; only leaving routes drop out.
Publish(n, S) ==
  /\ \A k \in S : stage[k] # "absent"
  /\ \A k \in listed[n] \ S : stage[k] = "leaving"
  /\ listed' = [listed EXCEPT ![n] = S]
  /\ UNCHANGED <<stage, serviceVars, losses>>

\* Somebody else deletes a child.
Lose ==
  /\ losses' = losses + 1
  /\ UNCHANGED stage
  /\ \/ /\ \E s \in ServiceNames : Remove(s)
        /\ UNCHANGED listed
     \/ /\ \E n \in VirtualServiceNames : listed' = [listed EXCEPT ![n] = {}]
        /\ UNCHANGED serviceVars

Next ==
  \/ \E k \in RouteNames : Create(k) \/ Guard(k) \/ Condemn(k) \/ Vanish(k)
  \/ \E s \in ServiceNames : Retract(s) \/ \E k \in RouteNames : Provide(s, k)
  \/ \E n \in VirtualServiceNames, S \in SUBSET RouteNames : Publish(n, S)
  \/ Lose

Spec == Init /\ [][Next]_vars

=============================================================================
