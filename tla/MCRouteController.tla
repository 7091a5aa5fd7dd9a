-------------------------- MODULE MCRouteController --------------------------
(***************************************************************************)
(* Small clusters for RouteController.                                     *)
(***************************************************************************)
EXTENDS RouteController

MCGateways == <<"istio-ingressgateway">>

Destination(guid) == [guid |-> guid, app |-> "app", weight |-> NoWeight]

MCSpec(host, path, guids) ==
  [host |-> <<host>>, domain |-> <<"d">>, path |-> path, internal |-> FALSE,
   destinations |-> [i \in DOMAIN guids |-> Destination(guids[i])]]

\* Two routes of one FQDN, "b" without a destination of its own.
SharedFQDN ==
  [k \in {"a", "b"} |-> IF k = "a" THEN {MCSpec("h", <<1>>, <<"a1">>)}
                        ELSE {MCSpec("h", <<>>, <<>>)}]

\* One route with one destination.
LoneRoute == [k \in {"a"} |-> {MCSpec("h", <<>>, <<"a1">>)}]

\* One route that moves between destinations, and at times has two.
MovingRoute ==
  [k \in {"a"} |-> {MCSpec("h", <<1>>, <<"a1">>), MCSpec("h", <<1>>, <<"a2">>),
                    MCSpec("h", <<1>>, <<"a2", "a1">>)}]

(***************************************************************************)
(* Route "a" may be stored with weights that do not sum to 100.  Route "b" *)
(* has an FQDN of its own, or shares that of "a" with or without weights   *)
(* that are wrong.                                                         *)
(***************************************************************************)
MixedFQDNs ==
  LET a == MCSpec("h", <<1>>, <<"a1">>)
      b == MCSpec("h", <<>>, <<"b1">>)
  IN  [k \in {"a", "b"} |->
         IF k = "a" THEN {a, [a EXCEPT !.destinations[1].weight = 60]}
         ELSE {MCSpec("h", <<>>, <<>>), [b EXCEPT !.destinations[1].weight = 60],
               MCSpec("g", <<>>, <<"b1">>)}]

\* Routes of one FQDN, where "b" has weights that do not sum to 100.
InvalidSibling ==
  [k \in {"a", "b"} |->
     IF k = "a" THEN {MCSpec("h", <<1>>, <<"a1">>)}
     ELSE {[MCSpec("h", <<>>, <<"b1">>) EXCEPT !.destinations[1].weight = 60]}]

Bounds(user, evict, fault, crash, sync) ==
  [e \in Events |-> CASE e = "user" -> user
                      [] e = "evict" -> evict
                      [] e = "fault" -> fault
                      [] e = "crash" -> crash
                      [] OTHER -> sync]

ThreeChanges == {Bounds(3, 0, 0, 0, 0)}
ThreeChangesFault == {Bounds(3, 0, 1, 0, 0)}
TwoChangesAnything == {Bounds(2, 1, 1, 1, 1)}
ThreeChangesAnyFault == {Bounds(3, 1, 1, 1, 0)}
TwoChangesOrTrouble ==
  {Bounds(2, 0, 0, 0, 0), Bounds(1, 0, 1, 1, 0), Bounds(1, 0, 0, 0, 1)}

=============================================================================
