------------------------------ MODULE Handover -------------------------------
(***************************************************************************)
(* Two controller managers during a rolling update of the Deployment, with *)
(* leader election on (main.go:48-76): the old one is the RouteController  *)
(* of the plain variables, the new one a second copy with watches, caches, *)
(* queue and worker of its own on the same API.                            *)
(*                                                                         *)
(* The new manager starts its caches before it has the lease, so it may    *)
(* take over with a cache that lags behind what the old one has written.   *)
(* The lease does not fence writes: an old leader that was held up does    *)
(* not know it has lost the lease until it tries to renew it, and then     *)
(* Start returns an error and the process exits (main.go:92-95).           *)
(*                                                                         *)
(*   phase      old manager        new manager                             *)
(*   alone      leads              not started                             *)
(*   standby    leads              caches follow the API                   *)
(*   overlap    believes to lead   leads                                   *)
(*   vacant     gone               caches follow the API                   *)
(*   replaced   gone               leads                                   *)
(***************************************************************************)
EXTENDS RouteController

\* Whether a leader without a lease goes on to take names from its queue, or
\* at most ends the reconciliation it is in (a bound on the overlap).
CONSTANT Overdue

ASSUME HandoverAssumption == Overdue \in BOOLEAN

VARIABLES
  phase,
  newRouteEvents, newRouteCache, newServiceEvents, newServiceCache,
  newVsEvents, newVsCache,
  newQueue, newResync, newPc, newRoute, newRouteList, newApplied, newCondemned

New == INSTANCE RouteController WITH
  routeEvents <- newRouteEvents, routeCache <- newRouteCache,
  serviceEvents <- newServiceEvents, serviceCache <- newServiceCache,
  vsEvents <- newVsEvents, vsCache <- newVsCache,
  queue <- newQueue, resync <- newResync, pc <- newPc, route <- newRoute,
  routeList <- newRouteList, applied <- newApplied, condemned <- newCondemned

apiVars == <<routes, services, virtualServices, revision, spent>>
oldMemory == <<routeCache, serviceCache, vsCache, queue, resync, workerVars>>
oldStreams == <<routeEvents, serviceEvents, vsEvents>>
newMemory == <<newRouteCache, newServiceCache, newVsCache, newQueue, newResync,
               newPc, newRoute, newRouteList, newApplied, newCondemned>>
newStreams == <<newRouteEvents, newServiceEvents, newVsEvents>>
handoverVars == <<phase, apiVars, oldMemory, oldStreams, newMemory, newStreams>>

OldUp == phase \in {"alone", "standby", "overlap"}
OldLeads == phase \in {"alone", "standby"}
NewUp == phase # "alone"
NewLeads == phase \in {"overlap", "replaced"}

\* The other manager's watch of "stored" carries what this step writes.
Watch(stored, events) ==
  /\ events' = [x \in DOMAIN stored |-> IF stored'[x] = stored[x] THEN events[x]
                                        ELSE Append(events[x], stored'[x])]
  /\ \A x \in DOMAIN stored : Len(events'[x]) <= MaxLag

\* VirtualServices have no index: their watch starts with the first reader.
NewWatches ==
  /\ IF NewUp THEN Watch(routes, newRouteEvents) /\ Watch(services, newServiceEvents)
     ELSE UNCHANGED <<newRouteEvents, newServiceEvents>>
  /\ IF NewLeads THEN Watch(virtualServices, newVsEvents)
     ELSE UNCHANGED newVsEvents

OldWatches ==
  IF OldUp THEN /\ Watch(routes, routeEvents)
                /\ Watch(services, serviceEvents)
                /\ Watch(virtualServices, vsEvents)
  ELSE UNCHANGED oldStreams

OldDoes(A) == OldUp /\ A /\ NewWatches /\ UNCHANGED <<phase, newMemory>>

NewDoes(A) == A /\ OldWatches /\ UNCHANGED <<phase, oldMemory>>

-----------------------------------------------------------------------------
(****************************** The new manager ****************************)

\* main up to mgr.Start: the indexed caches are filled, no lease yet.
StartNew ==
  /\ phase = "alone"
  /\ phase' = "standby"
  /\ newRouteCache' = routes
  /\ newServiceCache' = services
  /\ UNCHANGED <<apiVars, oldMemory, oldStreams, newStreams, newVsCache, newQueue,
                 newResync, newPc, newRoute, newRouteList, newApplied, newCondemned>>

\* A standby's caches follow the API, but no controller listens.
StandbyReceives(k) ==
  /\ phase \in {"standby", "vacant"}
  /\ New!ReceiveRoute(k)
  /\ UNCHANGED <<phase, oldMemory, oldStreams, newQueue, newResync, newPc,
                 newRoute, newRouteList, newApplied, newCondemned>>

\* Mutant: only what changes from now on is looked at.
TakeOverIdle ==
  /\ phase \in {"standby", "vacant"}
  /\ phase' = IF phase = "standby" THEN "overlap" ELSE "replaced"
  /\ newVsCache' = virtualServices
  /\ newVsEvents' = [n \in VirtualServiceNames |-> <<>>]
  /\ UNCHANGED <<apiVars, oldMemory, oldStreams, newRouteEvents, newServiceEvents,
                 newRouteCache, newServiceCache, newQueue, newResync, newPc,
                 newRoute, newRouteList, newApplied, newCondemned>>

(***************************************************************************)
(* The new manager gets the lease and starts the controller, which finds   *)
(* every Route of its cache as new.                                        *)
(***************************************************************************)
TakeOver ==
  /\ phase \in {"standby", "vacant"}
  /\ phase' = IF phase = "standby" THEN "overlap" ELSE "replaced"
  /\ newQueue' = {k \in RouteNames : newRouteCache[k] # Absent}
  /\ newVsCache' = virtualServices
  /\ newVsEvents' = [n \in VirtualServiceNames |-> <<>>]
  /\ UNCHANGED <<apiVars, oldMemory, oldStreams, newRouteEvents, newServiceEvents,
                 newRouteCache, newServiceCache, newResync, newPc, newRoute,
                 newRouteList, newApplied, newCondemned>>

\* The old process ends, wherever its worker is; nobody watches for it.
OldExits ==
  /\ phase \in {"standby", "overlap"}
  /\ phase' = IF phase = "standby" THEN "vacant" ELSE "replaced"
  /\ routeEvents' = [k \in RouteNames |-> <<>>]
  /\ serviceEvents' = [s \in ServiceNames |-> <<>>]
  /\ vsEvents' = [n \in VirtualServiceNames |-> <<>>]
  /\ routeCache' = [k \in RouteNames |-> Absent]
  /\ serviceCache' = [s \in ServiceNames |-> Absent]
  /\ vsCache' = [n \in VirtualServiceNames |-> Absent]
  /\ queue' = {}
  /\ resync' = {}
  /\ Idle
  /\ UNCHANGED <<apiVars, newMemory, newStreams>>

-----------------------------------------------------------------------------

HandoverInit ==
  /\ Init
  /\ New!Init
  /\ phase = "alone"

\* What goes on around the managers, seen by whichever is up.
Surroundings ==
  \/ OldDoes(Environment)
  \/ ~ OldUp /\ NewDoes(New!Environment)
  \/ OldUp /\ NewUp /\ NewDoes(New!Unnoticed /\
       \/ \E s \in ServiceNames : New!ReceiveService(s)
       \/ \E n \in VirtualServiceNames : New!ReceiveVirtualService(n))

OldTakesNames == phase # "overlap" \/ Overdue

\* A leader that crashes may lead again once it is restarted; an old manager
\* that does not get the lease back is as good as gone (OldExits).
OldWorks ==
  \/ \E k \in RouteNames :
       \/ OldTakesNames /\ OldDoes(Get(k) \/ Resync(k) \/ Redeliver(k))
       \/ OldDoes(DeliverRoute(k))
  \/ OldDoes(Reconcile \/ Abort)
  \/ OldLeads /\ OldDoes(Crash)

NewWorks ==
  /\ NewLeads
  /\ \/ \E k \in RouteNames :
          NewDoes(New!Get(k) \/ New!Resync(k) \/ New!Redeliver(k) \/ New!DeliverRoute(k))
     \/ NewDoes(New!Reconcile \/ New!Abort \/ New!Crash)

HandoverNext ==
  \/ Surroundings
  \/ OldWorks
  \/ NewWorks
  \/ StartNew
  \/ \E k \in RouteNames : StandbyReceives(k)
  \/ TakeOver
  \/ OldExits

HandoverSpec == HandoverInit /\ [][HandoverNext]_handoverVars

(***************************************************************************)
(* Both managers are as fair as RouteController; a lease that is not       *)
(* renewed expires, and a process that lost it exits.  Whether there is a  *)
(* rolling update at all is left open.                                     *)
(***************************************************************************)
HandoverFairness ==
  /\ WF_handoverVars(OldDoes(Reconcile))
  /\ WF_handoverVars(NewLeads /\ NewDoes(New!Reconcile))
  /\ \A k \in RouteNames :
       /\ SF_handoverVars(OldTakesNames /\ OldDoes(Get(k)))
       /\ WF_handoverVars(OldTakesNames /\ OldDoes(Resync(k)))
       /\ WF_handoverVars(OldDoes(DeliverRoute(k)))
       /\ SF_handoverVars(NewLeads /\ NewDoes(New!Get(k)))
       /\ WF_handoverVars(NewLeads /\ NewDoes(New!Resync(k)))
       /\ WF_handoverVars(NewLeads /\ NewDoes(New!DeliverRoute(k)))
       /\ WF_handoverVars(StandbyReceives(k))
  /\ \A s \in ServiceNames :
       /\ WF_handoverVars(OldDoes(CollectService(s) /\ Unnoticed))
       /\ WF_handoverVars(OldDoes(ReceiveService(s) /\ Unnoticed))
       /\ WF_handoverVars(~ OldUp /\ NewDoes(New!CollectService(s) /\ New!Unnoticed))
       /\ WF_handoverVars(NewUp /\ NewDoes(New!ReceiveService(s) /\ New!Unnoticed))
  /\ \A n \in VirtualServiceNames :
       /\ WF_handoverVars(OldDoes(CollectVirtualService(n) /\ Unnoticed))
       /\ WF_handoverVars(OldDoes(ReceiveVirtualService(n) /\ Unnoticed))
       /\ WF_handoverVars(~ OldUp /\ NewDoes(New!CollectVirtualService(n) /\ New!Unnoticed))
       /\ WF_handoverVars(NewUp /\ NewDoes(New!ReceiveVirtualService(n) /\ New!Unnoticed))
  /\ WF_handoverVars(phase = "vacant" /\ TakeOver)
  /\ WF_handoverVars(phase = "overlap" /\ OldExits)

FairHandover == HandoverSpec /\ HandoverFairness

-----------------------------------------------------------------------------
(******************************** Properties *******************************)

(***************************************************************************)
(* No stored Route falls between two managers: the one that leads, or the  *)
(* one that will, has it queued, timed, under way or at least in a cache   *)
(* from which TakeOver queues it, wherever the old one was stopped.        *)
(***************************************************************************)
NoRouteLostInHandover ==
  \A k \in RouteNames :
    routes[k] # Absent =>
      CASE phase \in {"alone", "standby"} -> WillBeReconciled(k)
        [] phase = "vacant" -> newRouteCache[k] # Absent \/ newRouteEvents[k] # <<>>
        [] OTHER -> New!WillBeReconciled(k)

=============================================================================
