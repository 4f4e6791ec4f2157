-------------------------- MODULE PluginWorkloads --------------------------
(***************************************************************************)
(* JellyfinPluginReconciler for one JellyfinPlugin: the finalizer, the     *)
(* companion Deployments and Service it keeps, pruning, status, and the    *)
(* draining teardown.                                                      *)
(*                                                                         *)
(* A pass is split at its API calls. Reads come from informer caches that  *)
(* may lag; an update of an object carries the resource version of the     *)
(* copy it was made from, so it is refused unless that copy is current     *)
(* (two equal copies need no distinguishing: the write is the same). A     *)
(* pass runs only when the plugin's key is in the work queue, where watch  *)
(* events, errors and RequeueAfter put it. Every workload has one replica. *)
(* The Deployment controller and the garbage collector are external.       *)
(***************************************************************************)
EXTENDS Naturals, FiniteSets

CONSTANTS Workloads,   \* names of companion workloads
          DeclaresService, \* spec.services has an entry, which targets the instance
          FirstBindings, \* what may be found for the plugin when it is created
          MaxEdits,    \* bound: edits of the plugin and of its instance by users
          MaxFaults    \* bound: failed calls and operator restarts

\* What boundInstance and validateABI find. "unbound": no targetAbi and no
\* instance. A plugin with a targetAbi and no instance is incompatible.
Bindings == {"compatible", "incompatible", "unbound"}

ASSUME WorkloadsAssumption ==
  /\ IsFiniteSet(Workloads) /\ FirstBindings \subseteq Bindings
  /\ DeclaresService \in BOOLEAN
  /\ MaxEdits \in Nat /\ MaxFaults \in Nat

VARIABLES
  plugin,      \* the JellyfinPlugin at the API server
  pluginCache, \* the informer cache's copy
  binding,     \* what boundInstance and validateABI find
  deps,        \* the companion Deployments at the API server
  depCache,    \* the informer cache's copies
  pods,        \* workloads with a running pod
  service,     \* the companion Service exists
  pass,        \* the reconcile pass under way
  queued,      \* the plugin's key is in the work queue
  reported,    \* history: known workloads with a reported pod when deletion was asked for
  edits, faults

vars == <<plugin, pluginCache, binding, deps, depCache, pods, service, pass,
          queued, reported, edits, faults>>

----------------------------------------------------------------------------
(* Data *)

Phases == {"none", "Failed", "Pending", "WorkloadsReady", "Loaded"}
Plugin == [life : {"live", "deleting", "gone"}, finalizer : BOOLEAN,
           workloads : SUBSET Workloads, phase : Phases]

\* spec.replicas, and status.replicas as last reported by its controller.
Deployment == [exists : BOOLEAN, replicas : 0..1, status : 0..1]
NoDeployment == [exists |-> FALSE, replicas |-> 0, status |-> 0]
NewDeployment == [exists |-> TRUE, replicas |-> 1, status |-> 0]

Pass == [pc : {"idle", "finalizer", "apply", "prune", "services", "drain", "delete"},
         p : Plugin, jf : Bindings, todo : SUBSET Workloads, draining : BOOLEAN]
NoPlugin == [life |-> "gone", finalizer |-> FALSE, workloads |-> {}, phase |-> "none"]
IdlePass == [pc |-> "idle", p |-> NoPlugin, jf |-> "unbound", todo |-> {},
             draining |-> FALSE]

Init ==
  /\ plugin \in [life : {"live"}, finalizer : {FALSE}, workloads : SUBSET Workloads,
                 phase : {"none"}]
  /\ pluginCache = plugin
  /\ binding \in FirstBindings
  /\ deps = [w \in Workloads |-> NoDeployment]
  /\ depCache = deps
  /\ pods = {}
  /\ service = FALSE
  /\ pass = IdlePass
  /\ queued = TRUE
  /\ reported = {}
  /\ edits = 0 /\ faults = 0

----------------------------------------------------------------------------
(* How a pass ends *)

Done(again) ==
  /\ pass' = IdlePass
  /\ queued' = (queued \/ again)

\* An error puts the key back, with backoff.
Fail == Done(TRUE)

GoTo(pc, todo) ==
  /\ pass' = [pass EXCEPT !.pc = pc, !.todo = todo]
  /\ UNCHANGED queued

----------------------------------------------------------------------------
(* Reconcile *)

\* boundInstance and validateABI, for the copy p; an incompatible plugin gets a
\* status and nothing else.
Validated(p) ==
  pass' = [pc |-> IF binding = "incompatible" THEN "services" ELSE "apply",
           p |-> p, jf |-> binding,
           todo |-> IF binding = "incompatible" THEN {} ELSE p.workloads,
           draining |-> FALSE]

\* Mutant: the finalizer is not added before the workloads.
StartWithoutFinalizer ==
  /\ pass.pc = "idle" /\ queued
  /\ queued' = FALSE
  /\ LET p == pluginCache IN
       \/ /\ p.life = "gone" \/ (p.life = "deleting" /\ ~p.finalizer)
          /\ UNCHANGED pass
       \/ /\ p.life = "deleting" /\ p.finalizer
          /\ pass' = [pass EXCEPT !.pc = "drain", !.p = p, !.todo = p.workloads]
       \/ /\ p.life = "live"
          /\ Validated(p)
  /\ UNCHANGED <<plugin, pluginCache, binding, deps, depCache, pods, service,
                 reported, edits, faults>>

Start ==
  /\ pass.pc = "idle" /\ queued
  /\ queued' = FALSE
  /\ LET p == pluginCache IN
       \/ /\ p.life = "gone" \/ (p.life = "deleting" /\ ~p.finalizer)
          /\ UNCHANGED pass
       \/ /\ p.life = "deleting" /\ p.finalizer
          /\ pass' = [pass EXCEPT !.pc = "drain", !.p = p, !.todo = p.workloads]
       \/ /\ p.life = "live" /\ ~p.finalizer
          /\ pass' = [pass EXCEPT !.pc = "finalizer", !.p = p]
       \/ /\ p.life = "live" /\ p.finalizer
          /\ Validated(p)
  /\ UNCHANGED <<plugin, pluginCache, binding, deps, depCache, pods, service,
                 reported, edits, faults>>

AddFinalizer ==
  /\ pass.pc = "finalizer"
  /\ IF plugin = pass.p
     THEN /\ plugin' = [plugin EXCEPT !.finalizer = TRUE]
          /\ Validated(plugin')
          /\ UNCHANGED queued
     ELSE UNCHANGED plugin /\ Fail
  /\ UNCHANGED <<pluginCache, binding, deps, depCache, pods, service, reported,
                 edits, faults>>

\* CreateOrUpdate of a workload's Deployment: create what the cache does not
\* have, update what it has. The template always differs from the stored one by
\* the API server's defaults, so an update is always sent.
ApplyWorkload(w) ==
  /\ pass.pc = "apply" /\ w \in pass.todo
  /\ LET absent == ~depCache[w].exists IN
       IF IF absent THEN ~deps[w].exists ELSE deps[w] = depCache[w]
       THEN /\ deps' = [deps EXCEPT ![w] = IF absent THEN NewDeployment
                                           ELSE [deps[w] EXCEPT !.replicas = 1]]
            /\ GoTo("apply", pass.todo \ {w})
       ELSE UNCHANGED deps /\ Fail
  /\ UNCHANGED <<plugin, pluginCache, binding, depCache, pods, service, reported,
                 edits, faults>>

\* pruneWorkloads lists this plugin's Deployments in the cache; those that are
\* not desired are deleted one by one.
Undesired(p) == {w \in Workloads : depCache[w].exists} \ p.workloads

ListWorkloads ==
  /\ pass.pc = "apply" /\ pass.todo = {}
  /\ GoTo("prune", Undesired(pass.p))
  /\ UNCHANGED <<plugin, pluginCache, binding, deps, depCache, pods, service,
                 reported, edits, faults>>

\* Delete names the Deployment and ignores NotFound: its age does not matter.
DeleteDeployment(w) ==
  /\ deps' = [deps EXCEPT ![w] = NoDeployment]
  /\ reported' = reported \ {w}

PruneWorkload(w) ==
  /\ pass.pc = "prune" /\ w \in pass.todo
  /\ DeleteDeployment(w)
  /\ GoTo("prune", pass.todo \ {w})
  /\ UNCHANGED <<plugin, pluginCache, binding, depCache, pods, service, edits, faults>>

\* reconcileServices: the Service cannot be built for a plugin without an
\* instance, which fails the pass before its status. Nothing deletes a Service.
ReconcileServices ==
  /\ pass.pc = "prune" /\ pass.todo = {}
  /\ IF DeclaresService /\ pass.jf = "unbound"
     THEN UNCHANGED service /\ Fail
     ELSE /\ service' = (service \/ DeclaresService)
          /\ GoTo("services", {})
  /\ UNCHANGED <<plugin, pluginCache, binding, deps, depCache, pods, reported,
                 edits, faults>>

\* The replicas of the declared workloads, wanted and ready, over all of them.
Wanted(p) == Cardinality({w \in p.workloads : depCache[w].replicas = 1})
Ready(p) == Cardinality({w \in p.workloads : depCache[w].status = 1})
WorkloadsReady(p) == p.workloads = {} \/ (Wanted(p) > 0 /\ Ready(p) >= Wanted(p))

\* updateStatus, for what was bound and the copy p.
StatusPhase(jf, p) ==
  CASE jf = "incompatible" -> "Failed"
    [] jf = "unbound" -> "Pending"
    [] OTHER -> IF WorkloadsReady(p) THEN "Loaded" ELSE "WorkloadsReady"

UpdateStatus ==
  /\ pass.pc = "services"
  /\ IF plugin = pass.p
     THEN plugin' = [plugin EXCEPT !.phase = StatusPhase(pass.jf, pass.p)] /\ Done(FALSE)
     ELSE UNCHANGED plugin /\ Fail
  /\ UNCHANGED <<pluginCache, binding, deps, depCache, pods, service, reported,
                 edits, faults>>

----------------------------------------------------------------------------
(* finalize *)

\* Mutant: one replica less in every pass, instead of none.
DrainWorkloadByOne(w) ==
  /\ pass.pc = "drain" /\ w \in pass.todo
  /\ LET d == depCache[w]
         step == pass' = [pass EXCEPT !.todo = pass.todo \ {w},
                                      !.draining = pass.draining \/ d.status > 0]
     IN IF ~d.exists
        THEN UNCHANGED <<deps, queued>> /\ step
        ELSE IF deps[w] = d
        THEN /\ deps' = [deps EXCEPT ![w] = [deps[w] EXCEPT !.replicas = deps[w].replicas - 1]]
             /\ step /\ UNCHANGED queued
        ELSE UNCHANGED deps /\ Fail
  /\ UNCHANGED <<plugin, pluginCache, binding, depCache, pods, service, reported,
                 edits, faults>>

\* Mutant: the Deployment is scaled by a patch without a resource version.
DrainWorkloadUnversioned(w) ==
  /\ pass.pc = "drain" /\ w \in pass.todo
  /\ LET d == depCache[w]
         step == pass' = [pass EXCEPT !.todo = pass.todo \ {w},
                                      !.draining = pass.draining \/ d.status > 0]
     IN IF d.replicas = 0
        THEN UNCHANGED <<deps, queued>> /\ step
        ELSE /\ deps' = [deps EXCEPT ![w] = [deps[w] EXCEPT !.replicas = 0]]
             /\ step /\ UNCHANGED queued
  /\ UNCHANGED <<plugin, pluginCache, binding, depCache, pods, service, reported,
                 edits, faults>>

\* Mutant: a Deployment that is not found is an error.
DrainWorkloadMissingFails(w) ==
  /\ pass.pc = "drain" /\ w \in pass.todo
  /\ LET d == depCache[w]
         step == pass' = [pass EXCEPT !.todo = pass.todo \ {w},
                                      !.draining = pass.draining \/ d.status > 0]
     IN IF d.exists /\ d.replicas = 0
        THEN UNCHANGED <<deps, queued>> /\ step
        ELSE IF d.exists /\ deps[w] = d
        THEN /\ deps' = [deps EXCEPT ![w] = [deps[w] EXCEPT !.replicas = 0]]
             /\ step /\ UNCHANGED queued
        ELSE UNCHANGED deps /\ Fail
  /\ UNCHANGED <<plugin, pluginCache, binding, depCache, pods, service, reported,
                 edits, faults>>

\* The declared workload's Deployment is scaled to zero; replicas it still
\* reports make this pass end in RequeueAfter.
DrainWorkload(w) ==
  /\ pass.pc = "drain" /\ w \in pass.todo
  /\ LET d == depCache[w]
         step == pass' = [pass EXCEPT !.todo = pass.todo \ {w},
                                      !.draining = pass.draining \/ d.status > 0]
     IN IF d.replicas = 0
        THEN UNCHANGED <<deps, queued>> /\ step
        ELSE IF deps[w] = d
        THEN /\ deps' = [deps EXCEPT ![w] = [deps[w] EXCEPT !.replicas = 0]]
             /\ step /\ UNCHANGED queued
        ELSE UNCHANGED deps /\ Fail
  /\ UNCHANGED <<plugin, pluginCache, binding, depCache, pods, service, reported,
                 edits, faults>>

Drained ==
  /\ pass.pc = "drain" /\ pass.todo = {}
  /\ IF pass.draining THEN Done(TRUE) ELSE GoTo("delete", pass.p.workloads)
  /\ UNCHANGED <<plugin, pluginCache, binding, deps, depCache, pods, service,
                 reported, edits, faults>>

DeleteWorkload(w) ==
  /\ pass.pc = "delete" /\ w \in pass.todo
  /\ DeleteDeployment(w)
  /\ GoTo("delete", pass.todo \ {w})
  /\ UNCHANGED <<plugin, pluginCache, binding, depCache, pods, service, edits, faults>>

\* Mutant: the finalizer is removed by a patch without a resource version.
RemoveFinalizerUnversioned ==
  /\ pass.pc = "delete" /\ pass.todo = {}
  /\ plugin' = NoPlugin /\ Done(FALSE)
  /\ UNCHANGED <<pluginCache, binding, deps, depCache, pods, service, reported,
                 edits, faults>>

\* Without its last finalizer the plugin is gone.
RemoveFinalizer ==
  /\ pass.pc = "delete" /\ pass.todo = {}
  /\ IF plugin = pass.p
     THEN plugin' = NoPlugin /\ Done(FALSE)
     ELSE UNCHANGED plugin /\ Fail
  /\ UNCHANGED <<pluginCache, binding, deps, depCache, pods, service, reported,
                 edits, faults>>

----------------------------------------------------------------------------
(* Faults, caches and queue *)

CallFails ==
  /\ pass.pc # "idle"
  /\ faults < MaxFaults /\ faults' = faults + 1
  /\ Fail
  /\ UNCHANGED <<plugin, pluginCache, binding, deps, depCache, pods, service,
                 reported, edits>>

\* A restarted operator lists everything anew and queues every plugin it finds.
Restart ==
  /\ faults < MaxFaults /\ faults' = faults + 1
  /\ Done(TRUE)
  /\ pluginCache' = plugin /\ depCache' = deps
  /\ UNCHANGED <<plugin, binding, deps, pods, service, reported, edits>>

PluginEvent ==
  /\ pluginCache # plugin
  /\ pluginCache' = plugin /\ queued' = TRUE
  /\ UNCHANGED <<plugin, binding, deps, depCache, pods, service, pass, reported,
                 edits, faults>>

\* Mutant: Deployments are not watched.
DeploymentEventUnwatched(w) ==
  /\ depCache[w] # deps[w]
  /\ depCache' = [depCache EXCEPT ![w] = deps[w]]
  /\ UNCHANGED <<plugin, pluginCache, binding, deps, pods, service, pass, queued, reported,
                 edits, faults>>

\* Owns(Deployment): an event of a Deployment queues its plugin.
DeploymentEvent(w) ==
  /\ depCache[w] # deps[w]
  /\ depCache' = [depCache EXCEPT ![w] = deps[w]] /\ queued' = TRUE
  /\ UNCHANGED <<plugin, pluginCache, binding, deps, pods, service, pass, reported,
                 edits, faults>>

----------------------------------------------------------------------------
(* Users *)

EditPlugin ==
  /\ plugin.life # "gone"
  /\ edits < MaxEdits /\ edits' = edits + 1
  /\ \E ws \in SUBSET Workloads :
       ws # plugin.workloads /\ plugin' = [plugin EXCEPT !.workloads = ws]
  /\ UNCHANGED <<pluginCache, binding, deps, depCache, pods, service, pass, queued,
                 reported, faults>>

\* Mutant: instances are not watched.
EditInstanceUnwatched ==
  /\ edits < MaxEdits /\ edits' = edits + 1
  /\ \E b \in Bindings \ {binding} : binding' = b
  /\ UNCHANGED <<plugin, pluginCache, deps, depCache, pods, service, pass, queued,
                 reported, faults>>

\* The instance appears, goes, or changes its image: mapInstanceToPlugins.
EditInstance ==
  /\ edits < MaxEdits /\ edits' = edits + 1
  /\ \E b \in Bindings \ {binding} : binding' = b
  /\ queued' = TRUE
  /\ UNCHANGED <<plugin, pluginCache, deps, depCache, pods, service, pass, reported,
                 faults>>

DeletePlugin ==
  /\ plugin.life = "live"
  /\ plugin' = IF plugin.finalizer THEN [plugin EXCEPT !.life = "deleting"] ELSE NoPlugin
  /\ reported' = {w \in Workloads : depCache[w].exists /\ deps[w].status = 1}
  /\ UNCHANGED <<pluginCache, binding, deps, depCache, pods, service, pass, queued,
                 edits, faults>>

----------------------------------------------------------------------------
(* The Deployment controller and the garbage collector *)

Runs(w) == deps[w].exists /\ deps[w].replicas = 1

ScalePods(w) ==
  /\ (w \in pods) # Runs(w)
  /\ pods' = IF Runs(w) THEN pods \cup {w} ELSE pods \ {w}
  /\ UNCHANGED <<plugin, pluginCache, binding, deps, depCache, service, pass, queued,
                 reported, edits, faults>>

ReportStatus(w) ==
  LET seen == IF w \in pods THEN 1 ELSE 0 IN
  /\ deps[w].exists /\ deps[w].status # seen
  /\ deps' = [deps EXCEPT ![w] = [deps[w] EXCEPT !.status = seen]]
  /\ UNCHANGED <<plugin, pluginCache, binding, depCache, pods, service, pass, queued,
                 reported, edits, faults>>

\* Objects whose owner is gone are deleted.
CollectDeployment(w) ==
  /\ plugin.life = "gone" /\ deps[w].exists
  /\ DeleteDeployment(w)
  /\ UNCHANGED <<plugin, pluginCache, binding, depCache, pods, service, pass, queued,
                 edits, faults>>

CollectService ==
  /\ plugin.life = "gone" /\ service
  /\ service' = FALSE
  /\ UNCHANGED <<plugin, pluginCache, binding, deps, depCache, pods, pass, queued,
                 reported, edits, faults>>

----------------------------------------------------------------------------

PassStep ==
  \/ Start \/ AddFinalizer \/ ListWorkloads \/ ReconcileServices \/ UpdateStatus
  \/ Drained \/ RemoveFinalizer
  \/ \E w \in Workloads :
       ApplyWorkload(w) \/ PruneWorkload(w) \/ DrainWorkload(w) \/ DeleteWorkload(w)

ClusterStep ==
  \/ PluginEvent \/ CollectService
  \/ \E w \in Workloads : DeploymentEvent(w) \/ CollectDeployment(w)

Next ==
  \/ PassStep \/ ClusterStep
  \/ \E w \in Workloads : ScalePods(w) \/ ReportStatus(w)
  \/ CallFails \/ Restart
  \/ EditPlugin \/ EditInstance \/ DeletePlugin

\* One worker takes the key when it is queued and no call blocks for ever;
\* informers deliver, and the cluster's controllers act. Users owe nothing.
Fairness ==
  /\ WF_vars(PassStep) /\ WF_vars(PluginEvent) /\ WF_vars(CollectService)
  /\ \A w \in Workloads :
       /\ WF_vars(DeploymentEvent(w)) /\ WF_vars(CollectDeployment(w))
       /\ WF_vars(ScalePods(w)) /\ WF_vars(ReportStatus(w))

Spec == Init /\ [][Next]_vars
FairSpec == Spec /\ Fairness

----------------------------------------------------------------------------
(* Properties *)

\* Every variable keeps its type.
TypeOK ==
  /\ plugin \in Plugin /\ pluginCache \in Plugin
  /\ binding \in Bindings
  /\ deps \in [Workloads -> Deployment] /\ depCache \in [Workloads -> Deployment]
  /\ pods \in SUBSET Workloads /\ reported \in SUBSET Workloads
  /\ service \in BOOLEAN /\ queued \in BOOLEAN
  /\ pass \in Pass
  /\ edits \in 0..MaxEdits /\ faults \in 0..MaxFaults

\* A live plugin with a companion Deployment has the finalizer, so no deletion,
\* at any point of any pass, gets round finalize.
FinalizerFirst ==
  plugin.life = "live" /\ (\E w \in Workloads : deps[w].exists) => plugin.finalizer

\* What makes it inductive: whoever holds a copy of the plugin with the
\* finalizer, the cache or a pass that creates Deployments, holds it of a plugin
\* that will not be seen alive without it again.
FinalizerStays ==
  pluginCache.finalizer \/ pass.pc = "apply" => (plugin.life = "live" => plugin.finalizer)

\* The teardown's own progress: what its loop has passed has no Deployment.
DeletedStaysDeleted ==
  pass.pc = "delete" => \A w \in pass.p.workloads \ pass.todo : ~deps[w].exists

\* finalize drops the finalizer only when none of the workloads the plugin
\* declares at that moment has a Deployment, whatever was edited meanwhile.
TeardownLeavesNothingDeclared ==
  [][plugin.life = "deleting" /\ plugin'.life = "gone" =>
       \A w \in plugin.workloads : ~deps[w].exists]_vars

\* A workload whose Deployment was in the operator's cache, with its pod reported
\* at the API server, when deletion was asked for has stopped before finalize
\* deletes the Deployment: neither a cached status that is out of date nor a
\* repeated or interrupted pass cuts the drain short.
ReportedPodsDrained ==
  [][\A w \in reported :
       pass.pc = "delete" /\ pass'.pc = "delete" /\ w \in pass.todo \ pass'.todo
         => w \notin pods]_vars

\* What makes it inductive. A Deployment is scaled down only once the operator
\* knows of the deletion, so that no pass scales it up again; until then a
\* reported pod keeps running.
ScaledDownInTeardown ==
  /\ pluginCache.life # "live" => plugin.life # "live"
  /\ pass.pc \in {"drain", "delete"} => pluginCache.life # "live"
  /\ \A w \in Workloads :
       \/ deps[w].exists /\ deps[w].replicas = 0
       \/ depCache[w].exists /\ depCache[w].replicas = 0
       => pluginCache.life # "live" /\ pass.pc \notin {"finalizer", "apply"}
StatusHonest ==
  \A w \in Workloads :
    /\ ~deps[w].exists => deps[w].status = 0
    /\ deps[w].exists /\ deps[w].replicas = 1 /\ deps[w].status = 1 => w \in pods
\* Both copies of a reported workload's Deployment show a pod, or that it was
\* scaled down, or, once it was, that the pod is gone; and the loops of finalize
\* have only passed the latter.
Stopped(w) == deps[w].replicas = 0 /\ w \notin pods
ReportedHonest ==
  \A w \in reported :
    /\ deps[w].exists /\ depCache[w].exists
    /\ deps[w].replicas = 1 => deps[w].status = 1
    /\ deps[w].replicas = 0 /\ deps[w].status = 0 => Stopped(w)
    /\ depCache[w].replicas = 0 => deps[w].replicas = 0
    /\ depCache[w].replicas = 0 /\ depCache[w].status = 0 => Stopped(w)
    /\ pass.pc = "drain" /\ ~pass.draining /\ w \in pass.p.workloads \ pass.todo => Stopped(w)
    /\ pass.pc = "delete" /\ w \in pass.todo => Stopped(w)

\* The operator has nothing to do and nothing to learn.
Quiet == pass.pc = "idle" /\ ~queued /\ pluginCache = plugin /\ depCache = deps

\* Reconcile forgets nothing: whenever the operator rests and the plugin is live,
\* the plugin has its finalizer, its Deployments are those of the workloads it
\* declares now, each at its replicas, its Service is there, and its phase tells
\* the truth about what is bound and about every workload, whatever order edits,
\* events, errors and restarts came in. (An incompatible plugin keeps what it
\* had.)
QuietMeansReconciled ==
  Quiet /\ plugin.life = "live" =>
    /\ plugin.finalizer
    /\ binding = "incompatible" => plugin.phase = "Failed"
    /\ binding = "unbound" => plugin.phase = "Pending"
    /\ binding = "compatible" =>
         plugin.phase = IF \A w \in plugin.workloads : deps[w].status = 1
                        THEN "Loaded" ELSE "WorkloadsReady"
    /\ binding # "incompatible" =>
         /\ \A w \in Workloads : deps[w].exists <=> w \in plugin.workloads
         /\ \A w \in plugin.workloads : deps[w].replicas = 1
         /\ DeclaresService => service /\ binding = "compatible"

\* A deletion completes, and leaves neither Deployment, pod nor Service behind.
TeardownCompletes ==
  plugin.life = "deleting" ~>
    plugin.life = "gone" /\ pods = {} /\ ~service /\ \A w \in Workloads : ~deps[w].exists

\* Users leave a bound and compatible plugin alone: its workloads run, no other
\* does, and its phase says so. (No event of the queue is lost.)
WorkloadsConverge ==
  <>[](plugin.life = "live" /\ binding = "compatible" =>
         /\ \A w \in Workloads : deps[w].exists <=> w \in plugin.workloads
         /\ pods = plugin.workloads
         /\ plugin.phase = "Loaded")
=============================================================================
