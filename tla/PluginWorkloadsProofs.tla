----------------------- MODULE PluginWorkloadsProofs -----------------------
(***************************************************************************)
(* Proofs about the plugin reconciler: types, that companion workloads     *)
(* never exist under a live plugin without the finalizer, that the         *)
(* finalizer goes only when nothing declared is left, that the teardown    *)
(* lets pods finish, and that an operator at rest has reconciled.          *)
(***************************************************************************)
EXTENDS PluginWorkloads, FiniteSetTheorems, TLAPS

\* The initial states are well typed.
LEMMA InitTypeOK == Init => TypeOK
  <1> SUFFICES ASSUME Init PROVE TypeOK
    OBVIOUS
  <1>1. plugin \in Plugin /\ pluginCache \in Plugin
    BY DEF Init, Plugin, Phases
  <1>2. deps \in [Workloads -> Deployment] /\ depCache \in [Workloads -> Deployment]
    BY DEF Init, Deployment, NoDeployment
  <1>3. pass \in Pass
    BY DEF Init, Pass, IdlePass, NoPlugin, Plugin, Phases, Bindings
  <1>4. binding \in Bindings /\ edits \in 0..MaxEdits /\ faults \in 0..MaxFaults
    BY WorkloadsAssumption DEF Init
  <1> QED
    BY <1>1, <1>2, <1>3, <1>4 DEF Init, TypeOK

\* The ways a pass ends or moves on keep the pass and the queue well typed.
LEMMA OutcomeTypes ==
  ASSUME TypeOK
  PROVE  /\ Fail => pass' \in Pass /\ queued' \in BOOLEAN
         /\ \A b \in BOOLEAN : Done(b) => pass' \in Pass /\ queued' \in BOOLEAN
         /\ \A pc \in {"apply", "prune", "services", "delete"}, todo \in SUBSET Workloads :
              GoTo(pc, todo) => pass' \in Pass /\ queued' \in BOOLEAN
         /\ \A p \in Plugin : Validated(p) => pass' \in Pass
  <1>1. IdlePass \in Pass
    BY DEF Pass, IdlePass, NoPlugin, Plugin, Phases, Bindings
  <1>2. ASSUME NEW b \in BOOLEAN, Done(b)
        PROVE  pass' \in Pass /\ queued' \in BOOLEAN
    BY <1>1, <1>2 DEF Done
  <1>3. ASSUME NEW pc \in {"apply", "prune", "services", "delete"},
               NEW todo \in SUBSET Workloads, GoTo(pc, todo)
        PROVE  pass' \in Pass /\ queued' \in BOOLEAN
    BY <1>3 DEF GoTo, TypeOK, Pass
  <1>4. ASSUME NEW p \in Plugin, Validated(p)
        PROVE  pass' \in Pass
    BY <1>4 DEF Validated, TypeOK, Pass, Plugin
  <1> QED
    BY <1>2, <1>3, <1>4 DEF Fail

\* Every step keeps the types.
LEMMA NextTypeOK == TypeOK /\ [Next]_vars => TypeOK'
  <1> SUFFICES ASSUME TypeOK, [Next]_vars PROVE TypeOK'
    OBVIOUS
  <1> USE WorkloadsAssumption
  <1>0. /\ NoPlugin \in Plugin /\ NoDeployment \in Deployment
        /\ NewDeployment \in Deployment
    BY DEF NoPlugin, Plugin, Phases, NoDeployment, NewDeployment, Deployment
  <1>1. CASE Start
    <2>1. pass' \in Pass
      <3>1. CASE UNCHANGED pass
        BY <3>1 DEF TypeOK
      <3>2. CASE pass' = [pass EXCEPT !.pc = "drain", !.p = pluginCache,
                                      !.todo = pluginCache.workloads]
        BY <3>2 DEF TypeOK, Pass, Plugin
      <3>3. CASE pass' = [pass EXCEPT !.pc = "finalizer", !.p = pluginCache]
        BY <3>3 DEF TypeOK, Pass
      <3>4. CASE Validated(pluginCache)
        BY <3>4, OutcomeTypes DEF TypeOK
      <3> QED
        BY <1>1, <3>1, <3>2, <3>3, <3>4 DEF Start
    <2> QED
      BY <1>1, <2>1 DEF Start, TypeOK
  <1>2. CASE AddFinalizer
    <2>1. plugin' \in Plugin
      BY <1>2 DEF AddFinalizer, TypeOK, Plugin
    <2>2. pass' \in Pass /\ queued' \in BOOLEAN
      BY <1>2, <2>1, OutcomeTypes DEF AddFinalizer, TypeOK
    <2> QED
      BY <1>2, <2>1, <2>2 DEF AddFinalizer, TypeOK
  <1>3. ASSUME NEW w \in Workloads, ApplyWorkload(w)
        PROVE  TypeOK'
    <2>1. deps' \in [Workloads -> Deployment]
      BY <1>3, <1>0 DEF ApplyWorkload, TypeOK, Deployment
    <2>2. pass.todo \ {w} \in SUBSET Workloads
      BY DEF TypeOK, Pass
    <2>3. pass' \in Pass /\ queued' \in BOOLEAN
      BY <1>3, <2>2, OutcomeTypes DEF ApplyWorkload
    <2> QED
      BY <1>3, <2>1, <2>3 DEF ApplyWorkload, TypeOK
  <1>4. CASE ListWorkloads
    <2>1. Undesired(pass.p) \in SUBSET Workloads
      BY DEF Undesired
    <2>2. pass' \in Pass /\ queued' \in BOOLEAN
      BY <1>4, <2>1, OutcomeTypes DEF ListWorkloads
    <2> QED
      BY <1>4, <2>2 DEF ListWorkloads, TypeOK
  <1>5. ASSUME NEW w \in Workloads, PruneWorkload(w) \/ DeleteWorkload(w)
        PROVE  TypeOK'
    <2>1. /\ deps' \in [Workloads -> Deployment] /\ reported' \in SUBSET Workloads
      BY <1>5, <1>0 DEF PruneWorkload, DeleteWorkload, DeleteDeployment, TypeOK
    <2>2. pass.todo \ {w} \in SUBSET Workloads
      BY DEF TypeOK, Pass
    <2>3. pass' \in Pass /\ queued' \in BOOLEAN
      BY <1>5, <2>2, OutcomeTypes DEF PruneWorkload, DeleteWorkload
    <2> QED
      BY <1>5, <2>1, <2>3 DEF PruneWorkload, DeleteWorkload, TypeOK
  <1>6. CASE ReconcileServices
    <2>1. pass' \in Pass /\ queued' \in BOOLEAN
      BY <1>6, OutcomeTypes DEF ReconcileServices
    <2>2. service' \in BOOLEAN
      BY <1>6 DEF ReconcileServices, TypeOK
    <2> QED
      BY <1>6, <2>1, <2>2 DEF ReconcileServices, TypeOK
  <1>7. CASE UpdateStatus
    <2>1. pass' \in Pass /\ queued' \in BOOLEAN
      BY <1>7, OutcomeTypes DEF UpdateStatus
    <2>2. StatusPhase(pass.jf, pass.p) \in Phases
      BY DEF StatusPhase, Phases
    <2>3. plugin' \in Plugin
      BY <1>7, <2>2 DEF UpdateStatus, TypeOK, Plugin
    <2> QED
      BY <1>7, <2>1, <2>3 DEF UpdateStatus, TypeOK
  <1>8. ASSUME NEW w \in Workloads, DrainWorkload(w)
        PROVE  TypeOK'
    <2>1. deps' \in [Workloads -> Deployment]
      BY <1>8 DEF DrainWorkload, TypeOK, Deployment
    <2>2. CASE pass' = [pass EXCEPT !.todo = pass.todo \ {w},
                                    !.draining = pass.draining \/ depCache[w].status > 0]
               /\ UNCHANGED queued
      BY <1>8, <2>1, <2>2 DEF DrainWorkload, TypeOK, Pass
    <2>3. CASE Fail
      BY <1>8, <2>1, <2>3, OutcomeTypes DEF DrainWorkload, TypeOK
    <2> QED
      BY <1>8, <2>2, <2>3 DEF DrainWorkload
  <1>9. CASE Drained
    <2>1. pass.p.workloads \in SUBSET Workloads
      BY DEF TypeOK, Pass, Plugin
    <2>2. pass' \in Pass /\ queued' \in BOOLEAN
      BY <1>9, <2>1, OutcomeTypes DEF Drained
    <2> QED
      BY <1>9, <2>2 DEF Drained, TypeOK
  <1>10. CASE RemoveFinalizer
    <2>1. pass' \in Pass /\ queued' \in BOOLEAN
      BY <1>10, OutcomeTypes DEF RemoveFinalizer
    <2> QED
      BY <1>10, <1>0, <2>1 DEF RemoveFinalizer, TypeOK
  <1>11. CASE CallFails
    BY <1>11, OutcomeTypes DEF CallFails, TypeOK
  <1>12. CASE Restart
    <2>1. pass' \in Pass /\ queued' \in BOOLEAN
      BY <1>12, OutcomeTypes DEF Restart
    <2> QED
      BY <1>12, <2>1 DEF Restart, TypeOK
  <1>13. CASE PluginEvent \/ CollectService
    BY <1>13 DEF PluginEvent, CollectService, TypeOK
  <1>14. ASSUME NEW w \in Workloads,
                DeploymentEvent(w) \/ CollectDeployment(w) \/ ScalePods(w) \/ ReportStatus(w)
         PROVE  TypeOK'
    <2>1. CASE DeploymentEvent(w)
      BY <2>1 DEF DeploymentEvent, TypeOK
    <2>2. CASE CollectDeployment(w)
      BY <2>2, <1>0 DEF CollectDeployment, DeleteDeployment, TypeOK
    <2>3. CASE ScalePods(w)
      BY <2>3 DEF ScalePods, TypeOK
    <2>4. CASE ReportStatus(w)
      BY <2>4 DEF ReportStatus, TypeOK, Deployment
    <2> QED
      BY <1>14, <2>1, <2>2, <2>3, <2>4
  <1>15. CASE EditPlugin
    BY <1>15 DEF EditPlugin, TypeOK, Plugin
  <1>16. CASE EditInstance
    BY <1>16 DEF EditInstance, TypeOK
  <1>17. CASE DeletePlugin
    <2>1. plugin' \in Plugin
      BY <1>17, <1>0 DEF DeletePlugin, TypeOK, Plugin
    <2> QED
      BY <1>17, <2>1 DEF DeletePlugin, TypeOK
  <1>18. CASE UNCHANGED vars
    BY <1>18 DEF vars, TypeOK
  <1> QED
    BY <1>1, <1>2, <1>3, <1>4, <1>5, <1>6, <1>7, <1>8, <1>9, <1>10, <1>11, <1>12,
       <1>13, <1>14, <1>15, <1>16, <1>17, <1>18 DEF Next, PassStep, ClusterStep

\* Type correctness of the plugin reconciler.
THEOREM TypeCorrect == Spec => []TypeOK
  BY InitTypeOK, NextTypeOK, PTL DEF Spec

\* Where a pass stands after it ends or moves on.
LEMMA OutcomePoints ==
  ASSUME TypeOK
  PROVE  /\ Fail => pass'.pc = "idle"
         /\ \A b : Done(b) => pass'.pc = "idle"
         /\ \A pc, todo : GoTo(pc, todo) =>
              pass'.pc = pc /\ pass'.todo = todo /\ pass'.p = pass.p
  <1>1. IdlePass.pc = "idle"
    BY DEF IdlePass
  <1>2. ASSUME NEW pc, NEW todo, GoTo(pc, todo)
        PROVE  pass'.pc = pc /\ pass'.todo = todo /\ pass'.p = pass.p
    BY <1>2 DEF GoTo, TypeOK, Pass
  <1> QED
    BY <1>1, <1>2 DEF Fail, Done

----------------------------------------------------------------------------
(* The finalizer *)

\* No step changes the plugin so that it is live without a finalizer it had.
LEMMA PluginSteps ==
  ASSUME TypeOK, [Next]_vars
  PROVE  (plugin.life = "live" => plugin.finalizer) =>
           (plugin'.life = "live" => plugin'.finalizer)
  <1> USE DEF TypeOK, Plugin
  <1>1. CASE AddFinalizer
    BY <1>1 DEF AddFinalizer
  <1>2. CASE UpdateStatus
    BY <1>2 DEF UpdateStatus
  <1>3. CASE RemoveFinalizer
    <2>1. plugin' = NoPlugin \/ plugin' = plugin
      BY <1>3 DEF RemoveFinalizer
    <2>2. NoPlugin.life # "live"
      BY DEF NoPlugin
    <2> QED
      BY <2>1, <2>2
  <1>4. CASE EditPlugin
    BY <1>4 DEF EditPlugin
  <1>5. CASE DeletePlugin
    BY <1>5 DEF DeletePlugin, NoPlugin
  <1>6. CASE UNCHANGED plugin
    BY <1>6
  <1> QED
    BY <1>1, <1>2, <1>3, <1>4, <1>5, <1>6
       DEF Next, PassStep, ClusterStep, vars, Start, ApplyWorkload, ListWorkloads,
           PruneWorkload, ReconcileServices, DrainWorkload, Drained, DeleteWorkload,
           CallFails, Restart, PluginEvent, DeploymentEvent, EditInstance, ScalePods,
           ReportStatus, CollectDeployment, CollectService

\* A Deployment comes to exist only in ApplyWorkload.
LEMMA OnlyApplyCreates ==
  ASSUME TypeOK, [Next]_vars, NEW w \in Workloads, deps'[w].exists
  PROVE  deps[w].exists \/ pass.pc = "apply"
  <1> USE DEF TypeOK, Deployment
  <1>1. CASE UNCHANGED deps
    BY <1>1
  <1>2. ASSUME NEW v \in Workloads, ApplyWorkload(v)
        PROVE  pass.pc = "apply"
    BY <1>2 DEF ApplyWorkload
  <1>3. ASSUME NEW v \in Workloads, DeleteDeployment(v)
        PROVE  deps[w].exists
    BY <1>3 DEF DeleteDeployment, NoDeployment
  <1>4. ASSUME NEW v \in Workloads, DrainWorkload(v)
        PROVE  deps[w].exists
    BY <1>4 DEF DrainWorkload
  <1>5. ASSUME NEW v \in Workloads, ReportStatus(v)
        PROVE  deps[w].exists
    BY <1>5 DEF ReportStatus
  <1> QED
    BY <1>1, <1>2, <1>3, <1>4, <1>5
       DEF Next, PassStep, ClusterStep, vars, Start, AddFinalizer, ListWorkloads,
           PruneWorkload, ReconcileServices, UpdateStatus, Drained, DeleteWorkload,
           RemoveFinalizer, CallFails, Restart, PluginEvent, DeploymentEvent, EditPlugin,
           EditInstance, DeletePlugin, ScalePods, CollectDeployment, CollectService

\* Whoever comes to hold a copy with the finalizer takes it from a plugin, or
\* from a cache, that has it.
LEMMA FinalizerStaysStep ==
  ASSUME TypeOK, [Next]_vars, FinalizerStays
  PROVE  FinalizerStays'
  <1> SUFFICES ASSUME pluginCache'.finalizer \/ pass'.pc = "apply",
                      ~(plugin'.life = "live" => plugin'.finalizer)
               PROVE  FALSE
    BY DEF FinalizerStays
  <1>0. ~(plugin.life = "live" => plugin.finalizer)
    BY PluginSteps
  <1>1. ~pluginCache.finalizer /\ pass.pc # "apply"
    BY <1>0 DEF FinalizerStays
  <1> USE DEF TypeOK, Plugin, Pass
  <1>2. CASE Start
    BY <1>0, <1>1, <1>2 DEF Start, Validated
  <1>3. CASE AddFinalizer
    <2>1. CASE plugin = pass.p
      BY <1>3, <2>1 DEF AddFinalizer
    <2>2. CASE plugin # pass.p
      BY <1>1, <1>3, <2>2 DEF AddFinalizer, Fail, Done, IdlePass
    <2> QED
      BY <2>1, <2>2
  <1>4. CASE Restart
    BY <1>0, <1>4 DEF Restart, Done, IdlePass
  <1>5. CASE PluginEvent
    BY <1>0, <1>1, <1>5 DEF PluginEvent
  <1>6. CASE UNCHANGED pluginCache /\ pass'.pc # "apply"
    BY <1>1, <1>6
  <1>7. CASE UNCHANGED <<pluginCache, pass>>
    BY <1>1, <1>7
  <1>8. CASE ListWorkloads \/ ReconcileServices \/ UpdateStatus \/ Drained
             \/ RemoveFinalizer \/ CallFails
    <2>1. UNCHANGED pluginCache
      BY <1>8 DEF ListWorkloads, ReconcileServices, UpdateStatus, Drained,
         RemoveFinalizer, CallFails
    <2>2. pass'.pc # "apply"
      BY <1>8, OutcomePoints DEF ListWorkloads, ReconcileServices, UpdateStatus, Drained,
         RemoveFinalizer, CallFails
    <2> QED
      BY <1>6, <2>1, <2>2
  <1>9. ASSUME NEW w \in Workloads,
               ApplyWorkload(w) \/ PruneWorkload(w) \/ DrainWorkload(w) \/ DeleteWorkload(w)
        PROVE  FALSE
    <2>1. UNCHANGED pluginCache
      BY <1>9 DEF ApplyWorkload, PruneWorkload, DrainWorkload, DeleteWorkload
    <2>2. CASE ApplyWorkload(w)
      BY <1>1, <2>2 DEF ApplyWorkload
    <2>3. CASE PruneWorkload(w) \/ DeleteWorkload(w)
      BY <1>6, <2>1, <2>3, OutcomePoints DEF PruneWorkload, DeleteWorkload
    <2>4. CASE DrainWorkload(w)
      <3>1. pass'.pc = "drain" \/ pass'.pc = "idle"
        BY <2>4, OutcomePoints DEF DrainWorkload
      <3> QED
        BY <1>6, <2>1, <3>1
    <2> QED
      BY <1>9, <2>2, <2>3, <2>4
  <1> QED
    BY <1>2, <1>3, <1>4, <1>5, <1>6, <1>7, <1>8, <1>9
       DEF Next, PassStep, ClusterStep, vars, DeploymentEvent, EditPlugin,
           EditInstance, DeletePlugin, ScalePods, ReportStatus, CollectDeployment,
           CollectService

\* The invariant behind FinalizerFirst holds throughout.
LEMMA FinalizerInvariant == Spec => [](TypeOK /\ FinalizerStays /\ FinalizerFirst)
  <1>1. Init => FinalizerStays /\ FinalizerFirst
    BY DEF Init, FinalizerStays, FinalizerFirst, IdlePass, NoDeployment
  <1>2. TypeOK /\ FinalizerStays /\ FinalizerFirst /\ [Next]_vars
          => FinalizerStays' /\ FinalizerFirst'
    <2> SUFFICES ASSUME TypeOK, FinalizerStays, FinalizerFirst, [Next]_vars
                 PROVE  FinalizerStays' /\ FinalizerFirst'
      OBVIOUS
    <2>1. FinalizerStays'
      BY FinalizerStaysStep
    <2>2. ASSUME NEW w \in Workloads, deps'[w].exists
          PROVE  plugin.life = "live" => plugin.finalizer
      BY <2>2, OnlyApplyCreates DEF FinalizerStays, FinalizerFirst
    <2>3. FinalizerFirst'
      BY <2>2, PluginSteps DEF FinalizerFirst
    <2> QED
      BY <2>1, <2>3
  <1> QED
    BY <1>1, <1>2, InitTypeOK, NextTypeOK, PTL DEF Spec

\* A live plugin with a companion Deployment always has the finalizer.
THEOREM FinalizerIsFirst == Spec => []FinalizerFirst
  BY FinalizerInvariant, PTL

----------------------------------------------------------------------------
(* The teardown *)

\* What finalize has deleted stays deleted while it goes on.
LEMMA DeletedStep ==
  ASSUME TypeOK, [Next]_vars, DeletedStaysDeleted
  PROVE  DeletedStaysDeleted'
  <1> SUFFICES ASSUME pass'.pc = "delete", NEW w \in pass'.p.workloads \ pass'.todo
               PROVE  ~deps'[w].exists
    BY DEF DeletedStaysDeleted
  <1> USE DEF TypeOK, Pass, Plugin
  <1>1. CASE Drained
    BY <1>1, OutcomePoints DEF Drained
  <1>2. ASSUME NEW v \in Workloads, DeleteWorkload(v)
        PROVE  ~deps'[w].exists
    <2>1. pass.pc = "delete" /\ w \in pass.p.workloads /\ (w = v \/ w \notin pass.todo)
      BY <1>2 DEF DeleteWorkload, GoTo
    <2>2. CASE w = v
      BY <1>2, <2>2 DEF DeleteWorkload, DeleteDeployment, NoDeployment
    <2>3. CASE w # v
      BY <1>2, <2>1, <2>3 DEF DeleteWorkload, DeleteDeployment, DeletedStaysDeleted
    <2> QED
      BY <2>2, <2>3
  <1>3. CASE UNCHANGED pass
    <2>1. pass.pc = "delete" /\ w \in Workloads /\ ~deps[w].exists
      BY <1>3 DEF DeletedStaysDeleted
    <2> QED
      BY <2>1, OnlyApplyCreates
  <1>4. CASE pass'.pc # "delete"
    BY <1>4
  <1>5. CASE Start \/ AddFinalizer \/ ListWorkloads \/ ReconcileServices \/ UpdateStatus
             \/ RemoveFinalizer \/ CallFails \/ Restart
    <2>1. CASE Start
      <3>1. pass' = pass \/ pass'.pc \in {"drain", "finalizer", "services", "apply"}
        <4>1. CASE pass' = [pass EXCEPT !.pc = "drain", !.p = pluginCache,
                                        !.todo = pluginCache.workloads]
          BY <4>1
        <4>2. CASE pass' = [pass EXCEPT !.pc = "finalizer", !.p = pluginCache]
          BY <4>2
        <4>3. CASE Validated(pluginCache)
          BY <4>3 DEF Validated
        <4> QED
          BY <2>1, <4>1, <4>2, <4>3 DEF Start
      <3> QED
        BY <1>3, <3>1
    <2>2. CASE AddFinalizer
      <3>1. pass'.pc # "delete"
        BY <2>2, OutcomePoints DEF AddFinalizer, Validated
      <3> QED
        BY <1>4, <3>1
    <2>3. CASE ListWorkloads \/ ReconcileServices \/ UpdateStatus \/ RemoveFinalizer
               \/ CallFails \/ Restart
      <3>1. pass'.pc \in {"prune", "services", "idle"}
        BY <2>3, OutcomePoints DEF ListWorkloads, ReconcileServices, UpdateStatus,
           RemoveFinalizer, CallFails, Restart
      <3> QED
        BY <3>1
    <2> QED
      BY <1>5, <2>1, <2>2, <2>3
  <1>6. ASSUME NEW v \in Workloads, ApplyWorkload(v) \/ PruneWorkload(v) \/ DrainWorkload(v)
        PROVE  pass'.pc # "delete"
    <2>1. CASE ApplyWorkload(v) \/ PruneWorkload(v)
      BY <2>1, OutcomePoints DEF ApplyWorkload, PruneWorkload
    <2>2. CASE DrainWorkload(v)
      <3>1. pass'.pc = "drain" \/ pass'.pc = "idle"
        BY <2>2, OutcomePoints DEF DrainWorkload
      <3> QED
        BY <3>1
    <2> QED
      BY <1>6, <2>1, <2>2
  <1> QED
    BY <1>1, <1>2, <1>3, <1>4, <1>5, <1>6
       DEF Next, PassStep, ClusterStep, vars, PluginEvent, DeploymentEvent, EditPlugin,
           EditInstance, DeletePlugin, ScalePods, ReportStatus, CollectDeployment,
           CollectService

\* finalize drops the finalizer only when no declared workload has a Deployment.
THEOREM TeardownIsComplete == Spec => TeardownLeavesNothingDeclared
  <1>1. Init => DeletedStaysDeleted
    BY DEF Init, DeletedStaysDeleted, IdlePass
  <1>2. ASSUME TypeOK, DeletedStaysDeleted, [Next]_vars,
               plugin.life = "deleting", plugin'.life = "gone",
               NEW w \in plugin.workloads
        PROVE  ~deps[w].exists
    <2> USE DEF TypeOK, Plugin
    <2>1. CASE RemoveFinalizer
      BY <1>2, <2>1 DEF RemoveFinalizer, DeletedStaysDeleted
    <2>2. CASE AddFinalizer \/ UpdateStatus \/ EditPlugin \/ DeletePlugin \/ UNCHANGED plugin
      BY <1>2, <2>2 DEF AddFinalizer, UpdateStatus, EditPlugin, DeletePlugin
    <2> QED
      BY <1>2, <2>1, <2>2
         DEF Next, PassStep, ClusterStep, vars, Start, ApplyWorkload, ListWorkloads,
             PruneWorkload, ReconcileServices, DrainWorkload, Drained, DeleteWorkload,
             CallFails, Restart, PluginEvent, DeploymentEvent, EditInstance, ScalePods,
             ReportStatus, CollectDeployment, CollectService
  <1>3. TypeOK /\ DeletedStaysDeleted /\ [Next]_vars =>
          [plugin.life = "deleting" /\ plugin'.life = "gone" =>
             \A w \in plugin.workloads : ~deps[w].exists]_vars
    BY <1>2
  <1>4. TypeOK /\ DeletedStaysDeleted /\ [Next]_vars => DeletedStaysDeleted'
    BY DeletedStep
  <1> QED
    BY <1>1, <1>3, <1>4, InitTypeOK, NextTypeOK, PTL DEF Spec, TeardownLeavesNothingDeclared

----------------------------------------------------------------------------
(* The drain *)

\* Deletion is not taken back, and the cache holds the plugin as it was or is.
LEMMA LifeSteps ==
  ASSUME TypeOK, [Next]_vars
  PROVE  /\ plugin.life # "live" => plugin'.life # "live"
         /\ pluginCache' \in {pluginCache, plugin}
  <1> USE DEF TypeOK, Plugin
  <1>1. plugin.life # "live" => plugin'.life # "live"
    <2>1. CASE AddFinalizer \/ UpdateStatus \/ EditPlugin
      BY <2>1 DEF AddFinalizer, UpdateStatus, EditPlugin
    <2>2. CASE RemoveFinalizer \/ DeletePlugin
      <3>1. NoPlugin.life # "live"
        BY DEF NoPlugin
      <3> QED
        BY <2>2, <3>1 DEF RemoveFinalizer, DeletePlugin
    <2>3. CASE UNCHANGED plugin
      BY <2>3
    <2> QED
      BY <2>1, <2>2, <2>3
         DEF Next, PassStep, ClusterStep, vars, Start, ApplyWorkload, ListWorkloads,
             PruneWorkload, ReconcileServices, DrainWorkload, Drained, DeleteWorkload,
             CallFails, Restart, PluginEvent, DeploymentEvent, EditInstance, ScalePods,
             ReportStatus, CollectDeployment, CollectService
  <1>2. pluginCache' \in {pluginCache, plugin}
    BY DEF Next, PassStep, ClusterStep, vars, Start, AddFinalizer, ApplyWorkload,
           ListWorkloads, PruneWorkload, ReconcileServices, UpdateStatus, DrainWorkload,
           Drained, DeleteWorkload, RemoveFinalizer, CallFails, Restart, PluginEvent,
           DeploymentEvent, EditPlugin, EditInstance, DeletePlugin, ScalePods,
           ReportStatus, CollectDeployment, CollectService
  <1> QED
    BY <1>1, <1>2

\* How a step may change the Deployment of one workload.
DepStep(w) ==
  \/ deps'[w] = deps[w]
  \/ deps'[w] = NoDeployment /\ w \notin reported' /\ pods' = pods
  \/ /\ pass.pc = "apply" /\ ~depCache[w].exists /\ ~deps[w].exists
     /\ deps'[w] = NewDeployment /\ pods' = pods
  \/ /\ pass.pc = "apply" /\ deps[w].exists
     /\ deps'[w] = [deps[w] EXCEPT !.replicas = 1] /\ pods' = pods
  \/ /\ pass.pc = "drain" /\ deps[w] = depCache[w] /\ deps[w].replicas # 0
     /\ deps'[w] = [deps[w] EXCEPT !.replicas = 0] /\ pods' = pods
  \/ /\ deps[w].exists
     /\ deps'[w] = [deps[w] EXCEPT !.status = IF w \in pods THEN 1 ELSE 0] /\ pods' = pods

\* No step changes it in another way.
LEMMA DepSteps ==
  ASSUME TypeOK, [Next]_vars, NEW w \in Workloads
  PROVE  DepStep(w)
  <1> USE DEF TypeOK, DepStep
  <1>1. CASE UNCHANGED deps
    BY <1>1
  <1>2. ASSUME NEW v \in Workloads, ApplyWorkload(v) PROVE DepStep(w)
    <2>1. CASE deps' = [deps EXCEPT ![v] = IF ~depCache[v].exists THEN NewDeployment
                                          ELSE [deps[v] EXCEPT !.replicas = 1]]
               /\ (IF ~depCache[v].exists THEN ~deps[v].exists ELSE deps[v] = depCache[v])
      BY <1>2, <2>1 DEF ApplyWorkload
    <2>2. CASE UNCHANGED deps
      BY <2>2
    <2> QED
      BY <1>2, <2>1, <2>2 DEF ApplyWorkload
  <1>3. ASSUME NEW v \in Workloads, DeleteDeployment(v), pods' = pods PROVE DepStep(w)
    BY <1>3 DEF DeleteDeployment
  <1>4. ASSUME NEW v \in Workloads, DrainWorkload(v) PROVE DepStep(w)
    <2>1. CASE /\ deps' = [deps EXCEPT ![v] = [deps[v] EXCEPT !.replicas = 0]]
               /\ deps[v] = depCache[v] /\ depCache[v].replicas # 0
      BY <1>4, <2>1 DEF DrainWorkload
    <2>2. CASE UNCHANGED deps
      BY <2>2
    <2> QED
      BY <1>4, <2>1, <2>2 DEF DrainWorkload
  <1>5. ASSUME NEW v \in Workloads, ReportStatus(v) PROVE DepStep(w)
    BY <1>5 DEF ReportStatus
  <1> QED
    BY <1>1, <1>2, <1>3, <1>4, <1>5
       DEF Next, PassStep, ClusterStep, vars, Start, AddFinalizer, ListWorkloads,
           PruneWorkload, ReconcileServices, UpdateStatus, Drained, DeleteWorkload,
           RemoveFinalizer, CallFails, Restart, PluginEvent, DeploymentEvent, EditPlugin,
           EditInstance, DeletePlugin, ScalePods, CollectDeployment, CollectService

\* The rest of what a step may do: the cached Deployment is kept or made current,
\* a pod starts only where it should run and stops only where it should not.
LEMMA CacheAndPodSteps ==
  ASSUME TypeOK, [Next]_vars, NEW w \in Workloads
  PROVE  /\ depCache'[w] = depCache[w] \/ (depCache'[w] = deps[w] /\ deps' = deps)
         /\ (w \in pods') # (w \in pods) => (w \in pods') = Runs(w) /\ deps' = deps
  <1> USE DEF TypeOK
  <1>1. CASE UNCHANGED <<depCache, pods>>
    BY <1>1
  <1>2. CASE Restart
    BY <1>2 DEF Restart
  <1>3. ASSUME NEW v \in Workloads, DeploymentEvent(v) PROVE
          /\ depCache'[w] = depCache[w] \/ (depCache'[w] = deps[w] /\ deps' = deps)
          /\ pods' = pods
    BY <1>3 DEF DeploymentEvent
  <1>4. ASSUME NEW v \in Workloads, ScalePods(v) PROVE
          /\ depCache' = depCache
          /\ (w \in pods') # (w \in pods) => (w \in pods') = Runs(w) /\ deps' = deps
    BY <1>4 DEF ScalePods, Runs
  <1> QED
    BY <1>1, <1>2, <1>3, <1>4
       DEF Next, PassStep, ClusterStep, vars, Start, AddFinalizer, ApplyWorkload,
           ListWorkloads, PruneWorkload, ReconcileServices, UpdateStatus, DrainWorkload,
           Drained, DeleteWorkload, RemoveFinalizer, CallFails, PluginEvent, EditPlugin,
           EditInstance, DeletePlugin, ReportStatus, CollectDeployment, CollectService

\* A pass turns to the teardown, or to the workloads, as the cache tells it.
LEMMA PassTurns ==
  ASSUME TypeOK, [Next]_vars
  PROVE  /\ pass'.pc \in {"drain", "delete"} =>
              \/ pass.pc \in {"drain", "delete"}
              \/ pluginCache.life # "live" /\ pluginCache' = pluginCache
         /\ pass'.pc \in {"finalizer", "apply"} =>
              \/ pass.pc \in {"finalizer", "apply"}
              \/ pluginCache.life = "live" /\ deps' = deps /\ depCache' = depCache
  <1>1. CASE UNCHANGED pass
    BY <1>1
  <1>2. CASE pass'.pc = "idle"
    BY <1>2
  <1>3. CASE Start
    <2>1. pluginCache.life = "deleting" =>
            UNCHANGED pass \/ pass'.pc = "drain"
      BY <1>3 DEF Start, TypeOK, Pass
    <2>2. pluginCache.life = "gone" => UNCHANGED pass
      BY <1>3 DEF Start
    <2>3. pluginCache.life = "live" => pass'.pc \in {"finalizer", "apply", "services"}
      <3>1. CASE pass' = [pass EXCEPT !.pc = "finalizer", !.p = pluginCache]
        BY <3>1 DEF TypeOK, Pass
      <3>2. CASE Validated(pluginCache)
        BY <3>2 DEF Validated
      <3> QED
        BY <1>3, <3>1, <3>2 DEF Start
    <2> QED
      BY <1>3, <2>1, <2>2, <2>3 DEF Start, TypeOK, Plugin
  <1>4. CASE AddFinalizer
    <2>1. CASE pass'.pc \in {"apply", "services"}
      BY <1>4, <2>1 DEF AddFinalizer
    <2> QED
      BY <1>2, <1>4, <2>1, OutcomePoints DEF AddFinalizer, Validated
  <1>5. ASSUME NEW w \in Workloads,
               ApplyWorkload(w) \/ PruneWorkload(w) \/ DeleteWorkload(w) \/ DrainWorkload(w)
        PROVE  pass'.pc \in {"idle", pass.pc}
    BY <1>5, OutcomePoints
       DEF ApplyWorkload, PruneWorkload, DeleteWorkload, DrainWorkload, TypeOK, Pass
  <1>6. CASE ListWorkloads \/ ReconcileServices \/ UpdateStatus
    <2>1. pass'.pc \in {"prune", "services", "idle"}
      <3>1. CASE ListWorkloads
        BY <3>1, OutcomePoints DEF ListWorkloads
      <3>2. CASE ReconcileServices
        BY <3>2, OutcomePoints DEF ReconcileServices
      <3>3. CASE UpdateStatus
        BY <3>3, OutcomePoints DEF UpdateStatus
      <3> QED
        BY <1>6, <3>1, <3>2, <3>3
    <2> QED
      BY <2>1
  <1>7. CASE Drained
    <2>1. pass.pc = "drain" /\ pass'.pc \in {"idle", "delete"}
      <3>1. CASE Done(TRUE)
        BY <1>7, <3>1, OutcomePoints DEF Drained
      <3>2. CASE GoTo("delete", pass.p.workloads)
        BY <1>7, <3>2, OutcomePoints DEF Drained
      <3> QED
        BY <1>7, <3>1, <3>2 DEF Drained
    <2> QED
      BY <2>1
  <1>8. CASE RemoveFinalizer \/ CallFails \/ Restart
    BY <1>2, <1>8, OutcomePoints DEF RemoveFinalizer, CallFails, Restart
  <1> QED
    BY <1>1, <1>2, <1>3, <1>4, <1>5, <1>6, <1>7, <1>8
       DEF Next, PassStep, ClusterStep, vars, PluginEvent, DeploymentEvent, EditPlugin,
           EditInstance, DeletePlugin, ScalePods, ReportStatus, CollectDeployment,
           CollectService

\* Once the operator knows of the deletion, it does not forget.
LEMMA ScaledDownStep ==
  ASSUME TypeOK, TypeOK', [Next]_vars, ScaledDownInTeardown
  PROVE  ScaledDownInTeardown'
  <1>1. pluginCache.life # "live" => pluginCache'.life # "live"
    BY LifeSteps DEF ScaledDownInTeardown
  <1>2. pluginCache'.life # "live" => plugin'.life # "live"
    BY LifeSteps DEF ScaledDownInTeardown
  <1>3. pass'.pc \in {"drain", "delete"} => pluginCache'.life # "live"
    BY <1>1, PassTurns DEF ScaledDownInTeardown
  <1>4. ASSUME NEW w \in Workloads, deps'[w].exists /\ deps'[w].replicas = 0
        PROVE  pluginCache.life # "live" /\ pass.pc \notin {"finalizer", "apply"}
    <2>1. deps[w] \in Deployment
      BY DEF TypeOK
    <2>2. \/ deps[w].exists /\ deps[w].replicas = 0
          \/ pass.pc = "drain"
      <3>1. CASE deps'[w] = deps[w]
        BY <1>4, <3>1
      <3>2. CASE deps'[w] = NoDeployment \/ deps'[w] = NewDeployment
        BY <1>4, <3>2 DEF NoDeployment, NewDeployment
      <3>3. CASE deps'[w] = [deps[w] EXCEPT !.replicas = 1]
        BY <1>4, <2>1, <3>3 DEF Deployment
      <3>4. CASE deps[w].exists
                 /\ deps'[w] = [deps[w] EXCEPT !.status = IF w \in pods THEN 1 ELSE 0]
        BY <1>4, <2>1, <3>4 DEF Deployment
      <3> QED
        BY <3>1, <3>2, <3>3, <3>4, DepSteps DEF DepStep
    <2> QED
      BY <2>2 DEF ScaledDownInTeardown
  <1>5. ASSUME NEW w \in Workloads, depCache'[w].exists /\ depCache'[w].replicas = 0
        PROVE  pluginCache.life # "live" /\ pass.pc \notin {"finalizer", "apply"}
    BY <1>5, CacheAndPodSteps DEF ScaledDownInTeardown
  <1>6. ASSUME NEW w \in Workloads,
               \/ deps'[w].exists /\ deps'[w].replicas = 0
               \/ depCache'[w].exists /\ depCache'[w].replicas = 0
        PROVE  pluginCache'.life # "live" /\ pass'.pc \notin {"finalizer", "apply"}
    BY <1>1, <1>4, <1>5, <1>6, PassTurns
  <1> QED
    BY <1>2, <1>3, <1>6 DEF ScaledDownInTeardown

\* The status a Deployment reports with one replica wanted is that of a running pod.
LEMMA StatusHonestStep ==
  ASSUME TypeOK, TypeOK', [Next]_vars, ScaledDownInTeardown, StatusHonest
  PROVE  StatusHonest'
  <1> SUFFICES ASSUME NEW w \in Workloads
               PROVE  /\ ~deps'[w].exists => deps'[w].status = 0
                      /\ deps'[w].exists /\ deps'[w].replicas = 1 /\ deps'[w].status = 1
                           => w \in pods'
    BY DEF StatusHonest
  <1>1. deps[w] \in Deployment
    BY DEF TypeOK
  <1>2. CASE deps'[w] = deps[w]
    <2>1. deps[w].exists /\ deps[w].replicas = 1 /\ w \in pods => w \in pods'
      BY CacheAndPodSteps DEF Runs
    <2> QED
      BY <1>2, <2>1 DEF StatusHonest
  <1>3. CASE deps'[w] = NoDeployment \/ deps'[w] = NewDeployment
    BY <1>3 DEF NoDeployment, NewDeployment
  <1>4. CASE pass.pc = "apply" /\ deps[w].exists /\ pods' = pods
             /\ deps'[w] = [deps[w] EXCEPT !.replicas = 1]
    <2>1. deps[w].replicas = 1
      BY <1>1, <1>4 DEF ScaledDownInTeardown, Deployment
    <2> QED
      BY <1>1, <1>4, <2>1 DEF StatusHonest, Deployment
  <1>5. CASE deps'[w] = [deps[w] EXCEPT !.replicas = 0]
    BY <1>1, <1>5 DEF StatusHonest, Deployment
  <1>6. CASE deps[w].exists /\ pods' = pods
             /\ deps'[w] = [deps[w] EXCEPT !.status = IF w \in pods THEN 1 ELSE 0]
    BY <1>1, <1>6 DEF Deployment
  <1> QED
    BY <1>2, <1>3, <1>4, <1>5, <1>6, DepSteps DEF DepStep

\* Only the user's deletion adds to the reported workloads.
LEMMA ReportedSteps ==
  ASSUME TypeOK, [Next]_vars
  PROVE  DeletePlugin \/ reported' \subseteq reported
  BY DEF Next, PassStep, ClusterStep, vars, Start, AddFinalizer, ApplyWorkload,
         ListWorkloads, PruneWorkload, ReconcileServices, UpdateStatus, DrainWorkload,
         Drained, DeleteWorkload, RemoveFinalizer, CallFails, Restart, PluginEvent,
         DeploymentEvent, EditPlugin, EditInstance, ScalePods, ReportStatus,
         CollectDeployment, CollectService, DeleteDeployment

\* The copies of a reported workload's Deployment.
CopiesAgree(w) ==
  /\ deps[w].exists /\ depCache[w].exists
  /\ deps[w].replicas = 1 => deps[w].status = 1
  /\ deps[w].replicas = 0 /\ deps[w].status = 0 => Stopped(w)
  /\ depCache[w].replicas = 0 => deps[w].replicas = 0
  /\ depCache[w].replicas = 0 /\ depCache[w].status = 0 => Stopped(w)

\* They keep telling the truth about its pod.
LEMMA CopiesStep ==
  ASSUME TypeOK, TypeOK', [Next]_vars, ScaledDownInTeardown, StatusHonest,
         NEW w \in Workloads, w \in reported', CopiesAgree(w)
  PROVE  CopiesAgree(w)'
  <1>1. /\ deps[w] \in Deployment /\ depCache[w] \in Deployment
        /\ depCache'[w] \in Deployment
    BY DEF TypeOK
  \* The Deployment at the API server.
  <1>2. CASE deps'[w] = deps[w]
    <2>1. w \in pods' => w \in pods \/ deps[w].replicas = 1
      BY CacheAndPodSteps DEF Runs
    <2>2. depCache'[w] = depCache[w] \/ depCache'[w] = deps[w]
      BY CacheAndPodSteps
    <2> QED
      BY <1>1, <1>2, <2>1, <2>2 DEF CopiesAgree, Stopped, Deployment
  <1>3. CASE deps'[w] # deps[w]
    <2>1. depCache'[w] = depCache[w] /\ (w \in pods') = (w \in pods)
      BY <1>3, CacheAndPodSteps
    <2>2. CASE pass.pc = "apply" /\ deps'[w] = [deps[w] EXCEPT !.replicas = 1]
      <3>1. deps[w].replicas = 1
        BY <1>1, <2>2 DEF CopiesAgree, ScaledDownInTeardown, Deployment
      <3>2. deps'[w] = deps[w]
        BY <1>1, <2>2, <3>1 DEF Deployment
      <3> QED
        BY <1>3, <3>2
    <2>3. CASE pass.pc = "drain" /\ deps[w] = depCache[w] /\ deps[w].replicas # 0
               /\ deps'[w] = [deps[w] EXCEPT !.replicas = 0]
      BY <1>1, <2>1, <2>3 DEF CopiesAgree, Stopped, Deployment
    <2>4. CASE deps'[w] = [deps[w] EXCEPT !.status = IF w \in pods THEN 1 ELSE 0]
      <3>1. deps'[w].exists /\ deps'[w].replicas = deps[w].replicas
        BY <1>1, <2>4 DEF CopiesAgree, Deployment
      <3>2. deps'[w].status = IF w \in pods THEN 1 ELSE 0
        BY <1>1, <2>4 DEF Deployment
      <3>3. deps[w].replicas = 1 => w \in pods
        BY DEF CopiesAgree, StatusHonest
      <3> QED
        BY <1>1, <2>1, <3>1, <3>2, <3>3 DEF CopiesAgree, Stopped, Deployment
    <2> QED
      BY <1>3, <2>2, <2>3, <2>4, DepSteps DEF DepStep, CopiesAgree
  <1> QED
    BY <1>2, <1>3

\* What finalize's loops have done with a reported workload.
LoopsHonest(w) ==
  /\ pass.pc = "drain" /\ ~pass.draining /\ w \in pass.p.workloads \ pass.todo => Stopped(w)
  /\ pass.pc = "delete" /\ w \in pass.todo => Stopped(w)

\* A stopped pod of a teardown does not come back.
LEMMA StoppedStays ==
  ASSUME TypeOK, [Next]_vars, NEW w \in Workloads, w \in reported', Stopped(w),
         pass.pc \in {"drain", "delete"}
  PROVE  Stopped(w)'
  <1>1. deps[w] \in Deployment
    BY DEF TypeOK
  <1>2. deps'[w].replicas = 0
    <2>1. CASE deps'[w] = deps[w]
      BY <2>1 DEF Stopped
    <2>2. CASE deps'[w] = [deps[w] EXCEPT !.replicas = 0]
      BY <1>1, <2>2 DEF Deployment
    <2>3. CASE deps'[w] = [deps[w] EXCEPT !.status = IF w \in pods THEN 1 ELSE 0]
      BY <1>1, <2>3 DEF Deployment, Stopped
    <2> QED
      BY <2>1, <2>2, <2>3, DepSteps DEF DepStep
  <1>3. w \notin pods'
    BY CacheAndPodSteps DEF Stopped, Runs
  <1> QED
    BY <1>2, <1>3 DEF Stopped

\* The loops pass a reported workload only when its pod is gone.
LEMMA LoopsStep ==
  ASSUME TypeOK, TypeOK', [Next]_vars, NEW w \in Workloads, w \in reported',
         CopiesAgree(w), LoopsHonest(w)
  PROVE  LoopsHonest(w)'
  <1>0. /\ pass \in Pass /\ pass' \in Pass
        /\ deps[w] \in Deployment /\ depCache[w] \in Deployment
    BY DEF TypeOK
  <1>1. CASE UNCHANGED pass
    BY <1>1, StoppedStays DEF LoopsHonest
  <1>2. CASE pass'.pc \notin {"drain", "delete"}
    BY <1>2 DEF LoopsHonest
  <1>3. CASE Start
    <2>1. CASE pass' = [pass EXCEPT !.pc = "drain", !.p = pluginCache,
                                    !.todo = pluginCache.workloads]
      <3>1. pass'.pc = "drain" /\ pass'.p.workloads = pass'.todo
        BY <1>0, <2>1 DEF Pass
      <3> QED
        BY <3>1 DEF LoopsHonest
    <2>2. CASE pass' = [pass EXCEPT !.pc = "finalizer", !.p = pluginCache]
      BY <1>0, <1>2, <2>2 DEF Pass
    <2>3. CASE Validated(pluginCache)
      BY <1>2, <2>3 DEF Validated
    <2> QED
      BY <1>1, <1>3, <2>1, <2>2, <2>3 DEF Start
  <1>4. ASSUME NEW v \in Workloads, DrainWorkload(v)
        PROVE  LoopsHonest(w)'
    <2>1. CASE Fail
      BY <1>2, <2>1, OutcomePoints
    <2>2. CASE pass' = [pass EXCEPT !.todo = pass.todo \ {v},
                                    !.draining = pass.draining \/ depCache[v].status > 0]
      <3>1. /\ pass.pc = "drain" /\ pass'.pc = "drain" /\ pass'.p = pass.p
            /\ pass'.todo = pass.todo \ {v}
            /\ pass'.draining = (pass.draining \/ depCache[v].status > 0)
        BY <1>0, <1>4, <2>2 DEF DrainWorkload, Pass
      <3>2. CASE w # v
        BY <3>1, <3>2, StoppedStays DEF LoopsHonest
      <3>3. CASE w = v
        <4> SUFFICES ASSUME ~pass'.draining PROVE Stopped(w)'
          BY <3>1 DEF LoopsHonest
        <4>1. depCache[w].status = 0
          <5>1. ~(depCache[w].status > 0)
            BY <3>1, <3>3, Zenon
          <5>2. depCache[w].status \in 0..1
            BY <1>0 DEF Deployment
          <5> QED
            BY <5>1, <5>2
        <4>2. depCache[w].replicas = 0
          <5>1. CASE deps[w] = depCache[w]
            BY <1>0, <4>1, <5>1 DEF CopiesAgree, Deployment
          <5>2. depCache[w].replicas = 0 \/ deps[w] = depCache[w] \/ Fail
            BY <1>4, <3>3 DEF DrainWorkload
          <5> QED
            BY <3>1, <5>1, <5>2, OutcomePoints
        <4> QED
          BY <3>1, <4>1, <4>2, StoppedStays DEF CopiesAgree
      <3> QED
        BY <3>2, <3>3
    <2> QED
      BY <1>4, <2>1, <2>2 DEF DrainWorkload
  <1>5. CASE Drained
    <2>1. CASE pass.draining /\ Done(TRUE)
      BY <1>2, <2>1, OutcomePoints
    <2>2. CASE ~pass.draining /\ GoTo("delete", pass.p.workloads)
      <3>1. pass.pc = "drain" /\ pass.todo = {} /\ pass'.pc = "delete"
            /\ pass'.todo = pass.p.workloads
        BY <1>5, <2>2, OutcomePoints DEF Drained
      <3> QED
        BY <2>2, <3>1, StoppedStays DEF LoopsHonest
    <2> QED
      BY <1>5, <2>1, <2>2 DEF Drained
  <1>6. ASSUME NEW v \in Workloads, DeleteWorkload(v)
        PROVE  LoopsHonest(w)'
    <2>1. pass.pc = "delete" /\ pass'.pc = "delete" /\ pass'.todo = pass.todo \ {v}
      BY <1>6, OutcomePoints DEF DeleteWorkload
    <2> QED
      BY <2>1, StoppedStays DEF LoopsHonest
  <1>7. CASE AddFinalizer \/ ListWorkloads \/ ReconcileServices \/ UpdateStatus
             \/ RemoveFinalizer \/ CallFails \/ Restart
    <2>1. CASE AddFinalizer
      BY <1>2, <2>1, OutcomePoints DEF AddFinalizer, Validated
    <2>2. CASE ListWorkloads
      BY <1>2, <2>2, OutcomePoints DEF ListWorkloads
    <2>3. CASE ReconcileServices
      BY <1>2, <2>3, OutcomePoints DEF ReconcileServices
    <2>4. CASE UpdateStatus \/ RemoveFinalizer
      BY <1>2, <2>4, OutcomePoints DEF UpdateStatus, RemoveFinalizer
    <2>5. CASE CallFails \/ Restart
      BY <1>2, <2>5, OutcomePoints DEF CallFails, Restart
    <2> QED
      BY <1>7, <2>1, <2>2, <2>3, <2>4, <2>5
  <1>8. ASSUME NEW v \in Workloads, ApplyWorkload(v) \/ PruneWorkload(v)
        PROVE  LoopsHonest(w)'
    <2>1. CASE ApplyWorkload(v)
      BY <1>2, <2>1, OutcomePoints DEF ApplyWorkload
    <2>2. CASE PruneWorkload(v)
      BY <1>2, <2>2, OutcomePoints DEF PruneWorkload
    <2> QED
      BY <1>8, <2>1, <2>2
  <1> QED
    BY <1>1, <1>3, <1>4, <1>5, <1>6, <1>7, <1>8
       DEF Next, PassStep, ClusterStep, vars, PluginEvent, DeploymentEvent, EditPlugin,
           EditInstance, DeletePlugin, ScalePods, ReportStatus, CollectDeployment,
           CollectService

DrainInv == TypeOK /\ ScaledDownInTeardown /\ StatusHonest /\ ReportedHonest

\* The reported workloads, one by one.
LEMMA ReportedOneByOne ==
  ReportedHonest <=> \A w \in reported : CopiesAgree(w) /\ LoopsHonest(w)
  BY DEF ReportedHonest, CopiesAgree, LoopsHonest

\* A workload that is reported when deletion is asked for has its pod, and no
\* copy of its Deployment is scaled down.
LEMMA FirstReported ==
  ASSUME DrainInv, DeletePlugin, NEW w \in reported'
  PROVE  w \in Workloads /\ CopiesAgree(w)' /\ LoopsHonest(w)'
  <1>1. /\ w \in Workloads /\ depCache[w].exists /\ deps[w].status = 1
        /\ plugin.life = "live" /\ UNCHANGED <<deps, depCache, pods, pass>>
    BY DEF DeletePlugin
  <1>2. deps[w] \in Deployment /\ depCache[w] \in Deployment
    BY <1>1 DEF DrainInv, TypeOK
  <1>3. deps[w].exists
    BY <1>1, <1>2 DEF DrainInv, StatusHonest, Deployment
  <1>4. deps[w].replicas = 1 /\ depCache[w].replicas = 1
        /\ pass.pc \notin {"drain", "delete"}
    BY <1>1, <1>2, <1>3 DEF DrainInv, ScaledDownInTeardown, Deployment
  <1> QED
    BY <1>1, <1>3, <1>4 DEF CopiesAgree, LoopsHonest

\* Every step keeps what is known about the reported workloads.
LEMMA DrainStep == DrainInv /\ [Next]_vars => DrainInv'
  <1> SUFFICES ASSUME DrainInv, [Next]_vars PROVE DrainInv'
    OBVIOUS
  <1>1. TypeOK /\ TypeOK'
    BY NextTypeOK DEF DrainInv
  <1>2. ScaledDownInTeardown' /\ StatusHonest'
    BY <1>1, ScaledDownStep, StatusHonestStep DEF DrainInv
  <1>3. ASSUME NEW w \in reported' PROVE CopiesAgree(w)' /\ LoopsHonest(w)'
    <2>1. CASE DeletePlugin
      BY <2>1, FirstReported
    <2>2. CASE reported' \subseteq reported
      <3>1. w \in Workloads /\ CopiesAgree(w) /\ LoopsHonest(w)
        BY <1>1, <2>2, ReportedOneByOne DEF DrainInv, TypeOK
      <3> QED
        BY <1>1, <3>1, CopiesStep, LoopsStep DEF DrainInv
    <2> QED
      BY <1>1, <2>1, <2>2, ReportedSteps
  <1>4. ReportedHonest'
    BY <1>3 DEF ReportedHonest, CopiesAgree, LoopsHonest, Stopped
  <1> QED
    BY <1>1, <1>2, <1>4 DEF DrainInv

\* No pod that was reported when deletion was asked for is cut off: finalize
\* deletes its Deployment only when it has stopped, for any number of workloads.
THEOREM DrainIsGraceful == Spec => ReportedPodsDrained
  <1>1. Init => DrainInv
    <2> SUFFICES ASSUME Init PROVE DrainInv
      OBVIOUS
    <2>1. TypeOK
      BY InitTypeOK
    <2>2. ScaledDownInTeardown /\ StatusHonest /\ ReportedHonest
      BY DEF Init, ScaledDownInTeardown, StatusHonest, ReportedHonest, IdlePass, NoDeployment
    <2> QED
      BY <2>1, <2>2 DEF DrainInv
  <1>2. DrainInv /\ [Next]_vars =>
          [\A w \in reported :
             pass.pc = "delete" /\ pass'.pc = "delete" /\ w \in pass.todo \ pass'.todo
               => w \notin pods]_vars
    BY DEF DrainInv, ReportedHonest, Stopped
  <1> QED
    BY <1>1, <1>2, DrainStep, PTL DEF Spec, ReportedPodsDrained

----------------------------------------------------------------------------
(* A resting operator has reconciled. All parts are about a live plugin and  *)
(* an empty queue: whatever makes a pass out of date queues another one.     *)

\* The copy that the pass works on is the cache's, or is newer than it because
\* this pass added the finalizer.
Current == plugin.life = "live" /\ ~queued
FinalizerSettled ==
  Current /\ pluginCache.life = "live" /\ pass.pc # "finalizer" => plugin.finalizer
PassCurrent ==
  /\ pass.pc \in {"apply", "prune"} => pass.jf # "incompatible"
  /\ pass.pc = "prune" => pass.todo \cap pass.p.workloads = {}
  /\ Current /\ pass.pc = "finalizer" => ~pluginCache.finalizer
  /\ Current /\ pass.pc \in {"apply", "prune", "services"} =>
       pass.jf = binding /\ (pass.p = pluginCache \/ ~pluginCache.finalizer)

\* What the apply loop, the prune loop and reconcileServices leave behind. A
\* Deployment that the cache does not know yet is not pruned; its event is to come.
AppliedOf(ws) == \A w \in ws : deps[w].exists /\ deps[w].replicas = 1
PrunedOf(ws) == \A w \in ws : ~deps[w].exists \/ ~depCache[w].exists
Served(jf) == DeclaresService => service /\ jf = "compatible"

LoopsKept ==
  /\ Current /\ pass.pc = "apply" => AppliedOf(pass.p.workloads \ pass.todo)
  /\ Current /\ pass.pc = "prune" =>
       AppliedOf(pass.p.workloads) /\ PrunedOf(Workloads \ (pass.p.workloads \cup pass.todo))
  /\ Current /\ pass.pc = "services" /\ pass.jf # "incompatible" =>
       /\ AppliedOf(pass.p.workloads) /\ PrunedOf(Workloads \ pass.p.workloads)
       /\ Served(pass.jf)

\* What a finished pass leaves behind.
RestKept ==
  Current /\ pass.pc = "idle" /\ pluginCache.life = "live" /\ pluginCache.finalizer =>
    /\ plugin.phase = StatusPhase(binding, pluginCache)
    /\ binding # "incompatible" =>
         /\ AppliedOf(pluginCache.workloads) /\ PrunedOf(Workloads \ pluginCache.workloads)
         /\ Served(binding)

Settled == FinalizerSettled /\ PassCurrent /\ LoopsKept /\ RestKept
QuietInv == TypeOK /\ FinalizerStays /\ ScaledDownInTeardown /\ Settled

\* A queued key promises a pass that will see to everything.
LEMMA QueuedSettles ==
  ASSUME Settled, queued', pass'.pc \notin {"apply", "prune"} \/ UNCHANGED pass
  PROVE  Settled'
  BY DEF Settled, Current, FinalizerSettled, PassCurrent, LoopsKept, RestKept

\* So does the end of the plugin's life promise its teardown.
LEMMA DeadSettles ==
  ASSUME Settled, plugin'.life # "live",
         pass'.pc \notin {"apply", "prune"} \/ UNCHANGED pass
  PROVE  Settled'
  BY DEF Settled, Current, FinalizerSettled, PassCurrent, LoopsKept, RestKept

\* The phase is a function of the caches.
LEMMA PhaseKept ==
  ASSUME UNCHANGED <<binding, pluginCache, depCache>>
  PROVE  StatusPhase(binding, pluginCache)' = StatusPhase(binding, pluginCache)
  BY DEF StatusPhase, WorkloadsReady, Wanted, Ready

\* Steps that the operator has not heard of yet disturb nothing it has to keep.
LEMMA UnseenSettles ==
  ASSUME Settled, TypeOK,
         UNCHANGED <<pluginCache, binding, depCache, pass, queued, service>>,
         plugin'.life = "live" =>
           /\ plugin.life = "live" /\ plugin'.phase = plugin.phase
           /\ plugin'.finalizer = plugin.finalizer,
         \A w \in Workloads :
           deps'[w].exists = deps[w].exists /\ deps'[w].replicas = deps[w].replicas
  PROVE  Settled'
  <1>1. Current' => Current
    BY DEF Current
  <1>2. /\ pass.p.workloads \subseteq Workloads
        /\ pluginCache.workloads \subseteq Workloads
    BY DEF TypeOK, Pass, Plugin
  <1>3. FinalizerSettled' /\ PassCurrent'
    BY <1>1 DEF Settled, Current, FinalizerSettled, PassCurrent
  <1>4. \A ws \in SUBSET Workloads :
          (AppliedOf(ws) => AppliedOf(ws)') /\ (PrunedOf(ws) => PrunedOf(ws)')
    BY DEF AppliedOf, PrunedOf
  <1>5. LoopsKept'
    BY <1>1, <1>2, <1>4 DEF Settled, LoopsKept, Served, AppliedOf, PrunedOf
  <1>6. RestKept'
    BY <1>1, <1>2, <1>4, PhaseKept
    DEF Settled, RestKept, Served, AppliedOf, PrunedOf, Current
  <1> QED
    BY <1>3, <1>5, <1>6 DEF Settled

\* A pass that begins with the cache's copy, or with its own newer one, has all
\* its loops before it.
LEMMA ValidatedSettles ==
  ASSUME Settled, TypeOK, NEW p \in Plugin, Validated(p),
         Current' => p = pluginCache \/ ~pluginCache.finalizer,
         plugin'.life = "live" => plugin'.finalizer,
         UNCHANGED <<pluginCache, binding>>
  PROVE  Settled'
  <1>1. /\ pass'.p = p /\ pass'.jf = binding
        /\ \/ pass'.pc = "apply" /\ binding # "incompatible" /\ pass'.todo = p.workloads
           \/ pass'.pc = "services" /\ binding = "incompatible"
    BY DEF Validated
  <1>2. FinalizerSettled' /\ PassCurrent'
    BY <1>1 DEF FinalizerSettled, PassCurrent, Current
  <1>3. LoopsKept'
    BY <1>1 DEF LoopsKept, AppliedOf
  <1>4. RestKept'
    BY <1>1 DEF RestKept
  <1> QED
    BY <1>2, <1>3, <1>4 DEF Settled

\* How a reconcile of a live plugin begins.
LEMMA StartSettles ==
  ASSUME QuietInv, Settled, Start \/ AddFinalizer
  PROVE  Settled'
  <1>0. TypeOK /\ pass \in Pass /\ pluginCache \in Plugin /\ plugin \in Plugin
    BY DEF QuietInv, TypeOK
  <1>1. CASE Start
    <2>1. UNCHANGED <<plugin, pluginCache, binding>>
      BY <1>1 DEF Start
    <2>2. CASE pluginCache.life # "live"
      <3>1. plugin'.life # "live"
        BY <2>1, <2>2 DEF QuietInv, ScaledDownInTeardown
      <3>2. UNCHANGED pass \/ pass'.pc = "drain"
        BY <1>0, <1>1, <2>2 DEF Start, Pass
      <3> QED
        BY <3>1, <3>2, DeadSettles
    <2>3. CASE pluginCache.life = "live" /\ ~pluginCache.finalizer
      <3>1. pass'.pc = "finalizer"
        BY <1>0, <1>1, <2>3 DEF Start, Pass
      <3> QED
        BY <2>1, <2>3, <3>1
        DEF Settled, FinalizerSettled, PassCurrent, LoopsKept, RestKept
    <2>4. CASE pluginCache.life = "live" /\ pluginCache.finalizer
      <3>1. Validated(pluginCache)
        BY <1>1, <2>4 DEF Start
      <3>2. plugin'.life = "live" => plugin'.finalizer
        BY <2>1, <2>4 DEF QuietInv, FinalizerStays
      <3> QED
        BY <1>0, <2>1, <3>1, <3>2, ValidatedSettles
    <2> QED
      BY <2>2, <2>3, <2>4
  <1>2. CASE AddFinalizer
    <2>1. UNCHANGED <<pluginCache, binding>>
      BY <1>2 DEF AddFinalizer
    <2>2. CASE plugin = pass.p
      <3>1. plugin' = [plugin EXCEPT !.finalizer = TRUE] /\ Validated(plugin')
        BY <1>2, <2>2 DEF AddFinalizer
      <3>2. plugin' \in Plugin /\ plugin'.finalizer
        BY <1>0, <3>1 DEF Plugin
      <3>3. pass.pc = "finalizer" /\ UNCHANGED queued
        BY <1>2, <2>2 DEF AddFinalizer
      <3>4. Current' => ~pluginCache.finalizer
        BY <1>0, <3>1, <3>3 DEF Settled, PassCurrent, Current, Plugin
      <3>5. PICK p \in Plugin : p = plugin' /\ Validated(p)
        BY <3>1, <3>2 DEF Validated
      <3> QED
        BY <1>0, <2>1, <3>2, <3>4, <3>5, ValidatedSettles
    <2>3. CASE plugin # pass.p
      <3>1. Fail
        BY <1>2, <2>3 DEF AddFinalizer
      <3> QED
        BY <3>1, QueuedSettles DEF Fail, Done, IdlePass
    <2> QED
      BY <2>2, <2>3
  <1> QED
    BY <1>1, <1>2

\* The apply loop, the prune loop, the Service.
LEMMA LoopsSettle ==
  ASSUME QuietInv, Settled,
         \/ ListWorkloads \/ ReconcileServices
         \/ \E w \in Workloads : ApplyWorkload(w) \/ PruneWorkload(w)
  PROVE  Settled'
  <1>0. /\ TypeOK /\ pass \in Pass /\ deps \in [Workloads -> Deployment]
        /\ pass.p.workloads \subseteq Workloads
    BY DEF QuietInv, TypeOK, Pass, Plugin
  <1>1. UNCHANGED <<plugin, pluginCache, binding, depCache>>
    BY DEF ListWorkloads, ReconcileServices, ApplyWorkload, PruneWorkload
  <1>2. CASE Fail
    BY <1>2, QueuedSettles DEF Fail, Done, IdlePass
  <1>3. ASSUME NEW pc \in {"apply", "prune", "services"}, NEW todo, GoTo(pc, todo),
               pass.pc \in {"apply", "prune"},
               pc = "prune" => todo \cap pass.p.workloads = {}
        PROVE  /\ pass'.pc = pc /\ pass'.todo = todo /\ pass'.p = pass.p /\ pass'.jf = pass.jf
               /\ UNCHANGED queued
               /\ FinalizerSettled' /\ PassCurrent' /\ RestKept'
    <2>1. /\ pass'.pc = pc /\ pass'.todo = todo /\ pass'.p = pass.p /\ pass'.jf = pass.jf
          /\ UNCHANGED queued
      BY <1>0, <1>3 DEF GoTo, Pass
    <2> QED
      BY <1>1, <1>3, <2>1
      DEF Settled, FinalizerSettled, PassCurrent, RestKept, Current
  <1>4. ASSUME NEW w \in Workloads, ApplyWorkload(w), ~Fail
        PROVE  Settled'
    <2>1. /\ GoTo("apply", pass.todo \ {w}) /\ pass.pc = "apply"
          /\ deps' = [deps EXCEPT ![w] = IF ~depCache[w].exists THEN NewDeployment
                                         ELSE [deps[w] EXCEPT !.replicas = 1]]
          /\ depCache[w].exists => deps[w].exists
      BY <1>4 DEF ApplyWorkload
    <2>2. deps'[w].exists /\ deps'[w].replicas = 1
      BY <1>0, <2>1 DEF NewDeployment, Deployment
    <2>3. \A v \in Workloads \ {w} : deps'[v] = deps[v]
      BY <1>0, <2>1
    <2>4. Current' => AppliedOf(pass.p.workloads \ (pass.todo \ {w}))'
      BY <1>0, <1>1, <1>3, <2>1, <2>2, <2>3 DEF Settled, LoopsKept, AppliedOf, Current
    <2>5. LoopsKept'
      BY <1>0, <1>3, <2>1, <2>4 DEF LoopsKept, AppliedOf
    <2> QED
      BY <1>3, <2>1, <2>5 DEF Settled
  <1>5. CASE ListWorkloads
    <2>1. GoTo("prune", Undesired(pass.p)) /\ pass.pc = "apply" /\ pass.todo = {}
          /\ UNCHANGED <<deps, service>>
      BY <1>5 DEF ListWorkloads
    <2>2. Undesired(pass.p) \cap pass.p.workloads = {}
      BY DEF Undesired
    <2>3. LoopsKept'
      BY <1>0, <1>1, <1>3, <2>1, <2>2
      DEF Settled, LoopsKept, AppliedOf, PrunedOf, Current, Undesired
    <2> QED
      BY <1>3, <2>1, <2>2, <2>3 DEF Settled
  <1>6. ASSUME NEW w \in Workloads, PruneWorkload(w)
        PROVE  Settled'
    <2>1. /\ GoTo("prune", pass.todo \ {w}) /\ pass.pc = "prune" /\ w \in pass.todo
          /\ deps' = [deps EXCEPT ![w] = NoDeployment]
      BY <1>6 DEF PruneWorkload, DeleteDeployment
    <2>2. ~deps'[w].exists /\ \A v \in Workloads \ {w} : deps'[v] = deps[v]
      BY <1>0, <2>1 DEF NoDeployment
    <2>3. w \notin pass.p.workloads /\ (pass.todo \ {w}) \cap pass.p.workloads = {}
      BY <2>1 DEF Settled, PassCurrent
    <2>4. LoopsKept'
      BY <1>0, <1>1, <1>3, <2>1, <2>2, <2>3
      DEF Settled, LoopsKept, AppliedOf, PrunedOf, Current
    <2> QED
      BY <1>3, <2>1, <2>3, <2>4 DEF Settled
  <1>7. CASE ReconcileServices /\ ~Fail
    <2>1. /\ GoTo("services", {}) /\ pass.pc = "prune" /\ pass.todo = {}
          /\ UNCHANGED deps
          /\ ~(DeclaresService /\ pass.jf = "unbound") /\ service' = (service \/ DeclaresService)
      BY <1>7 DEF ReconcileServices
    <2>2. Served(pass.jf)'
      BY <1>0, <1>3, <2>1 DEF Served, Pass, Bindings, Settled, PassCurrent
    <2>3. LoopsKept'
      BY <1>0, <1>1, <1>3, <2>1, <2>2
      DEF Settled, LoopsKept, AppliedOf, PrunedOf, Current
    <2> QED
      BY <1>3, <2>1, <2>3 DEF Settled
  <1> QED
    BY <1>2, <1>4, <1>5, <1>6, <1>7

\* A pass that ends with its status written leaves what it did.
LEMMA StatusSettles ==
  ASSUME QuietInv, Settled, UpdateStatus
  PROVE  Settled'
  <1>0. /\ TypeOK /\ plugin \in Plugin /\ pass \in Pass
        /\ UNCHANGED <<pluginCache, binding, depCache, deps, service>>
    BY DEF QuietInv, TypeOK, UpdateStatus
  <1>1. pass'.pc = "idle"
    BY DEF UpdateStatus, Fail, Done, IdlePass
  <1>2. CASE plugin # pass.p
    BY <1>1, <1>2, QueuedSettles DEF UpdateStatus, Fail, Done
  <1>3. CASE plugin = pass.p
    <2>1. /\ pass.pc = "services" /\ queued' = queued
          /\ plugin' = [plugin EXCEPT !.phase = StatusPhase(pass.jf, pass.p)]
      BY <1>0, <1>3 DEF UpdateStatus, Done, TypeOK
    <2>2. /\ plugin'.life = plugin.life /\ plugin'.finalizer = plugin.finalizer
          /\ plugin'.phase = StatusPhase(pass.jf, pass.p)
      BY <1>0, <2>1 DEF Plugin
    <2>3. Current' => Current
      BY <2>1, <2>2 DEF Current
    <2>4. FinalizerSettled' /\ PassCurrent' /\ LoopsKept'
      BY <1>0, <1>1, <2>1, <2>2, <2>3
      DEF Settled, FinalizerSettled, PassCurrent, LoopsKept
    <2>5. Current' /\ pluginCache.finalizer =>
            /\ pass.jf = binding /\ pass.p = pluginCache
            /\ plugin'.phase = StatusPhase(binding, pluginCache)
      BY <2>1, <2>2, <2>3 DEF Settled, PassCurrent
    <2>6. RestKept'
      BY <1>0, <1>1, <2>1, <2>3, <2>5, PhaseKept
      DEF Settled, LoopsKept, RestKept, AppliedOf, PrunedOf, Served
    <2> QED
      BY <2>4, <2>6 DEF Settled
  <1> QED
    BY <1>2, <1>3

\* The teardown is of a plugin that is not live.
LEMMA TeardownSettles ==
  ASSUME QuietInv, Settled, [Next]_vars,
         \/ Drained \/ RemoveFinalizer
         \/ \E w \in Workloads : DrainWorkload(w) \/ DeleteWorkload(w)
  PROVE  Settled'
  <1>0. TypeOK /\ pass \in Pass
    BY DEF QuietInv, TypeOK
  <1>1. pass.pc \in {"drain", "delete"}
    BY DEF Drained, RemoveFinalizer, DrainWorkload, DeleteWorkload
  <1>2. plugin'.life # "live"
    BY <1>0, <1>1, LifeSteps DEF QuietInv, ScaledDownInTeardown
  <1>3. pass'.pc \in {"drain", "delete", "idle"}
    <2>1. CASE Drained
      <3>1. CASE Done(TRUE)
        BY <3>1 DEF Done, IdlePass
      <3>2. CASE GoTo("delete", pass.p.workloads)
        BY <1>0, <3>2 DEF GoTo, Pass
      <3> QED
        BY <2>1, <3>1, <3>2 DEF Drained
    <2>2. CASE RemoveFinalizer
      BY <2>2 DEF RemoveFinalizer, Fail, Done, IdlePass
    <2>3. ASSUME NEW w \in Workloads, DrainWorkload(w) \/ DeleteWorkload(w)
          PROVE  pass'.pc \in {"drain", "delete", "idle"}
      <3>1. CASE DrainWorkload(w)
        BY <1>0, <3>1, OutcomePoints DEF DrainWorkload, Pass
      <3>2. CASE DeleteWorkload(w)
        BY <1>0, <3>2, OutcomePoints DEF DeleteWorkload
      <3> QED
        BY <2>3, <3>1, <3>2
    <2> QED
      BY <2>1, <2>2, <2>3
  <1> QED
    BY <1>2, <1>3, DeadSettles

\* Every step keeps it.
LEMMA QuietInvStep == QuietInv /\ [Next]_vars => QuietInv'
  <1> SUFFICES ASSUME QuietInv, [Next]_vars PROVE QuietInv'
    OBVIOUS
  <1>1. TypeOK /\ Settled /\ deps \in [Workloads -> Deployment] /\ plugin \in Plugin
    BY DEF QuietInv, Settled, TypeOK
  <1>2. TypeOK' /\ FinalizerStays' /\ ScaledDownInTeardown'
    BY <1>1, NextTypeOK, FinalizerStaysStep, ScaledDownStep DEF QuietInv
  <1>3. Settled'
    <2>1. CASE PassStep
      BY <1>1, <2>1, StartSettles, LoopsSettle, StatusSettles, TeardownSettles DEF PassStep
    <2>2. CASE CallFails \/ Restart
      <3>1. Fail
        BY <2>2 DEF CallFails, Restart, Fail
      <3> QED
        BY <1>1, <3>1, QueuedSettles DEF Fail, Done, IdlePass
    <2>3. CASE PluginEvent \/ EditInstance \/ \E w \in Workloads : DeploymentEvent(w)
      BY <1>1, <2>3, QueuedSettles DEF PluginEvent, EditInstance, DeploymentEvent
    <2>4. CASE CollectService \/ \E w \in Workloads : CollectDeployment(w)
      BY <1>1, <2>4, DeadSettles DEF CollectService, CollectDeployment
    <2>5. CASE EditPlugin
      BY <1>1, <2>5, UnseenSettles DEF EditPlugin, Plugin
    <2>6. CASE DeletePlugin
      <3>1. plugin'.life # "live"
        BY <1>1, <2>6 DEF DeletePlugin, NoPlugin, Plugin
      <3> QED
        BY <1>1, <2>6, <3>1, DeadSettles DEF DeletePlugin
    <2>7. CASE \E w \in Workloads : ScalePods(w)
      BY <1>1, <2>7, UnseenSettles DEF ScalePods
    <2>8. CASE \E w \in Workloads : ReportStatus(w)
      <3>1. \A w \in Workloads :
              deps'[w].exists = deps[w].exists /\ deps'[w].replicas = deps[w].replicas
        BY <1>1, <2>8 DEF ReportStatus, Deployment
      <3> QED
        BY <1>1, <2>8, <3>1, UnseenSettles DEF ReportStatus
    <2>9. CASE UNCHANGED vars
      BY <1>1, <2>9, UnseenSettles DEF vars
    <2> QED
      BY <2>1, <2>2, <2>3, <2>4, <2>5, <2>6, <2>7, <2>8, <2>9 DEF Next, ClusterStep
  <1> QED
    BY <1>2, <1>3 DEF QuietInv, Settled

\* With every workload at its one replica, the sums that updateStatus compares
\* are equal only if each of them is ready.
LEMMA ReadyMeansAll ==
  ASSUME NEW ws \in SUBSET Workloads, NEW p, p.workloads = ws,
         \A w \in ws : depCache[w].replicas = 1
  PROVE  WorkloadsReady(p) <=> \A w \in ws : depCache[w].status = 1
  <1> DEFINE ready == {w \in ws : depCache[w].status = 1}
  <1>1. IsFiniteSet(ws) /\ ready \in SUBSET ws /\ {w \in ws : depCache[w].replicas = 1} = ws
    BY WorkloadsAssumption, FS_Subset
  <1>2. /\ IsFiniteSet(ready) /\ Cardinality(ready) <= Cardinality(ws)
        /\ Cardinality(ws) = Cardinality(ready) => ws = ready
    BY <1>1, FS_Subset
  <1>3. /\ Cardinality(ws) \in Nat /\ Cardinality(ready) \in Nat
        /\ Cardinality(ws) = 0 => ws = {}
    BY <1>1, <1>2, FS_CardinalityType, FS_EmptySet
  <1>4. Wanted(p) = Cardinality(ws) /\ Ready(p) = Cardinality(ready)
    BY <1>1 DEF Wanted, Ready
  <1>5. WorkloadsReady(p) <=> ws = {} \/ Cardinality(ready) >= Cardinality(ws)
    BY <1>2, <1>3, <1>4 DEF WorkloadsReady
  <1>6. Cardinality(ready) >= Cardinality(ws) <=> ready = ws
    BY <1>2, <1>3
  <1> QED
    BY <1>5, <1>6

\* At rest, everything that a live plugin declares has been done, and its phase is
\* true of its workloads, for any set of them and any history of edits, errors and
\* restarts.
THEOREM QuietIsReconciled == Spec => []QuietMeansReconciled
  <1>1. Init => QuietInv
    <2> SUFFICES ASSUME Init PROVE QuietInv
      OBVIOUS
    <2>1. TypeOK /\ pass.pc = "idle" /\ queued
      BY InitTypeOK DEF Init, IdlePass
    <2>2. FinalizerStays /\ ScaledDownInTeardown
      BY DEF Init, FinalizerStays, ScaledDownInTeardown, IdlePass, NoDeployment
    <2> QED
      BY <2>1, <2>2
      DEF QuietInv, Settled, FinalizerSettled, PassCurrent, LoopsKept, RestKept, Current
  <1>2. QuietInv => QuietMeansReconciled
    <2> SUFFICES ASSUME QuietInv, Quiet, plugin.life = "live" PROVE QuietMeansReconciled
      BY DEF QuietMeansReconciled
    <2>0. TypeOK /\ plugin \in Plugin /\ plugin.workloads \in SUBSET Workloads
      BY DEF QuietInv, TypeOK, Plugin
    <2>1. plugin.finalizer
      BY DEF QuietInv, Settled, FinalizerSettled, Current, Quiet
    <2>2. /\ plugin.phase = StatusPhase(binding, plugin)
          /\ binding # "incompatible" =>
               /\ AppliedOf(plugin.workloads) /\ PrunedOf(Workloads \ plugin.workloads)
               /\ Served(binding)
      BY <2>1 DEF QuietInv, Settled, RestKept, Current, Quiet
    <2>3. binding = "incompatible" => plugin.phase = "Failed"
      BY <2>2 DEF StatusPhase
    <2>4. binding = "unbound" => plugin.phase = "Pending"
      BY <2>2 DEF StatusPhase
    <2>5. ASSUME binding = "compatible"
          PROVE  plugin.phase = IF \A w \in plugin.workloads : deps[w].status = 1
                                THEN "Loaded" ELSE "WorkloadsReady"
      <3>1. plugin.phase = IF WorkloadsReady(plugin) THEN "Loaded" ELSE "WorkloadsReady"
        BY <2>2, <2>5 DEF StatusPhase
      <3>2. WorkloadsReady(plugin) <=> \A w \in plugin.workloads : depCache[w].status = 1
        BY <2>0, <2>2, <2>5, ReadyMeansAll DEF AppliedOf, Quiet
      <3> QED
        BY <3>1, <3>2 DEF Quiet
    <2>6. ASSUME binding # "incompatible"
          PROVE  /\ \A w \in Workloads : deps[w].exists <=> w \in plugin.workloads
                 /\ \A w \in plugin.workloads : deps[w].replicas = 1
                 /\ DeclaresService => service /\ binding = "compatible"
      BY <2>0, <2>2, <2>6 DEF AppliedOf, PrunedOf, Served, Quiet, TypeOK, Deployment
    <2> QED
      BY <2>1, <2>3, <2>4, <2>5, <2>6 DEF QuietMeansReconciled
  <1> QED
    BY <1>1, <1>2, QuietInvStep, PTL DEF Spec
=============================================================================
