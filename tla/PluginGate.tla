----------------------------- MODULE PluginGate -----------------------------
(***************************************************************************)
(* The ABI gate, which two controllers keep together: JellyfinPluginRecon- *)
(* ciler validates a plugin against the instance it is bound to and writes *)
(* the verdict in its status; JellyfinReconciler mounts the bound plugins  *)
(* whose status is not a failure in the pod template, and lists them in    *)
(* the instance's status. Each is woken by the other's objects             *)
(* (mapPluginToInstances, mapInstanceToPlugins), so that the status of     *)
(* either wakes both; both read informer caches.                           *)
(*                                                                         *)
(* A version is a number: compareVersions orders the parsed quadruples.    *)
(***************************************************************************)
EXTENDS Naturals

CONSTANTS Plugins, Instances,
          NoRef,       \* spec.jellyfinRef is not set
          MaxVersion,  \* bound: server versions and target ABIs
          PluginSpecs, InstanceSpecs, \* the specs users may choose from
          MaxEdits,    \* bound: edits by users
          MaxFaults    \* bound: failed calls and operator restarts

\* A plugin's targetAbi (0: none) and jellyfinRef; the version of the tag of an
\* instance's image, and whether its pluginSelector selects the label that every
\* plugin carries.
PluginSpec == [abi : 0..MaxVersion, ref : Instances \cup {NoRef}]
InstanceSpec == [version : 1..MaxVersion, selects : BOOLEAN]

ASSUME GateAssumption ==
  /\ Plugins # {} /\ Instances # {} /\ NoRef \notin Instances
  /\ PluginSpecs \subseteq PluginSpec /\ InstanceSpecs \subseteq InstanceSpec
  /\ MaxVersion \in Nat \ {0} /\ MaxEdits \in Nat /\ MaxFaults \in Nat

VARIABLES
  plugins, instances, \* the objects at the API server
  pluginCache, instanceCache,
  pluginNews, instanceNews, \* those with a change that the cache has not seen
  template,           \* the plugins mounted in each instance's pod template
  pluginQueue, instanceQueue,
  pluginPass, instancePass,
  edits, faults

objects == <<plugins, instances>>
caches == <<pluginCache, instanceCache, pluginNews, instanceNews>>
queues == <<pluginQueue, instanceQueue>>
passes == <<pluginPass, instancePass>>
vars == <<plugins, instances, pluginCache, instanceCache, pluginNews, instanceNews,
          template, pluginQueue, instanceQueue, pluginPass, instancePass, edits, faults>>

----------------------------------------------------------------------------
(* Data *)

\* The objects; phase and loaded (status.loadedPlugins, to which the count in
\* PluginsLoaded's message adds nothing) are their statuses.
Plugin == [exists : BOOLEAN, abi : 0..MaxVersion, ref : Instances \cup {NoRef},
           phase : {"none", "Failed", "Pending", "Bound"}]
NoPlugin == [exists |-> FALSE, abi |-> 0, ref |-> NoRef, phase |-> "none"]

AsPlugin(sp, phase) == [exists |-> TRUE, abi |-> sp.abi, ref |-> sp.ref, phase |-> phase]

Instance == [exists : BOOLEAN, version : 1..MaxVersion, selects : BOOLEAN,
             loaded : SUBSET Plugins]
NoInstance == [exists |-> FALSE, version |-> 1, selects |-> FALSE, loaded |-> {}]
AsInstance(sp, loaded) ==
  [exists |-> TRUE, version |-> sp.version, selects |-> sp.selects, loaded |-> loaded]

PluginPass == [pc : {"idle", "status"}, name : Plugins, p : Plugin,
               phase : {"Failed", "Pending", "Bound"}]
InstancePass == [pc : {"idle", "deployment", "status"}, name : Instances, mounts : SUBSET Plugins]
IdlePlugin == [pc |-> "idle", name |-> CHOOSE p \in Plugins : TRUE, p |-> NoPlugin,
               phase |-> "Pending"]
IdleInstance == [pc |-> "idle", name |-> CHOOSE i \in Instances : TRUE, mounts |-> {}]

Init ==
  /\ plugins \in [Plugins -> {AsPlugin(sp, "none") : sp \in PluginSpecs}]
  /\ instances \in [Instances -> {NoInstance} \cup {AsInstance(sp, {}) : sp \in InstanceSpecs}]
  /\ pluginCache = plugins /\ pluginNews = {}
  /\ instanceCache = instances /\ instanceNews = {}
  /\ template = [i \in Instances |-> {}]
  /\ pluginQueue = Plugins /\ instanceQueue = Instances
  /\ pluginPass = IdlePlugin /\ instancePass = IdleInstance
  /\ edits = 0 /\ faults = 0

----------------------------------------------------------------------------
(* bindings.go *)

\* pluginBinds, of the copies ip of instance i and pp of a plugin.
PluginBinds(i, ip, pp) == ip.exists /\ pp.exists /\ (pp.ref = i \/ ip.selects)

BoundPlugins(i, ip) == {p \in Plugins : PluginBinds(i, ip, pluginCache[p])}

\* Mutant: a request for the plugin's name instead of the instances'.
InstancesForPluginNamesPlugin(pp) ==
  IF \E i \in Instances : PluginBinds(i, instanceCache[i], pp) THEN Plugins ELSE {}

InstancesForPlugin(pp) == {i \in Instances : PluginBinds(i, instanceCache[i], pp)}

\* A plugin without a status yet is admitted.
HealthyPlugins(ps) == {p \in ps : pluginCache[p].phase # "Failed"}

----------------------------------------------------------------------------
(* JellyfinPluginReconciler *)

\* boundInstance: the instance of jellyfinRef, if there is one of that name, else
\* the first of the cache's list, which is in no order, whose selector matches. A
\* plugin whose jellyfinRef names an absent instance has none, whoever selects it.
BoundInstance(pp, i) ==
  IF pp.ref # NoRef THEN i = pp.ref /\ instanceCache[i].exists
                    ELSE PluginBinds(i, instanceCache[i], pp)

\* validateABI and the phase updateStatus derives from it; WorkloadsReady and
\* Loaded are one phase here. No instance: Pending without a targetAbi, else Failed.
Verdict(pp, i) == IF pp.abi <= instanceCache[i].version THEN "Bound" ELSE "Failed"
VerdictUnbound(pp) == IF pp.abi = 0 THEN "Pending" ELSE "Failed"

\* One worker per controller. A plugin that is being deleted is not validated.
PluginStart(p) ==
  /\ pluginPass.pc = "idle" /\ p \in pluginQueue
  /\ pluginQueue' = pluginQueue \ {p}
  /\ LET pp == pluginCache[p]
         start(phase) == pluginPass' = [pc |-> "status", name |-> p, p |-> pp, phase |-> phase]
     IN \/ ~pp.exists /\ UNCHANGED pluginPass
        \/ pp.exists /\ \E i \in Instances : BoundInstance(pp, i) /\ start(Verdict(pp, i))
        \/ /\ pp.exists /\ \A i \in Instances : ~BoundInstance(pp, i)
           /\ start(VerdictUnbound(pp))
  /\ UNCHANGED <<objects, caches, template, instanceQueue, instancePass, edits, faults>>

\* Status().Update, refused when the copy is not current.
PluginWrite ==
  LET p == pluginPass.name
      current == plugins[p] = pluginPass.p
  IN /\ pluginPass.pc = "status"
     /\ plugins' = IF current THEN [plugins EXCEPT ![p].phase = pluginPass.phase] ELSE plugins
     /\ pluginQueue' = IF current THEN pluginQueue ELSE pluginQueue \cup {p}
     /\ pluginNews' = IF plugins' = plugins THEN pluginNews ELSE pluginNews \cup {p}
     /\ pluginPass' = IdlePlugin
     /\ UNCHANGED <<instances, pluginCache, instanceCache, instanceNews, template,
                    instanceQueue, instancePass, edits, faults>>

PluginFails ==
  /\ pluginPass.pc # "idle"
  /\ faults < MaxFaults /\ faults' = faults + 1
  /\ pluginPass' = IdlePlugin /\ pluginQueue' = pluginQueue \cup {pluginPass.name}
  /\ UNCHANGED <<objects, caches, template, instanceQueue, instancePass, edits>>

----------------------------------------------------------------------------
(* JellyfinReconciler *)

InstanceStart(i) ==
  /\ instancePass.pc = "idle" /\ i \in instanceQueue
  /\ instanceQueue' = instanceQueue \ {i}
  /\ instancePass' =
       IF instanceCache[i].exists
       THEN [pc |-> "deployment", name |-> i,
             mounts |-> HealthyPlugins(BoundPlugins(i, instanceCache[i]))]
       ELSE instancePass
  /\ UNCHANGED <<objects, caches, template, pluginQueue, pluginPass, edits, faults>>

\* reconcileDeployment replaces the pod template. Of an instance that is gone the
\* garbage collector takes the Deployment.
InstanceWrite ==
  LET i == instancePass.name
  IN /\ instancePass.pc = "deployment"
     /\ template' = IF instances[i].exists THEN [template EXCEPT ![i] = instancePass.mounts]
                                           ELSE template
     /\ instancePass' = [instancePass EXCEPT !.pc = "status"]
     /\ UNCHANGED <<objects, caches, queues, pluginPass, edits, faults>>

\* Mutant: the status is different in every pass.
InstanceStatusStamped ==
  LET i == instancePass.name
      current == i \notin instanceNews /\ instances[i].exists
  IN /\ instancePass.pc = "status"
     /\ instances' = IF current THEN [instances EXCEPT ![i].loaded = instancePass.mounts]
                                ELSE instances
     /\ instanceNews' = IF current THEN instanceNews \cup {i} ELSE instanceNews
     /\ instanceQueue' = IF current THEN instanceQueue ELSE instanceQueue \cup {i}
     /\ instancePass' = IdleInstance
     /\ UNCHANGED <<plugins, pluginCache, instanceCache, pluginNews, template, pluginQueue,
                    pluginPass, edits, faults>>

\* updateStatus and writeJellyfinStatus, onto the object that the cache has: while
\* that is not current, or gone, the pass fails. A status that differs is a change
\* of the object, and wakes the instance and its plugins.
InstanceStatus ==
  LET i == instancePass.name
      current == i \notin instanceNews /\ instances[i].exists
  IN /\ instancePass.pc = "status"
     /\ instances' = IF current THEN [instances EXCEPT ![i].loaded = instancePass.mounts]
                                ELSE instances
     /\ instanceNews' = IF instances' = instances THEN instanceNews ELSE instanceNews \cup {i}
     /\ instanceQueue' = IF current THEN instanceQueue ELSE instanceQueue \cup {i}
     /\ instancePass' = IdleInstance
     /\ UNCHANGED <<plugins, pluginCache, instanceCache, pluginNews, template, pluginQueue,
                    pluginPass, edits, faults>>

InstanceFails ==
  /\ instancePass.pc # "idle"
  /\ faults < MaxFaults /\ faults' = faults + 1
  /\ instancePass' = IdleInstance
  /\ instanceQueue' = instanceQueue \cup {instancePass.name}
  /\ UNCHANGED <<objects, caches, template, pluginQueue, pluginPass, edits>>

----------------------------------------------------------------------------
(* Watches: an update maps the old and the new object *)

\* Mutant: only the new object is mapped.
PluginEventNewOnly(p) ==
  /\ p \in pluginNews /\ pluginNews' = pluginNews \ {p}
  /\ pluginCache' = [pluginCache EXCEPT ![p] = plugins[p]]
  /\ pluginQueue' = pluginQueue \cup {p}
  /\ instanceQueue' = instanceQueue \cup InstancesForPlugin(plugins[p])
  /\ UNCHANGED <<objects, instanceCache, instanceNews, template, passes, edits, faults>>

PluginEvent(p) ==
  /\ p \in pluginNews /\ pluginNews' = pluginNews \ {p}
  /\ pluginCache' = [pluginCache EXCEPT ![p] = plugins[p]]
  /\ pluginQueue' = pluginQueue \cup {p}
  /\ instanceQueue' = instanceQueue \cup InstancesForPlugin(pluginCache[p])
                                    \cup InstancesForPlugin(plugins[p])
  /\ UNCHANGED <<objects, instanceCache, instanceNews, template, passes, edits, faults>>

\* Mutant: the plugins bound to a changed instance are not queued.
InstanceEventForgetsPlugins(i) ==
  /\ i \in instanceNews /\ instanceNews' = instanceNews \ {i}
  /\ instanceCache' = [instanceCache EXCEPT ![i] = instances[i]]
  /\ instanceQueue' = instanceQueue \cup {i}
  /\ UNCHANGED <<objects, pluginCache, pluginNews, template, pluginQueue, passes, edits,
                 faults>>

InstanceEvent(i) ==
  /\ i \in instanceNews /\ instanceNews' = instanceNews \ {i}
  /\ instanceCache' = [instanceCache EXCEPT ![i] = instances[i]]
  /\ instanceQueue' = instanceQueue \cup {i}
  /\ pluginQueue' = pluginQueue \cup BoundPlugins(i, instanceCache[i])
                                \cup BoundPlugins(i, instances[i])
  /\ UNCHANGED <<objects, pluginCache, pluginNews, template, passes, edits, faults>>

\* A restarted operator lists and queues everything.
Restart ==
  /\ faults < MaxFaults /\ faults' = faults + 1
  /\ pluginCache' = plugins /\ pluginNews' = {}
  /\ instanceCache' = instances /\ instanceNews' = {}
  /\ pluginQueue' = {p \in Plugins : plugins[p].exists}
  /\ instanceQueue' = {i \in Instances : instances[i].exists}
  /\ pluginPass' = IdlePlugin /\ instancePass' = IdleInstance
  /\ UNCHANGED <<objects, template, edits>>

----------------------------------------------------------------------------
(* Users *)

EditPlugin(p) ==
  /\ edits < MaxEdits /\ edits' = edits + 1
  /\ \/ \E sp \in PluginSpecs :
          plugins' = [plugins EXCEPT ![p] = AsPlugin(sp, plugins[p].phase)]
     \/ plugins' = [plugins EXCEPT ![p] = NoPlugin]
  /\ plugins' # plugins
  /\ pluginNews' = pluginNews \cup {p}
  /\ UNCHANGED <<instances, pluginCache, instanceCache, instanceNews, template, queues, passes,
                 faults>>

\* An instance is created, edited or deleted. Its Deployment goes with it.
EditInstance(i) ==
  /\ edits < MaxEdits /\ edits' = edits + 1
  /\ \/ /\ \E sp \in InstanceSpecs :
             instances' = [instances EXCEPT ![i] = AsInstance(sp, instances[i].loaded)]
        /\ UNCHANGED template
     \/ /\ instances' = [instances EXCEPT ![i] = NoInstance]
        /\ template' = [template EXCEPT ![i] = {}]
  /\ instances' # instances
  /\ instanceNews' = instanceNews \cup {i}
  /\ UNCHANGED <<plugins, pluginCache, instanceCache, pluginNews, queues, passes, faults>>

\* JellyfinAPIReconciler writes a status back that it read before.
OtherWrites(i) ==
  /\ faults < MaxFaults /\ faults' = faults + 1
  /\ i \notin instanceNews /\ instances[i].exists
  /\ \E loaded \in (SUBSET Plugins) \ {instances[i].loaded} :
       instances' = [instances EXCEPT ![i].loaded = loaded]
  /\ instanceNews' = instanceNews \cup {i}
  /\ UNCHANGED <<plugins, pluginCache, instanceCache, pluginNews, template, queues, passes,
                 edits>>

----------------------------------------------------------------------------

PluginStep == PluginWrite \/ \E p \in Plugins : PluginStart(p)
InstanceStep == InstanceWrite \/ InstanceStatus \/ \E i \in Instances : InstanceStart(i)

Next ==
  \/ PluginStep \/ PluginFails
  \/ InstanceStep \/ InstanceFails
  \/ \E p \in Plugins : PluginEvent(p) \/ EditPlugin(p)
  \/ \E i \in Instances : InstanceEvent(i) \/ EditInstance(i) \/ OtherWrites(i)
  \/ Restart

\* A controller with a queued key works and no call blocks for ever; an informer
\* delivers the change of every object. Which of several queued keys is taken is
\* left open.
Fairness ==
  /\ WF_vars(PluginStep) /\ WF_vars(InstanceStep)
  /\ \A p \in Plugins : WF_vars(PluginEvent(p))
  /\ \A i \in Instances : WF_vars(InstanceEvent(i))

Spec == Init /\ [][Next]_vars
FairSpec == Spec /\ Fairness

----------------------------------------------------------------------------
(* Properties *)

\* Every variable keeps its type.
TypeOK ==
  /\ plugins \in [Plugins -> Plugin] /\ pluginCache \in [Plugins -> Plugin]
  /\ instances \in [Instances -> Instance] /\ instanceCache \in [Instances -> Instance]
  /\ pluginNews \in SUBSET Plugins /\ instanceNews \in SUBSET Instances
  /\ template \in [Instances -> SUBSET Plugins]
  /\ pluginQueue \in SUBSET Plugins /\ instanceQueue \in SUBSET Instances
  /\ pluginPass \in PluginPass /\ instancePass \in InstancePass
  /\ edits \in 0..MaxEdits /\ faults \in 0..MaxFaults

Binders(p) == {i \in Instances : PluginBinds(i, instances[i], plugins[p])}

\* The instances whose version may be the one a plugin is judged by: that of its
\* jellyfinRef and no other, else those that select it.
Judges(p) ==
  IF plugins[p].ref # NoRef THEN {i \in Instances : i = plugins[p].ref /\ instances[i].exists}
                            ELSE Binders(p)
Judged(p) == \A i, j \in Judges(p) : i = j

\* A plugin with a single judge is admitted by that judge, one without any if it
\* declares no targetAbi; and where it is bound it is mounted exactly if admitted,
\* whatever the version of the instance that mounts it.
Admitted(p) ==
  IF Judges(p) = {} THEN plugins[p].abi = 0
  ELSE \A i \in Judges(p) : plugins[p].abi <= instances[i].version
Gated ==
  \A p \in Plugins, i \in Instances :
    Judged(p) => (p \in template[i] <=> i \in Binders(p) /\ Admitted(p))

\* Neither controller has anything to do or to learn.
Quiet ==
  /\ pluginQueue = {} /\ instanceQueue = {}
  /\ pluginPass.pc = "idle" /\ instancePass.pc = "idle"
  /\ pluginNews = {} /\ instanceNews = {}

\* No event is lost between the two controllers, whatever is edited, created,
\* deleted, refused, restarted or read from a lagging cache: whenever both rest,
\* every plugin is mounted where it is bound unless it Failed, it has Failed
\* exactly if the instance that judges it does not admit it (boundInstance: one
\* whose jellyfinRef names an absent instance Fails although others select it,
\* and one that several bind is mounted in all of them on the word of its
\* jellyfinRef), and status.loadedPlugins lists what is mounted.
QuietMeansGated ==
  Quiet =>
    /\ Gated
    /\ \A p \in Plugins, i \in Instances :
         p \in template[i] <=> i \in Binders(p) /\ plugins[p].phase # "Failed"
    /\ \A i \in Instances : instances[i].loaded = template[i]

\* Once users leave the objects alone, a plugin with one judge is mounted where it
\* is bound exactly if that instance's version admits it, and nowhere else: a
\* plugin that failed comes back when its judge is upgraded, or created.
GateConverges == <>[]Gated

\* The two controllers do not wake each other for ever, although every verdict may
\* change the status of the instances, and every change of an instance wakes its
\* plugins: with at most one judge for every plugin, both queues run empty.
SettlesDown ==
  <>[](\A p \in Plugins : Judged(p)) => <>[](pluginQueue = {} /\ instanceQueue = {})
=============================================================================
