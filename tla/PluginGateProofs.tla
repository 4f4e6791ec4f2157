-------------------------- MODULE PluginGateProofs --------------------------
(***************************************************************************)
(* Proofs about the ABI gate: both controllers keep their objects, queues  *)
(* and passes well typed, which includes that each queue holds only keys   *)
(* of its own kind, although the watches fill one from events of the other;*)
(* and they never rest before the mounted plugins are the admitted ones.   *)
(***************************************************************************)
EXTENDS PluginGate, TLAPS

\* The values of a controller without a pass, and of a deleted object.
LEMMA IdleTypes ==
  /\ NoPlugin \in Plugin /\ NoInstance \in Instance
  /\ IdlePlugin \in PluginPass /\ IdleInstance \in InstancePass
  <1> USE GateAssumption
  <1>1. (CHOOSE p \in Plugins : TRUE) \in Plugins
    OBVIOUS
  <1>2. (CHOOSE i \in Instances : TRUE) \in Instances
    OBVIOUS
  <1>3. NoPlugin \in Plugin
    BY DEF NoPlugin, Plugin
  <1>4. NoInstance \in Instance
    BY DEF NoInstance, Instance
  <1> QED
    BY <1>1, <1>2, <1>3, <1>4 DEF IdlePlugin, IdleInstance, PluginPass, InstancePass

\* A status update and an edit of the spec yield plugins and instances.
LEMMA EditedPlugin ==
  ASSUME NEW pp \in Plugin, NEW phase \in {"none", "Failed", "Pending", "Bound"}
  PROVE  /\ [pp EXCEPT !.phase = phase] \in Plugin
         /\ \A sp \in PluginSpecs : AsPlugin(sp, phase) \in Plugin
  BY GateAssumption DEF Plugin, PluginSpec, AsPlugin

LEMMA EditedInstance ==
  ASSUME NEW ip \in Instance, NEW loaded \in SUBSET Plugins
  PROVE  /\ [ip EXCEPT !.loaded = loaded] \in Instance
         /\ \A sp \in InstanceSpecs : AsInstance(sp, loaded) \in Instance
  BY GateAssumption DEF Instance, InstanceSpec, AsInstance

\* What the mapping functions return are keys of the queue they feed.
LEMMA MappedKeys ==
  /\ \A pp : InstancesForPlugin(pp) \subseteq Instances
  /\ \A i, ip : BoundPlugins(i, ip) \subseteq Plugins
  BY DEF InstancesForPlugin, BoundPlugins

\* The initial states are well typed.
LEMMA InitTypeOK == Init => TypeOK
  <1> SUFFICES ASSUME Init PROVE TypeOK
    OBVIOUS
  <1>1. plugins \in [Plugins -> Plugin]
    <2>1. \A sp \in PluginSpecs : AsPlugin(sp, "none") \in Plugin
      BY IdleTypes, EditedPlugin
    <2> QED
      BY <2>1 DEF Init
  <1>2. instances \in [Instances -> Instance]
    <2>1. \A sp \in InstanceSpecs : AsInstance(sp, {}) \in Instance
      BY IdleTypes, EditedInstance
    <2> QED
      BY <2>1, IdleTypes DEF Init
  <1> QED
    BY <1>1, <1>2, GateAssumption, IdleTypes DEF Init, TypeOK

\* Every step of JellyfinPluginReconciler keeps the types.
LEMMA PluginTypeOK == TypeOK /\ (PluginStep \/ PluginFails) => TypeOK'
  <1> SUFFICES ASSUME TypeOK, PluginStep \/ PluginFails PROVE TypeOK'
    OBVIOUS
  <1> USE GateAssumption DEF TypeOK, objects, caches
  <1>1. ASSUME NEW p \in Plugins, PluginStart(p) PROVE TypeOK'
    <2> DEFINE pp == pluginCache[p]
               start(phase) ==
                 pluginPass' = [pc |-> "status", name |-> p, p |-> pp, phase |-> phase]
    <2>0. pp \in Plugin
      OBVIOUS
    <2>1. ASSUME NEW phase \in {"Failed", "Pending", "Bound"}, start(phase)
          PROVE  pluginPass' \in PluginPass
      BY <2>0, <2>1 DEF PluginPass
    <2>2. VerdictUnbound(pp) \in {"Failed", "Pending", "Bound"}
      BY DEF VerdictUnbound
    <2>3. \A i \in Instances : Verdict(pp, i) \in {"Failed", "Pending", "Bound"}
      BY DEF Verdict
    <2>4. pluginPass' \in PluginPass
      <3>1. CASE ~pp.exists /\ UNCHANGED pluginPass
        BY <3>1
      <3>2. CASE \E i \in Instances : start(Verdict(pp, i))
        BY <3>2, <2>1, <2>3
      <3>3. CASE start(VerdictUnbound(pp))
        BY <3>3, <2>1, <2>2
      <3> QED
        BY <1>1, <3>1, <3>2, <3>3 DEF PluginStart
    <2> QED
      BY <1>1, <2>4 DEF PluginStart
  <1>2. CASE PluginWrite
    <2> DEFINE p == pluginPass.name
    <2>1. p \in Plugins /\ pluginPass.phase \in {"Failed", "Pending", "Bound"}
      BY DEF PluginPass
    <2>2. [plugins[p] EXCEPT !.phase = pluginPass.phase] \in Plugin
      <3>1. plugins[p] \in Plugin
        BY <2>1
      <3> QED
        BY <2>1, <3>1, EditedPlugin
    <2>3. [plugins EXCEPT ![p].phase = pluginPass.phase] \in [Plugins -> Plugin]
      BY <2>1, <2>2
    <2> QED
      BY <1>2, <2>1, <2>3, IdleTypes DEF PluginWrite
  <1>3. CASE PluginFails
    <2>1. pluginPass.name \in Plugins
      BY DEF PluginPass
    <2> QED
      BY <1>3, <2>1, IdleTypes DEF PluginFails
  <1> QED
    BY <1>1, <1>2, <1>3 DEF PluginStep

\* Every step of JellyfinReconciler keeps the types.
LEMMA InstanceTypeOK == TypeOK /\ (InstanceStep \/ InstanceFails) => TypeOK'
  <1> SUFFICES ASSUME TypeOK, InstanceStep \/ InstanceFails PROVE TypeOK'
    OBVIOUS
  <1> USE GateAssumption DEF TypeOK, objects, caches, queues
  <1>1. ASSUME NEW i \in Instances, InstanceStart(i) PROVE TypeOK'
    <2>1. HealthyPlugins(BoundPlugins(i, instanceCache[i])) \subseteq Plugins
      BY MappedKeys DEF HealthyPlugins
    <2>2. instancePass' \in InstancePass
      BY <1>1, <2>1 DEF InstanceStart, InstancePass
    <2> QED
      BY <1>1, <2>2 DEF InstanceStart
  <1>0. instancePass.name \in Instances /\ instancePass.mounts \subseteq Plugins
    BY DEF InstancePass
  <1>2. CASE InstanceWrite
    <2>1. [instancePass EXCEPT !.pc = "status"] \in InstancePass
      BY DEF InstancePass
    <2> QED
      BY <1>0, <1>2, <2>1 DEF InstanceWrite
  <1>4. CASE InstanceStatus
    <2>1. [instances EXCEPT ![instancePass.name].loaded = instancePass.mounts]
            \in [Instances -> Instance]
      BY <1>0, EditedInstance
    <2> QED
      BY <1>0, <1>4, <2>1, IdleTypes DEF InstanceStatus
  <1>3. CASE InstanceFails
    <2>1. instancePass.name \in Instances
      BY DEF InstancePass
    <2> QED
      BY <1>3, <2>1, IdleTypes DEF InstanceFails
  <1> QED
    BY <1>1, <1>2, <1>3, <1>4 DEF InstanceStep

\* Every step of the environment keeps the types.
LEMMA EnvironmentTypeOK ==
  ASSUME TypeOK,
         \/ \E p \in Plugins : PluginEvent(p) \/ EditPlugin(p)
         \/ \E i \in Instances : InstanceEvent(i) \/ EditInstance(i) \/ OtherWrites(i)
         \/ Restart
  PROVE  TypeOK'
  <1> USE GateAssumption DEF TypeOK, objects, caches, queues, passes
  <1>1. ASSUME NEW p \in Plugins, PluginEvent(p) PROVE TypeOK'
    BY <1>1, MappedKeys DEF PluginEvent
  <1>2. ASSUME NEW p \in Plugins, EditPlugin(p) PROVE TypeOK'
    <2>1. plugins[p].phase \in {"none", "Failed", "Pending", "Bound"}
      BY DEF Plugin
    <2>2. ASSUME NEW pp \in Plugin PROVE [plugins EXCEPT ![p] = pp] \in [Plugins -> Plugin]
      OBVIOUS
    <2>3. \A sp \in PluginSpecs : AsPlugin(sp, plugins[p].phase) \in Plugin
      BY <2>1, IdleTypes, EditedPlugin
    <2>4. plugins' \in [Plugins -> Plugin]
      BY <1>2, <2>2, <2>3, IdleTypes DEF EditPlugin
    <2> QED
      BY <1>2, <2>4 DEF EditPlugin
  <1>3. ASSUME NEW i \in Instances, InstanceEvent(i) PROVE TypeOK'
    BY <1>3, MappedKeys DEF InstanceEvent
  <1>4. ASSUME NEW i \in Instances, EditInstance(i) PROVE TypeOK'
    <2>1. instances[i].loaded \in SUBSET Plugins
      BY DEF Instance
    <2>2. ASSUME NEW ip \in Instance
          PROVE  [instances EXCEPT ![i] = ip] \in [Instances -> Instance]
      OBVIOUS
    <2>3. \A sp \in InstanceSpecs : AsInstance(sp, instances[i].loaded) \in Instance
      BY <2>1, IdleTypes, EditedInstance
    <2>4. instances' \in [Instances -> Instance] /\ template' \in [Instances -> SUBSET Plugins]
      BY <1>4, <2>2, <2>3, IdleTypes DEF EditInstance
    <2> QED
      BY <1>4, <2>4 DEF EditInstance
  <1>5. CASE Restart
    BY <1>5, IdleTypes DEF Restart
  <1>6. ASSUME NEW i \in Instances, OtherWrites(i) PROVE TypeOK'
    <2>1. ASSUME NEW loaded \in SUBSET Plugins
          PROVE  [instances EXCEPT ![i].loaded = loaded] \in [Instances -> Instance]
      BY EditedInstance
    <2>2. PICK loaded \in SUBSET Plugins : instances' = [instances EXCEPT ![i].loaded = loaded]
      BY <1>6 DEF OtherWrites
    <2>3. instances' \in [Instances -> Instance]
      BY <2>1, <2>2
    <2> QED
      BY <1>6, <2>3 DEF OtherWrites
  <1> QED
    BY <1>1, <1>2, <1>3, <1>4, <1>5, <1>6

\* Every variable keeps its type, for all sets of plugins and instances: in
\* particular the watches of SetupWithManager put only plugins in the one queue
\* and only instances in the other.
THEOREM TypeCorrect == Spec => []TypeOK
  <1>1. TypeOK /\ [Next]_vars => TypeOK'
    <2> SUFFICES ASSUME TypeOK, [Next]_vars PROVE TypeOK'
      OBVIOUS
    <2>1. CASE Next
      BY <2>1, PluginTypeOK, InstanceTypeOK, EnvironmentTypeOK DEF Next
    <2>2. CASE UNCHANGED vars
      BY <2>2 DEF TypeOK, vars
    <2> QED
      BY <2>1, <2>2
  <1> QED
    BY <1>1, InitTypeOK, PTL DEF Spec

----------------------------------------------------------------------------
(* What the two controllers remember *)

\* phase is a verdict that JellyfinPluginReconciler may reach about pp from the
\* instances in its cache.
Legit(pp, phase) ==
  IF \E i \in Instances : BoundInstance(pp, i)
  THEN \E i \in Instances : BoundInstance(pp, i) /\ phase = Verdict(pp, i)
  ELSE phase = VerdictUnbound(pp)

\* What JellyfinReconciler mounts in i from its caches.
Mounts(i) == HealthyPlugins(BoundPlugins(i, instanceCache[i]))

\* A cache is behind only with an event to come.
CacheKept == \A p \in Plugins : p \in pluginNews \/ pluginCache[p] = plugins[p]
InstanceCacheKept ==
  \A i \in Instances : i \in instanceNews \/ instanceCache[i] = instances[i]

\* A pass whose key was not put back since it began works on current copies.
PluginPassKept ==
  pluginPass.pc = "status" /\ pluginPass.name \notin pluginQueue =>
    /\ pluginPass.p = pluginCache[pluginPass.name] /\ pluginPass.p.exists
    /\ Legit(pluginPass.p, pluginPass.phase)
InstancePassKept ==
  /\ instancePass.pc = "deployment" /\ instancePass.name \notin instanceQueue =>
       instancePass.mounts = Mounts(instancePass.name)
  /\ (/\ instancePass.pc = "status"
      /\ instancePass.name \notin instanceQueue \cup instanceNews)
     => template[instancePass.name] = instancePass.mounts

\* A plugin without a current verdict has its pass ahead, and so has an instance
\* whose template or status is out of date.
ToValidate(p) ==
  \/ p \in pluginQueue \/ p \in pluginNews
  \/ pluginPass.pc = "status" /\ pluginPass.name = p
VerdictsKept ==
  \A p \in Plugins :
    ToValidate(p) \/ ~plugins[p].exists \/ Legit(plugins[p], plugins[p].phase)
ToMount(i) ==
  \/ i \in instanceQueue \/ i \in instanceNews
  \/ instancePass.pc = "deployment" /\ instancePass.name = i
ToList(i) == ToMount(i) \/ (instancePass.pc = "status" /\ instancePass.name = i)
TemplatesKept ==
  \A i \in Instances :
    /\ ToMount(i) \/ template[i] = Mounts(i)
    /\ ToList(i) \/ instances[i].loaded = template[i]

\* An instance that is gone has neither Deployment nor status.
NothingLeft ==
  \A i \in Instances : ~instances[i].exists => template[i] = {} /\ instances[i].loaded = {}

VerdictInv == CacheKept /\ PluginPassKept /\ VerdictsKept
TemplateInv == InstanceCacheKept /\ NothingLeft /\ InstancePassKept /\ TemplatesKept
GateInv == TypeOK /\ VerdictInv /\ TemplateInv

\* Verdicts and bindings depend on a plugin's spec alone, not on its phase.
LEMMA LegitOfSpec ==
  ASSUME NEW pp \in Plugin, NEW qq \in Plugin, NEW phase,
         pp.exists = qq.exists, pp.ref = qq.ref, pp.abi = qq.abi
  PROVE  Legit(pp, phase) = Legit(qq, phase)
  BY DEF Legit, BoundInstance, PluginBinds, Verdict, VerdictUnbound

\* While the instance cache stays, so do verdicts and bindings.
LEMMA SameInstances ==
  ASSUME UNCHANGED instanceCache
  PROVE  /\ \A pp, phase : Legit(pp, phase)' = Legit(pp, phase)
         /\ \A pp : InstancesForPlugin(pp)' = InstancesForPlugin(pp)
  BY DEF Legit, BoundInstance, PluginBinds, Verdict, VerdictUnbound, InstancesForPlugin

\* An instance that binds pp neither before nor after it changed has no part in
\* the verdict.
LEMMA UnboundInstance ==
  ASSUME NEW pp \in Plugin, NEW phase, NEW i \in Instances, NEW new,
         instanceCache \in [Instances -> Instance], new \in Instance,
         instanceCache' = [instanceCache EXCEPT ![i] = new],
         pp.exists,
         ~PluginBinds(i, instanceCache[i], pp), ~PluginBinds(i, new, pp)
  PROVE  Legit(pp, phase)' = Legit(pp, phase)
  <1>1. ASSUME NEW j \in Instances
        PROVE  /\ BoundInstance(pp, j)' = BoundInstance(pp, j)
               /\ BoundInstance(pp, j) => Verdict(pp, j)' = Verdict(pp, j)
    <2>1. CASE j = i
      <3>1. ~BoundInstance(pp, j) /\ ~BoundInstance(pp, j)'
        BY <2>1 DEF BoundInstance, PluginBinds
      <3> QED
        BY <3>1 DEF BoundInstance, PluginBinds
    <2>2. CASE j # i
      <3>1. instanceCache'[j] = instanceCache[j]
        BY <2>2
      <3> QED
        BY <3>1 DEF BoundInstance, PluginBinds, Verdict
    <2> QED
      BY <2>1, <2>2
  <1> QED
    BY <1>1 DEF Legit, VerdictUnbound

\* The template of i follows from the two caches.
LEMMA SameMounts ==
  ASSUME UNCHANGED <<pluginCache, instanceCache>>
  PROVE  \A i : Mounts(i)' = Mounts(i)
  BY DEF Mounts, HealthyPlugins, BoundPlugins, PluginBinds

\* An instance that the cache does not have mounts nothing.
LEMMA AbsentMounts ==
  ASSUME NEW i \in Instances, ~instanceCache[i].exists
  PROVE  Mounts(i) = {}
  BY DEF Mounts, HealthyPlugins, BoundPlugins, PluginBinds

LEMMA InitGateInv == Init => GateInv
  <1> SUFFICES ASSUME Init PROVE GateInv
    OBVIOUS
  <1>1. TypeOK
    BY InitTypeOK
  <1>2. VerdictInv
    BY DEF Init, VerdictInv, CacheKept, PluginPassKept, VerdictsKept, ToValidate, IdlePlugin
  <1>3. NothingLeft
    <2>1. \A i \in Instances :
            instances[i] = NoInstance \/ \E sp \in InstanceSpecs : instances[i] = AsInstance(sp, {})
      BY DEF Init
    <2> QED
      BY <2>1 DEF Init, NothingLeft, NoInstance, AsInstance
  <1> QED
    BY <1>1, <1>2, <1>3 DEF Init, GateInv, TemplateInv, InstanceCacheKept, InstancePassKept,
       TemplatesKept, ToList, ToMount, IdleInstance

\* JellyfinPluginReconciler keeps its part of the invariant.
LEMMA PluginGateInv ==
  ASSUME GateInv, PluginStep \/ PluginFails
  PROVE  VerdictInv'
  <1> USE DEF GateInv, VerdictInv, objects, caches
  <1>0. /\ plugins \in [Plugins -> Plugin] /\ pluginCache \in [Plugins -> Plugin]
        /\ pluginPass \in PluginPass
    BY DEF TypeOK
  <1>1. UNCHANGED instanceCache /\ UNCHANGED pluginCache
    BY DEF PluginStep, PluginFails, PluginStart, PluginWrite
  <1>2. \A pp, phase : Legit(pp, phase)' = Legit(pp, phase)
    BY <1>1, SameInstances
  <1>3. ASSUME NEW p \in Plugins, PluginStart(p)
        PROVE  VerdictInv'
    <2> DEFINE pp == pluginCache[p]
    <2>1. UNCHANGED <<plugins, pluginNews>> /\ pluginQueue' = pluginQueue \ {p}
      BY <1>3 DEF PluginStart
    <2>2. CacheKept'
      BY <2>1, <1>1 DEF CacheKept
    <2>3. CASE ~pp.exists /\ UNCHANGED pluginPass
      <3>1. pluginPass.pc = "idle"
        BY <1>3 DEF PluginStart
      <3>2. PluginPassKept'
        BY <2>3, <3>1 DEF PluginPassKept
      <3>3. ASSUME NEW q \in Plugins
            PROVE  (ToValidate(q) \/ ~plugins[q].exists \/ Legit(plugins[q], plugins[q].phase))'
        <4>1. CASE q = p
          BY <4>1, <2>1, <2>3 DEF CacheKept, ToValidate
        <4>2. CASE q # p
          BY <4>2, <2>1, <2>3, <1>2 DEF VerdictsKept, ToValidate
        <4> QED
          BY <4>1, <4>2
      <3> QED
        BY <2>2, <3>2, <3>3 DEF VerdictsKept
    <2>4. CASE \E phase : /\ Legit(pp, phase) /\ pp.exists
                          /\ pluginPass' = [pc |-> "status", name |-> p, p |-> pp, phase |-> phase]
      <3>1. PluginPassKept'
        BY <2>4, <1>1, <1>2 DEF PluginPassKept
      <3>2. pluginPass.pc = "idle"
        BY <1>3 DEF PluginStart
      <3>3. ASSUME NEW q \in Plugins
            PROVE  (ToValidate(q) \/ ~plugins[q].exists \/ Legit(plugins[q], plugins[q].phase))'
        <4>1. CASE q = p
          BY <4>1, <2>4 DEF ToValidate
        <4>2. CASE q # p
          BY <4>2, <2>1, <3>2, <1>2 DEF VerdictsKept, ToValidate
        <4> QED
          BY <4>1, <4>2
      <3> QED
        BY <2>2, <3>1, <3>3 DEF VerdictsKept
    <2>5. ASSUME NEW i \in Instances, BoundInstance(pp, i) PROVE Legit(pp, Verdict(pp, i))
      BY <2>5 DEF Legit
    <2>6. (\A i \in Instances : ~BoundInstance(pp, i)) => Legit(pp, VerdictUnbound(pp))
      BY DEF Legit
    <2> QED
      BY <1>3, <2>3, <2>4, <2>5, <2>6 DEF PluginStart
  <1>4. CASE PluginWrite
    <2> DEFINE p == pluginPass.name
               current == plugins[p] = pluginPass.p
    <2>1. /\ p \in Plugins /\ pluginPass.phase \in {"none", "Failed", "Pending", "Bound"}
          /\ pluginPass.pc = "status" /\ pluginPass'.pc = "idle"
          /\ UNCHANGED pluginCache
      BY <1>0, <1>4 DEF PluginPass, PluginWrite, IdlePlugin
    <2>2. PluginPassKept'
      BY <2>1 DEF PluginPassKept
    <2>3. CASE ~current
      <3>1. UNCHANGED <<plugins, pluginNews>> /\ pluginQueue' = pluginQueue \cup {p}
        BY <1>4, <2>3 DEF PluginWrite
      <3> QED
        BY <3>1, <2>1, <2>2, <1>2 DEF CacheKept, VerdictsKept, ToValidate
    <2>4. CASE current
      <3> DEFINE new == [plugins[p] EXCEPT !.phase = pluginPass.phase]
      <3>1. /\ plugins' = [plugins EXCEPT ![p] = new]
            /\ pluginNews' = IF plugins' = plugins THEN pluginNews ELSE pluginNews \cup {p}
            /\ UNCHANGED pluginQueue
        BY <1>4, <2>4 DEF PluginWrite
      <3>2. plugins[p] \in Plugin
        BY <1>0, <2>1
      <3>3. new \in Plugin
        BY <2>1, <3>2, EditedPlugin
      <3>4. new.exists = plugins[p].exists /\ new.ref = plugins[p].ref
            /\ new.abi = plugins[p].abi /\ new.phase = pluginPass.phase
        BY <3>2 DEF Plugin
      <3>5. \A q \in Plugins : plugins'[q] = IF q = p THEN new ELSE plugins[q]
        BY <1>0, <2>1, <3>1
      <3>6. CacheKept'
        <4>1. CASE plugins' = plugins
          BY <4>1, <3>1, <2>1 DEF CacheKept
        <4>2. CASE plugins' # plugins
          BY <4>2, <3>1, <3>5, <2>1 DEF CacheKept
        <4> QED
          BY <4>1, <4>2
      <3>7. p \in pluginQueue \/ Legit(new, new.phase)
        <4>1. p \in pluginQueue \/ Legit(plugins[p], pluginPass.phase)
          BY <2>1, <2>4 DEF PluginPassKept
        <4> QED
          BY <4>1, <3>2, <3>3, <3>4, LegitOfSpec
      <3>8. ASSUME NEW q \in Plugins
            PROVE  (ToValidate(q) \/ ~plugins[q].exists \/ Legit(plugins[q], plugins[q].phase))'
        <4>1. CASE q = p
          BY <4>1, <3>1, <3>5, <3>7, <1>2 DEF ToValidate
        <4>2. CASE q # p
          <5>1. plugins'[q] = plugins[q]
            BY <4>2, <3>5
          <5>2. q \in pluginNews => q \in pluginNews'
            BY <3>1
          <5> QED
            BY <4>2, <5>1, <5>2, <3>1, <1>2 DEF VerdictsKept, ToValidate
        <4> QED
          BY <4>1, <4>2
      <3> QED
        BY <2>2, <3>6, <3>8 DEF VerdictsKept
    <2> QED
      BY <2>3, <2>4
  <1>5. CASE PluginFails
    <2>1. /\ pluginPass'.pc = "idle" /\ pluginQueue' = pluginQueue \cup {pluginPass.name}
          /\ UNCHANGED <<plugins, pluginNews>>
      BY <1>5 DEF PluginFails, IdlePlugin
    <2> QED
      BY <2>1, <1>1, <1>2 DEF CacheKept, PluginPassKept, VerdictsKept, ToValidate
  <1> QED
    BY <1>3, <1>4, <1>5 DEF PluginStep

\* JellyfinReconciler keeps its part.
LEMMA InstanceGateInv ==
  ASSUME GateInv, InstanceStep \/ InstanceFails
  PROVE  TemplateInv'
  <1> USE DEF GateInv, TemplateInv, objects, caches, queues
  <1>0. /\ template \in [Instances -> SUBSET Plugins] /\ instancePass \in InstancePass
        /\ instances \in [Instances -> Instance]
        /\ instancePass.name \in Instances
    BY DEF TypeOK, InstancePass
  <1>1. UNCHANGED <<pluginCache, instanceCache>> /\ \A i : Mounts(i)' = Mounts(i)
    <2>1. UNCHANGED <<pluginCache, instanceCache>>
      BY DEF InstanceStep, InstanceFails, InstanceStart, InstanceWrite, InstanceStatus
    <2> QED
      BY <2>1, SameMounts
  <1>2. ASSUME NEW i \in Instances, InstanceStart(i) PROVE TemplateInv'
    <2>1. /\ instancePass.pc = "idle" /\ instanceQueue' = instanceQueue \ {i}
          /\ instancePass' = IF instanceCache[i].exists
                             THEN [pc |-> "deployment", name |-> i, mounts |-> Mounts(i)]
                             ELSE instancePass
          /\ UNCHANGED <<template, instances, instanceNews>>
      BY <1>2 DEF InstanceStart, Mounts
    <2>2. InstanceCacheKept' /\ NothingLeft'
      BY <2>1, <1>1 DEF InstanceCacheKept, NothingLeft
    <2>3. InstancePassKept'
      BY <2>1, <1>1 DEF InstancePassKept
    <2>4. ASSUME NEW j \in Instances
          PROVE  /\ (ToMount(j) \/ template[j] = Mounts(j))'
                 /\ (ToList(j) \/ instances[j].loaded = template[j])'
      <3>1. CASE j = i /\ ~instanceCache[i].exists
        <4>1. CASE i \in instanceNews
          BY <3>1, <4>1, <2>1 DEF ToMount, ToList
        <4>2. CASE i \notin instanceNews
          <5>1. ~instances[i].exists
            BY <3>1, <4>2 DEF InstanceCacheKept
          <5>2. template[i] = {} /\ instances[i].loaded = {} /\ Mounts(i) = {}
            BY <3>1, <5>1, AbsentMounts DEF NothingLeft
          <5> QED
            BY <3>1, <5>2, <2>1, <1>1
        <4> QED
          BY <4>1, <4>2
      <3>2. CASE j = i /\ instanceCache[i].exists
        BY <3>2, <2>1 DEF ToMount, ToList
      <3>3. CASE j # i
        BY <3>3, <2>1, <1>1 DEF TemplatesKept, ToMount, ToList
      <3> QED
        BY <3>1, <3>2, <3>3
    <2> QED
      BY <2>2, <2>3, <2>4 DEF TemplatesKept
  <1>3. CASE InstanceWrite
    <2> DEFINE i == instancePass.name
    <2>1. /\ instancePass.pc = "deployment" /\ instancePass'.pc = "status"
          /\ instancePass'.name = i /\ instancePass'.mounts = instancePass.mounts
          /\ UNCHANGED <<instances, instanceNews, instanceQueue>>
          /\ template' = IF instances[i].exists
                         THEN [template EXCEPT ![i] = instancePass.mounts] ELSE template
      BY <1>0, <1>3 DEF InstanceWrite, InstancePass
    <2>2. InstanceCacheKept' /\ NothingLeft'
      BY <2>1, <1>0, <1>1 DEF InstanceCacheKept, NothingLeft
    <2>3. i \in instanceQueue \cup instanceNews
            \/ (template'[i] = instancePass.mounts /\ instancePass.mounts = Mounts(i))
      <3> SUFFICES ASSUME i \notin instanceQueue, i \notin instanceNews
                   PROVE  template'[i] = instancePass.mounts /\ instancePass.mounts = Mounts(i)
        OBVIOUS
      <3>1. instancePass.mounts = Mounts(i)
        BY <2>1 DEF InstancePassKept
      <3>2. CASE instances[i].exists
        BY <3>1, <3>2, <2>1, <1>0
      <3>3. CASE ~instances[i].exists
        <4>1. ~instanceCache[i].exists
          BY <3>3, <1>0 DEF InstanceCacheKept
        <4>2. Mounts(i) = {} /\ template[i] = {}
          BY <3>3, <4>1, <1>0, AbsentMounts DEF NothingLeft
        <4> QED
          BY <3>1, <3>3, <4>2, <2>1
      <3> QED
        BY <3>2, <3>3
    <2>4. InstancePassKept'
      BY <2>1, <2>3 DEF InstancePassKept
    <2>5. ASSUME NEW j \in Instances
          PROVE  /\ (ToMount(j) \/ template[j] = Mounts(j))'
                 /\ (ToList(j) \/ instances[j].loaded = template[j])'
      <3>1. CASE j = i
        BY <3>1, <2>1, <2>3, <1>1 DEF ToMount, ToList
      <3>2. CASE j # i
        BY <3>2, <2>1, <1>0, <1>1 DEF TemplatesKept, ToMount, ToList
      <3> QED
        BY <3>1, <3>2
    <2> QED
      BY <2>2, <2>4, <2>5 DEF TemplatesKept
  <1>4. CASE InstanceStatus
    <2> DEFINE i == instancePass.name
               current == i \notin instanceNews /\ instances[i].exists
               new == [instances[i] EXCEPT !.loaded = instancePass.mounts]
    <2>1. /\ instancePass.pc = "status" /\ instancePass'.pc = "idle"
          /\ instances' = IF current THEN [instances EXCEPT ![i] = new] ELSE instances
          /\ instanceNews' = IF instances' = instances THEN instanceNews
                                                       ELSE instanceNews \cup {i}
          /\ instanceQueue' = IF current THEN instanceQueue ELSE instanceQueue \cup {i}
          /\ UNCHANGED template
      BY <1>4 DEF InstanceStatus, IdleInstance
    <2>2. InstancePassKept'
      BY <2>1 DEF InstancePassKept
    <2>3. CASE instances' = instances
      <3>1. InstanceCacheKept' /\ NothingLeft'
        BY <2>1, <2>3, <1>1 DEF InstanceCacheKept, NothingLeft
      <3>2. current => instances[i].loaded = instancePass.mounts
        <4>1. instances[i] \in Instance
          BY <1>0
        <4>2. new.loaded = instancePass.mounts
          BY <4>1 DEF Instance
        <4> QED
          BY <2>1, <2>3, <4>2, <1>0
      <3>3. i \in instanceQueue' \/ i \in instanceNews \/ instances[i].loaded = template[i]
        BY <3>2, <2>1 DEF InstancePassKept
      <3>4. ASSUME NEW j \in Instances
            PROVE  /\ (ToMount(j) \/ template[j] = Mounts(j))'
                   /\ (ToList(j) \/ instances[j].loaded = template[j])'
        <4>1. CASE j = i
          BY <4>1, <3>3, <2>1, <2>3, <1>1 DEF TemplatesKept, ToMount, ToList
        <4>2. CASE j # i
          BY <4>2, <2>1, <2>3, <1>1 DEF TemplatesKept, ToMount, ToList
        <4> QED
          BY <4>1, <4>2
      <3> QED
        BY <2>2, <3>1, <3>4 DEF TemplatesKept
    <2>4. CASE instances' # instances
      <3>1. /\ instances' = [instances EXCEPT ![i] = new] /\ instances[i].exists
            /\ instanceNews' = instanceNews \cup {i} /\ UNCHANGED instanceQueue
        BY <2>1, <2>4
      <3>2. new.exists = instances[i].exists
        <4>1. instances[i] \in Instance
          BY <1>0
        <4> QED
          BY <4>1 DEF Instance
      <3>3. \A j \in Instances : instances'[j] = IF j = i THEN new ELSE instances[j]
        BY <3>1, <1>0
      <3>4. InstanceCacheKept' /\ NothingLeft'
        BY <3>1, <3>2, <3>3, <2>1, <1>1 DEF InstanceCacheKept, NothingLeft
      <3>5. ASSUME NEW j \in Instances
            PROVE  /\ (ToMount(j) \/ template[j] = Mounts(j))'
                   /\ (ToList(j) \/ instances[j].loaded = template[j])'
        <4>1. CASE j = i
          BY <4>1, <3>1 DEF ToMount, ToList
        <4>2. CASE j # i
          BY <4>2, <3>1, <3>3, <2>1, <1>1 DEF TemplatesKept, ToMount, ToList
        <4> QED
          BY <4>1, <4>2
      <3> QED
        BY <2>2, <3>4, <3>5 DEF TemplatesKept
    <2> QED
      BY <2>3, <2>4
  <1>5. CASE InstanceFails
    <2>1. /\ instancePass'.pc = "idle" /\ UNCHANGED <<template, instances, instanceNews>>
          /\ instanceQueue' = instanceQueue \cup {instancePass.name}
      BY <1>5 DEF InstanceFails, IdleInstance
    <2>2. InstanceCacheKept' /\ NothingLeft' /\ InstancePassKept'
      BY <2>1, <1>1 DEF InstanceCacheKept, NothingLeft, InstancePassKept
    <2>3. TemplatesKept'
      BY <2>1, <1>1 DEF TemplatesKept, ToMount, ToList
    <2> QED
      BY <2>2, <2>3
  <1> QED
    BY <1>2, <1>3, <1>4, <1>5 DEF InstanceStep

\* Each controller leaves the other's part alone.
LEMMA PluginLeavesTemplates ==
  ASSUME GateInv, PluginStep \/ PluginFails
  PROVE  TemplateInv'
  <1>1. UNCHANGED <<instances, pluginCache, instanceCache, instanceNews, template,
                    instanceQueue, instancePass>>
    BY DEF PluginStep, PluginFails, PluginStart, PluginWrite, caches, objects
  <1>2. \A i : Mounts(i)' = Mounts(i)
    BY <1>1, SameMounts
  <1> QED
    BY <1>1, <1>2 DEF GateInv, TemplateInv, InstanceCacheKept, NothingLeft, InstancePassKept,
       TemplatesKept, ToMount, ToList

LEMMA InstanceLeavesVerdicts ==
  ASSUME GateInv, InstanceStep \/ InstanceFails
  PROVE  VerdictInv'
  <1>1. UNCHANGED <<plugins, pluginCache, instanceCache, pluginNews, pluginQueue, pluginPass>>
    BY DEF InstanceStep, InstanceFails, InstanceStart, InstanceWrite, InstanceStatus, caches,
       objects, queues
  <1>2. \A pp, phase : Legit(pp, phase)' = Legit(pp, phase)
    BY <1>1, SameInstances
  <1> QED
    BY <1>1, <1>2 DEF GateInv, VerdictInv, CacheKept, PluginPassKept, VerdictsKept, ToValidate

\* A plugin's event moves the cache and queues the plugin and every instance
\* that binds it by the old copy or the new one.
LEMMA PluginEventGateInv ==
  ASSUME GateInv, NEW p \in Plugins, PluginEvent(p)
  PROVE  VerdictInv' /\ TemplateInv'
  <1> USE DEF GateInv, VerdictInv, TemplateInv, objects, passes
  <1>0. /\ plugins \in [Plugins -> Plugin] /\ pluginCache \in [Plugins -> Plugin]
        /\ pluginPass \in PluginPass /\ instancePass \in InstancePass
    BY DEF TypeOK
  <1>1. /\ pluginCache' = [pluginCache EXCEPT ![p] = plugins[p]]
        /\ pluginNews' = pluginNews \ {p}
        /\ pluginQueue' = pluginQueue \cup {p}
        /\ instanceQueue' = instanceQueue \cup InstancesForPlugin(pluginCache[p])
                                          \cup InstancesForPlugin(plugins[p])
        /\ UNCHANGED <<plugins, instances, instanceCache, instanceNews, pluginPass,
                       instancePass, template>>
    BY DEF PluginEvent
  <1>2. \A pp, phase : Legit(pp, phase)' = Legit(pp, phase)
    BY <1>1, SameInstances
  <1>3. \A q \in Plugins : pluginCache'[q] = IF q = p THEN plugins[p] ELSE pluginCache[q]
    BY <1>0, <1>1
  <1>4. CacheKept' /\ VerdictsKept'
    BY <1>1, <1>2, <1>3 DEF CacheKept, VerdictsKept, ToValidate
  <1>5. PluginPassKept'
    <2>1. pluginPass.name \in Plugins
      BY <1>0 DEF PluginPass
    <2> QED
      BY <2>1, <1>1, <1>2, <1>3 DEF PluginPassKept
  <1>6. ASSUME NEW i \in Instances, i \notin instanceQueue' PROVE Mounts(i)' = Mounts(i)
    <2>1. /\ ~PluginBinds(i, instanceCache[i], pluginCache[p])
          /\ ~PluginBinds(i, instanceCache[i], plugins[p])
      BY <1>1, <1>6 DEF InstancesForPlugin
    <2>2. \A q \in Plugins :
            /\ PluginBinds(i, instanceCache[i], pluginCache[q])
            /\ pluginCache[q].phase # "Failed"
            <=> /\ PluginBinds(i, instanceCache'[i], pluginCache'[q])
                /\ pluginCache'[q].phase # "Failed"
      BY <2>1, <1>1, <1>3
    <2>3. Mounts(i) = {q \in Plugins : /\ PluginBinds(i, instanceCache[i], pluginCache[q])
                                       /\ pluginCache[q].phase # "Failed"}
      BY DEF Mounts, HealthyPlugins, BoundPlugins
    <2>4. Mounts(i)' = {q \in Plugins : /\ PluginBinds(i, instanceCache'[i], pluginCache'[q])
                                        /\ pluginCache'[q].phase # "Failed"}
      BY DEF Mounts, HealthyPlugins, BoundPlugins, PluginBinds
    <2> QED
      BY <2>2, <2>3, <2>4
  <1>7. InstancePassKept'
    <2>1. instancePass.name \in Instances
      BY <1>0 DEF InstancePass
    <2> QED
      BY <2>1, <1>1, <1>6 DEF InstancePassKept
  <1>8. InstanceCacheKept' /\ NothingLeft'
    BY <1>1 DEF InstanceCacheKept, NothingLeft
  <1>9. TemplatesKept'
    BY <1>1, <1>6 DEF TemplatesKept, ToMount, ToList
  <1> QED
    BY <1>4, <1>5, <1>7, <1>8, <1>9

\* An instance's event moves the cache and queues the instance and every plugin
\* that it binds by the old copy or the new one.
LEMMA InstanceEventGateInv ==
  ASSUME GateInv, NEW i \in Instances, InstanceEvent(i)
  PROVE  VerdictInv' /\ TemplateInv'
  <1> USE DEF GateInv, VerdictInv, TemplateInv, objects, passes
  <1>0. /\ plugins \in [Plugins -> Plugin] /\ pluginCache \in [Plugins -> Plugin]
        /\ instances \in [Instances -> Instance]
        /\ instanceCache \in [Instances -> Instance]
        /\ pluginPass \in PluginPass /\ instancePass \in InstancePass
    BY DEF TypeOK
  <1>1. /\ instanceCache' = [instanceCache EXCEPT ![i] = instances[i]]
        /\ instanceNews' = instanceNews \ {i}
        /\ instanceQueue' = instanceQueue \cup {i}
        /\ pluginQueue' = pluginQueue \cup BoundPlugins(i, instanceCache[i])
                                      \cup BoundPlugins(i, instances[i])
        /\ UNCHANGED <<plugins, instances, pluginCache, pluginNews, pluginPass, instancePass,
                       template>>
    BY DEF InstanceEvent
  <1>2. CacheKept'
    BY <1>1 DEF CacheKept
  <1>3. ASSUME NEW p \in Plugins, p \notin pluginQueue', pluginCache[p].exists, NEW phase
        PROVE  Legit(pluginCache[p], phase)' = Legit(pluginCache[p], phase)
    <2>1. /\ ~PluginBinds(i, instanceCache[i], pluginCache[p])
          /\ ~PluginBinds(i, instances[i], pluginCache[p])
      BY <1>1, <1>3 DEF BoundPlugins
    <2> DEFINE pp == pluginCache[p]
               new == instances[i]
    <2>2. pp \in Plugin /\ new \in Instance
      BY <1>0
    <2> HIDE DEF pp, new
    <2>3. Legit(pp, phase)' = Legit(pp, phase)
      <3>1. pp' = pp
        BY <1>1 DEF pp
      <3>2. /\ instanceCache' = [instanceCache EXCEPT ![i] = new] /\ pp.exists
            /\ ~PluginBinds(i, instanceCache[i], pp) /\ ~PluginBinds(i, new, pp)
        BY <1>1, <1>3, <2>1 DEF pp, new
      <3> QED
        BY <1>0, <2>2, <3>1, <3>2, UnboundInstance
    <2> QED
      BY <2>3 DEF pp
  <1>4. VerdictsKept'
    <2> SUFFICES ASSUME NEW p \in Plugins, ~ToValidate(p)', plugins[p].exists
                 PROVE  Legit(plugins[p], plugins[p].phase)'
      BY <1>1 DEF VerdictsKept
    <2>1. ~ToValidate(p) /\ p \notin pluginQueue' /\ p \notin pluginNews
      BY <1>1 DEF ToValidate
    <2>2. pluginCache[p] = plugins[p]
      BY <2>1 DEF CacheKept
    <2>3. Legit(pluginCache[p], pluginCache[p].phase)
      BY <2>1, <2>2 DEF VerdictsKept
    <2> QED
      BY <2>1, <2>2, <2>3, <1>1, <1>3
  <1>5. PluginPassKept'
    <2>1. pluginPass.name \in Plugins
      BY <1>0 DEF PluginPass
    <2> QED
      BY <2>1, <1>1, <1>3 DEF PluginPassKept
  <1>6. ASSUME NEW j \in Instances, j \notin instanceQueue' PROVE Mounts(j)' = Mounts(j)
    <2>1. instanceCache'[j] = instanceCache[j]
      BY <1>0, <1>1, <1>6
    <2> QED
      BY <2>1, <1>1 DEF Mounts, HealthyPlugins, BoundPlugins, PluginBinds
  <1>7. InstancePassKept'
    <2>1. instancePass.name \in Instances
      BY <1>0 DEF InstancePass
    <2> QED
      BY <2>1, <1>1, <1>6 DEF InstancePassKept
  <1>8. InstanceCacheKept' /\ NothingLeft'
    BY <1>0, <1>1 DEF InstanceCacheKept, NothingLeft
  <1>9. TemplatesKept'
    BY <1>1, <1>6 DEF TemplatesKept, ToMount, ToList
  <1> QED
    BY <1>2, <1>4, <1>5, <1>7, <1>8, <1>9

\* A change of an instance by a user or by the other writer of its status: the
\* event is to come.
LEMMA ChangedInstance ==
  ASSUME GateInv, NEW i \in Instances, EditInstance(i) \/ OtherWrites(i)
  PROVE  VerdictInv' /\ TemplateInv'
  <1> USE DEF GateInv, VerdictInv, TemplateInv, objects, caches, queues, passes
  <1>0. /\ instances \in [Instances -> Instance] /\ instances[i] \in Instance
        /\ template \in [Instances -> SUBSET Plugins]
    BY DEF TypeOK
  <1>1. /\ UNCHANGED <<plugins, pluginCache, instanceCache, pluginNews, pluginQueue,
                       instanceQueue, pluginPass, instancePass>>
        /\ instanceNews' = instanceNews \cup {i}
    BY DEF EditInstance, OtherWrites
  <1>2. \A j \in Instances \ {i} : instances'[j] = instances[j] /\ template'[j] = template[j]
    BY <1>0 DEF EditInstance, OtherWrites
  <1>3. ~instances'[i].exists => template'[i] = {} /\ instances'[i].loaded = {}
    <2>1. CASE OtherWrites(i)
      <3>1. PICK loaded \in SUBSET Plugins :
                   instances' = [instances EXCEPT ![i].loaded = loaded]
        BY <2>1 DEF OtherWrites
      <3>2. instances'[i] = [instances[i] EXCEPT !.loaded = loaded]
        BY <1>0, <3>1
      <3> QED
        BY <3>2, <1>0, <2>1 DEF OtherWrites, Instance
    <2>2. ASSUME NEW sp \in InstanceSpecs,
                 instances' = [instances EXCEPT ![i] = AsInstance(sp, instances[i].loaded)]
          PROVE  instances'[i].exists
      BY <2>2, <1>0 DEF AsInstance
    <2>3. CASE /\ instances' = [instances EXCEPT ![i] = NoInstance]
               /\ template' = [template EXCEPT ![i] = {}]
      BY <2>3, <1>0 DEF NoInstance
    <2> QED
      BY <2>1, <2>2, <2>3 DEF EditInstance
  <1>4. \A pp, phase : Legit(pp, phase)' = Legit(pp, phase)
    BY <1>1, SameInstances
  <1>5. \A j : Mounts(j)' = Mounts(j)
    BY <1>1, SameMounts
  <1>6. VerdictInv'
    BY <1>1, <1>4 DEF CacheKept, PluginPassKept, VerdictsKept, ToValidate
  <1>7. InstanceCacheKept' /\ NothingLeft'
    BY <1>1, <1>2, <1>3 DEF InstanceCacheKept, NothingLeft
  <1>8. InstancePassKept'
    <2>1. instancePass.name \in Instances
      BY DEF TypeOK, InstancePass
    <2> QED
      BY <2>1, <1>1, <1>2, <1>5 DEF InstancePassKept
  <1>9. ASSUME NEW j \in Instances
        PROVE  /\ (ToMount(j) \/ template[j] = Mounts(j))'
               /\ (ToList(j) \/ instances[j].loaded = template[j])'
    <2>1. CASE j = i
      BY <2>1, <1>1 DEF ToMount, ToList
    <2>2. CASE j # i
      BY <2>2, <1>1, <1>2, <1>5 DEF TemplatesKept, ToMount, ToList
    <2> QED
      BY <2>1, <2>2
  <1> QED
    BY <1>6, <1>7, <1>8, <1>9 DEF TemplatesKept

\* Restarts and edits of plugins keep the invariant.
LEMMA UsersGateInv ==
  ASSUME GateInv, (\E p \in Plugins : EditPlugin(p)) \/ Restart
  PROVE  VerdictInv' /\ TemplateInv'
  <1> USE DEF GateInv, VerdictInv, TemplateInv, objects, caches, queues, passes
  <1>0. plugins \in [Plugins -> Plugin] /\ pluginCache \in [Plugins -> Plugin]
    BY DEF TypeOK
  <1>1. ASSUME NEW p \in Plugins, EditPlugin(p) PROVE VerdictInv' /\ TemplateInv'
    <2>1. /\ \A q \in Plugins \ {p} : plugins'[q] = plugins[q]
          /\ pluginNews' = pluginNews \cup {p}
          /\ UNCHANGED <<instances, pluginCache, instanceCache, instanceNews, template,
                         pluginQueue, instanceQueue, pluginPass, instancePass>>
      BY <1>0, <1>1 DEF EditPlugin
    <2>2. \A pp, phase : Legit(pp, phase)' = Legit(pp, phase)
      BY <2>1, SameInstances
    <2>3. \A i : Mounts(i)' = Mounts(i)
      BY <2>1, SameMounts
    <2>4. ASSUME NEW q \in Plugins
          PROVE  /\ (q \in pluginNews \/ pluginCache[q] = plugins[q])'
                 /\ (ToValidate(q) \/ ~plugins[q].exists \/ Legit(plugins[q], plugins[q].phase))'
      <3>1. CASE q = p
        BY <3>1, <2>1 DEF ToValidate
      <3>2. CASE q # p
        BY <3>2, <2>1, <2>2 DEF CacheKept, VerdictsKept, ToValidate
      <3> QED
        BY <3>1, <3>2
    <2>5. PluginPassKept'
      BY <2>1, <2>2 DEF PluginPassKept
    <2>6. TemplateInv'
      BY <2>1, <2>3 DEF InstanceCacheKept, NothingLeft, InstancePassKept, TemplatesKept,
         ToMount, ToList
    <2> QED
      BY <2>4, <2>5, <2>6 DEF CacheKept, VerdictsKept
  <1>2. CASE Restart
    <2>1. /\ UNCHANGED <<plugins, instances, template>>
          /\ pluginCache' = plugins /\ instanceCache' = instances
          /\ pluginQueue' = {p \in Plugins : plugins[p].exists}
          /\ instanceQueue' = {i \in Instances : instances[i].exists}
          /\ pluginPass'.pc = "idle" /\ instancePass'.pc = "idle"
      BY <1>2 DEF Restart, IdlePlugin, IdleInstance
    <2>2. VerdictInv' /\ InstanceCacheKept' /\ NothingLeft' /\ InstancePassKept'
      BY <2>1 DEF CacheKept, PluginPassKept, VerdictsKept, ToValidate, InstanceCacheKept,
         NothingLeft, InstancePassKept
    <2>3. ASSUME NEW i \in Instances, ~instances[i].exists
          PROVE  Mounts(i)' = {} /\ template[i] = {} /\ instances[i].loaded = {}
      <3>1. Mounts(i)' = {}
        BY <2>1, <2>3 DEF Mounts, HealthyPlugins, BoundPlugins, PluginBinds
      <3> QED
        BY <3>1, <2>3 DEF NothingLeft
    <2>4. TemplatesKept'
      BY <2>1, <2>3 DEF TemplatesKept, ToMount, ToList
    <2> QED
      BY <2>2, <2>4
  <1> QED
    BY <1>1, <1>2

\* Where every verdict and every template is current, the gate is closed to
\* exactly the plugins that it should be closed to.
LEMMA GateInvSuffices == GateInv => QuietMeansGated
  <1> SUFFICES ASSUME GateInv, Quiet, NEW p \in Plugins, NEW i \in Instances
               PROVE  /\ Judged(p) => (p \in template[i] <=> i \in Binders(p) /\ Admitted(p))
                      /\ p \in template[i] <=> i \in Binders(p) /\ plugins[p].phase # "Failed"
                      /\ instances[i].loaded = template[i]
    BY GateAssumption DEF QuietMeansGated, Gated
  <1> USE DEF GateInv, VerdictInv, TemplateInv
  <1>0. plugins \in [Plugins -> Plugin] /\ instances \in [Instances -> Instance]
        /\ pluginCache \in [Plugins -> Plugin]
    BY DEF TypeOK
  <1>1. /\ pluginCache[p] = plugins[p]
        /\ \A j \in Instances : instanceCache[j] = instances[j]
    BY DEF Quiet, CacheKept, InstanceCacheKept
  <1>2. template[i] = Mounts(i) /\ instances[i].loaded = template[i]
    BY DEF Quiet, TemplatesKept, ToMount, ToList
  <1>3. p \in template[i] <=> i \in Binders(p) /\ plugins[p].phase # "Failed"
    BY <1>1, <1>2 DEF Mounts, HealthyPlugins, BoundPlugins, Binders
  <1>4. ASSUME Judged(p), i \in Binders(p)
        PROVE  plugins[p].phase # "Failed" <=> Admitted(p)
    <2> DEFINE pp == plugins[p]
    <2>1. pp.exists /\ pp.ref \in Instances \cup {NoRef}
      BY <1>0, <1>4 DEF Binders, PluginBinds, Plugin
    <2>2. Legit(pp, pp.phase)
      BY <2>1 DEF Quiet, VerdictsKept, ToValidate
    <2>3. ASSUME NEW j \in Instances PROVE BoundInstance(pp, j) <=> j \in Judges(p)
      BY <1>1 DEF BoundInstance, Judges, Binders
    <2>4. Judges(p) \subseteq Instances
      BY DEF Judges, Binders
    <2>5. CASE Judges(p) = {}
      <3>1. pp.phase = VerdictUnbound(pp)
        BY <2>2, <2>3, <2>5 DEF Legit
      <3> QED
        BY <3>1, <2>5 DEF VerdictUnbound, Admitted
    <2>6. CASE Judges(p) # {}
      <3>1. PICK j \in Instances : BoundInstance(pp, j) /\ pp.phase = Verdict(pp, j)
        BY <2>2, <2>3, <2>4, <2>6 DEF Legit
      <3>2. j \in Judges(p) /\ \A k \in Judges(p) : k = j
        BY <3>1, <2>3, <1>4 DEF Judged
      <3>3. Verdict(pp, j) # "Failed" <=> pp.abi <= instances[j].version
        BY <1>1 DEF Verdict
      <3> QED
        BY <3>1, <3>2, <3>3, <2>6 DEF Admitted
    <2> QED
      BY <2>5, <2>6
  <1> QED
    BY <1>2, <1>3, <1>4

\* Whenever both controllers rest, the mounted plugins are those that the
\* current verdicts admit, each verdict is that of the one instance boundInstance
\* takes, and status.loadedPlugins lists the mounted ones: for any number of
\* plugins and instances, created and deleted at any time, and however their
\* events, edits, conflicts and restarts interleave. Neither map function
\* (mapPluginToInstances, mapInstanceToPlugins) misses a key that needs a pass.
THEOREM QuietIsGated == Spec => []QuietMeansGated
  <1>1. Init => GateInv
    BY InitGateInv
  <1>2. GateInv /\ [Next]_vars => GateInv'
    <2> SUFFICES ASSUME GateInv, [Next]_vars PROVE GateInv'
      OBVIOUS
    <2>0. TypeOK
      BY DEF GateInv
    <2>1. CASE PluginStep \/ PluginFails
      BY <2>0, <2>1, PluginTypeOK, PluginGateInv, PluginLeavesTemplates DEF GateInv
    <2>2. CASE InstanceStep \/ InstanceFails
      BY <2>0, <2>2, InstanceTypeOK, InstanceGateInv, InstanceLeavesVerdicts DEF GateInv
    <2>3. CASE \E p \in Plugins : PluginEvent(p)
      BY <2>0, <2>3, EnvironmentTypeOK, PluginEventGateInv DEF GateInv
    <2>4. CASE \E i \in Instances : InstanceEvent(i)
      BY <2>0, <2>4, EnvironmentTypeOK, InstanceEventGateInv DEF GateInv
    <2>5. CASE \E i \in Instances : EditInstance(i) \/ OtherWrites(i)
      BY <2>0, <2>5, EnvironmentTypeOK, ChangedInstance DEF GateInv
    <2>6. CASE (\E p \in Plugins : EditPlugin(p)) \/ Restart
      BY <2>0, <2>6, EnvironmentTypeOK, UsersGateInv DEF GateInv
    <2>7. CASE UNCHANGED vars
      BY <2>7 DEF vars, GateInv, VerdictInv, TemplateInv, TypeOK, CacheKept, InstanceCacheKept,
         NothingLeft, PluginPassKept, VerdictsKept, ToValidate, InstancePassKept, TemplatesKept,
         ToMount, ToList, Legit, BoundInstance, PluginBinds, Verdict, VerdictUnbound, Mounts,
         HealthyPlugins, BoundPlugins
    <2> QED
      BY <2>1, <2>2, <2>3, <2>4, <2>5, <2>6, <2>7 DEF Next
  <1> QED
    BY <1>1, <1>2, GateInvSuffices, PTL DEF Spec
=============================================================================
