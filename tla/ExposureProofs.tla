--------------------------- MODULE ExposureProofs ---------------------------
(***************************************************************************)
(* Proofs about the exposure of an instance: types, and that the operator  *)
(* rests only when everything is exposed as declared and the status says   *)
(* so, for any number of edits, deletions by hand, failures and restarts.  *)
(***************************************************************************)
EXTENDS Exposure, TLAPS

\* The cache never runs ahead, and without news it is exact.
CachesBehind ==
  /\ jfCache.gen <= jellyfin.gen
  /\ \A k \in Kinds : k \notin news => cache[k] = objs[k]

\* A pass that no event has overtaken works on the cached spec.
PassCurrent == pass.at # 0 /\ ~queued => pass.gen = jfCache.gen /\ pass.spec = jfCache.spec

\* Nothing about object k is left to learn, and a pass is past it: then it is as
\* declared.
Past(k) == pass.at = 0 \/ \E i \in 1..6 : Steps[i] = k /\ i < pass.at
Learned(k) == ~queued /\ jfCache = jellyfin /\ (k \in Watched => k \notin news)
Declared(k) == Matches(objs[k], Desired(jellyfin.spec, k)) \/ (k = "route" /\ unrouted)
Settled == \A k \in Kinds : Learned(k) /\ Past(k) => Declared(k)

\* The same for the status, which is computed and then written.
Available == objs["deployment"].exists /\ objs["deployment"].available
ReadySeen ==
  pass.at = 8 /\ ~queued /\ "deployment" \notin news => pass.ready = Available
Reported ==
  pass.at = 0 /\ Learned("deployment") =>
    /\ jellyfin.status.observed = jellyfin.gen
    /\ jellyfin.status.ready = Available
    /\ jellyfin.status.endpoint = ServicePort(jellyfin.spec)

ExposureInv ==
  TypeOK /\ CachesBehind /\ PassCurrent /\ Settled /\ ReadySeen /\ Reported

----------------------------------------------------------------------------
(* The data *)

\* The steps name every kind once.
LEMMA StepsNames ==
  /\ Steps \in [1..6 -> Kinds]
  /\ \A k \in Kinds : \E i \in 1..6 : Steps[i] = k
  /\ "deployment" \in Kinds /\ "service" \in Kinds /\ "route" \in Kinds
  /\ "deployment" \in Watched /\ "route" \notin Watched
  /\ \A k \in Kinds : k # "route" => k \in Watched
  <1>1. Steps \in [1..6 -> Kinds]
    BY DEF Steps, Kinds
  <1>2. \A k \in Kinds : \E i \in 1..6 : Steps[i] = k
    BY DEF Kinds
  <1>3. Steps[1] = "deployment" /\ Steps[2] = "service" /\ Steps[6] = "route"
    BY DEF Steps
  <1>4. "deployment" \in Kinds /\ "service" \in Kinds /\ "route" \in Kinds
    BY <1>3 DEF Kinds
  <1> QED
    BY <1>1, <1>2, <1>4 DEF Watched

\* The values that stand for nothing, and the objects the code builds.
LEMMA ValueTypes ==
  /\ NoObj \in Obj /\ NoStatus \in Status /\ IdlePass \in Pass
  /\ NoPod \in Pod /\ IdleOther \in Other
  /\ \A s \in SpecBody, k \in Kinds : Desired(s, k) \in Obj /\ ServicePort(s) \in AllPorts
  <1>1. NoObj \in Obj
    BY DEF NoObj, Obj, AllPorts
  <1>2. NoStatus \in Status
    BY ExposureAssumption DEF NoStatus, Status, AllPorts
  <1>3. NoPod \in Pod /\ IdleOther \in Other
    BY <1>2 DEF NoPod, Pod, IdleOther, Other
  <1>4. \A port \in AllPorts, web \in BOOLEAN : NewObj(port, web) \in Obj
    BY DEF NewObj, Obj
  <1>5. ASSUME NEW s \in SpecBody, NEW k \in Kinds
        PROVE  Desired(s, k) \in Obj /\ ServicePort(s) \in AllPorts
    <2>1. ServicePort(s) \in AllPorts
      BY DEF ServicePort, SpecBody, AllPorts
    <2>2. DefaultJellyfinPort \in AllPorts /\ 0 \in AllPorts
      BY DEF AllPorts
    <2>3. (s.web = "volume") \in BOOLEAN /\ Split(s) \in BOOLEAN
      BY DEF Split
    <2>4. Desired(s, k) \in Obj
      BY <1>1, <1>4, <2>1, <2>2, <2>3 DEF Desired, BuildDeployment, Service, Ingress, BuildWebDeployment,
         BuildWebService, BuildHTTPRoute
    <2> QED
      BY <2>1, <2>4
  <1>6. NoSpec \in SpecBody
    BY ExposureAssumption DEF NoSpec, SpecBody
  <1>7. IdlePass \in Pass
    BY <1>6, ExposureAssumption DEF IdlePass, Pass
  <1> QED
    BY <1>1, <1>2, <1>3, <1>5, <1>7

\* The ways a step ends, and a write.
LEMMA OutcomeTypes ==
  ASSUME TypeOK
  PROVE  /\ Done => pass' \in Pass /\ queued' \in BOOLEAN
         /\ Fail => pass' \in Pass /\ queued' \in BOOLEAN
         /\ pass.at \in 1..6 /\ Advance => pass' \in Pass /\ queued' \in BOOLEAN
         /\ Upset => upsets' \in 0..MaxUpsets
         /\ \A k \in Kinds, o \in Obj :
              Put(k, o) => objs' \in [Kinds -> Obj] /\ news' \subseteq Kinds
  <1>1. (Done => pass' \in Pass /\ queued' \in BOOLEAN)
        /\ (Fail => pass' \in Pass /\ queued' \in BOOLEAN)
    BY ValueTypes DEF Done, Fail, TypeOK
  <1>2. ASSUME pass.at \in 1..6, Advance PROVE pass' \in Pass /\ queued' \in BOOLEAN
    <2>1. pass.at + 1 \in 0..8
      BY <1>2
    <2> QED
      BY <1>2, <2>1 DEF Advance, TypeOK, Pass
  <1>3. Upset => upsets' \in 0..MaxUpsets
    BY ExposureAssumption DEF Upset, TypeOK
  <1>4. \A k \in Kinds, o \in Obj :
          Put(k, o) => objs' \in [Kinds -> Obj] /\ news' \subseteq Kinds
    BY DEF Put, TypeOK
  <1> QED
    BY <1>1, <1>2, <1>3, <1>4

----------------------------------------------------------------------------
(* Types *)

\* The initial states are well typed.
LEMMA InitTypeOK == Init => TypeOK
  <1> SUFFICES ASSUME Init PROVE TypeOK
    OBVIOUS
  <1>1. jellyfin \in Jellyfin
    BY ValueTypes, ExposureAssumption DEF Init, Jellyfin
  <1>2. objs \in [Kinds -> Obj] /\ cache \in [Kinds -> Obj] /\ news \subseteq Kinds
    BY ValueTypes DEF Init
  <1>3. pod \in Pod /\ pass \in Pass /\ other \in Other
    BY ValueTypes DEF Init
  <1>4. upsets \in 0..MaxUpsets
    BY ExposureAssumption DEF Init
  <1>5. jfCache \in Jellyfin /\ queued \in BOOLEAN /\ unrouted \in BOOLEAN
    BY <1>1 DEF Init
  <1> QED
    BY <1>1, <1>2, <1>3, <1>4, <1>5 DEF TypeOK

\* A status keeps the object an object.
LEMMA StatusType ==
  ASSUME NEW s \in Status, jellyfin \in Jellyfin
  PROVE  [jellyfin EXCEPT !.status = s] \in Jellyfin
  BY DEF Jellyfin

\* Every step of a pass keeps the types.
LEMMA PassTypeOK ==
  ASSUME TypeOK, PassStep \/ CallFails \/ Restart
  PROVE  TypeOK'
  <1>a. jfCache.gen \in 0..MaxGen /\ jfCache.spec \in SpecBody
    BY DEF TypeOK, Jellyfin
  <1>b. pass.gen \in 0..MaxGen /\ pass.spec \in SpecBody /\ pass.ready \in BOOLEAN
    BY DEF TypeOK, Pass
  <1>1. CASE Start
    <2>1. pass' \in Pass
      BY <1>1, <1>a DEF Start, Pass
    <2> QED
      BY <1>1, <2>1 DEF Start, TypeOK
  <1>2. CASE ComputeStatus
    <2>1. \A b \in BOOLEAN, n \in 0..8 : [pass EXCEPT !.at = n, !.ready = b] \in Pass
      BY DEF TypeOK, Pass
    <2>3. 8 \in 0..8
      OBVIOUS
    <2>2. pass' \in Pass
      BY <1>2, <2>1, <2>3 DEF ComputeStatus
    <2> QED
      BY <1>2, <2>2 DEF ComputeStatus, TypeOK
  <1>3. CASE WriteStatus
    <2>1. NewStatus \in Status
      BY <1>b, StepsNames, ValueTypes DEF NewStatus, Status
    <2>2. jellyfin' \in Jellyfin /\ pass' \in Pass /\ queued' \in BOOLEAN
      BY <1>3, <2>1, StatusType, OutcomeTypes DEF WriteStatus, TypeOK
    <2> QED
      BY <1>3, <2>2 DEF WriteStatus, TypeOK
  <1>4. ASSUME NEW k \in Kinds, Delete(k) PROVE TypeOK'
    <2>1. objs' \in [Kinds -> Obj] /\ news' \subseteq Kinds
      BY <1>4, ValueTypes, OutcomeTypes DEF Delete
    <2>2. pass' \in Pass /\ queued' \in BOOLEAN
      BY <1>4, OutcomeTypes DEF Delete, At
    <2> QED
      BY <1>4, <2>1, <2>2 DEF Delete, TypeOK
  <1>5. ASSUME NEW k \in Kinds, Apply(k) PROVE TypeOK'
    <2>1. Wants(k) \in Obj /\ objs[k] \in Obj
      BY <1>b, ValueTypes DEF Wants, TypeOK
    <2>2. [Wants(k) EXCEPT !.available = objs[k].available] \in Obj
      BY <2>1 DEF Obj
    <2>3. objs' \in [Kinds -> Obj] /\ news' \subseteq Kinds /\ unrouted' \in BOOLEAN
      BY <1>5, <2>2, OutcomeTypes DEF Apply, TypeOK
    <2>4. pass' \in Pass /\ queued' \in BOOLEAN
      BY <1>5, OutcomeTypes DEF Apply, At
    <2> QED
      BY <1>5, <2>3, <2>4 DEF Apply, TypeOK
  <1>6. ASSUME NEW k \in Kinds, Refused(k) PROVE TypeOK'
    BY <1>6, OutcomeTypes DEF Refused, TypeOK
  <1>7. CASE CallFails
    BY <1>7, OutcomeTypes DEF CallFails, TypeOK
  <1>8. CASE Restart
    BY <1>8, OutcomeTypes, ValueTypes DEF Restart, TypeOK
  <1> QED
    BY <1>1, <1>2, <1>3, <1>4, <1>5, <1>6, <1>7, <1>8 DEF PassStep

\* The steps that are not the operator's own.
Others ==
  \/ Informers \/ OtherReads \/ OtherWrites \/ EditSpec \/ \E k \in Kinds : HandDelete(k)
  \/ DeploymentController \/ PodCrashes

\* Every step of the environment keeps the types.
LEMMA OthersTypeOK ==
  ASSUME TypeOK, Others
  PROVE  TypeOK'
  <1>1. CASE JellyfinEvent
    BY <1>1 DEF JellyfinEvent, TypeOK
  <1>2. ASSUME NEW k \in Kinds, ObjectEvent(k) PROVE TypeOK'
    <2>1. cache' \in [Kinds -> Obj] /\ news' \subseteq Kinds /\ queued' \in BOOLEAN
      BY <1>2 DEF ObjectEvent, TypeOK
    <2> QED
      BY <1>2, <2>1 DEF ObjectEvent, TypeOK
  <1>3. CASE OtherReads
    <2>1. other' \in Other
      BY <1>3 DEF OtherReads, Other, TypeOK, Jellyfin
    <2> QED
      BY <1>3, <2>1, OutcomeTypes DEF OtherReads, TypeOK
  <1>4. CASE OtherWrites
    <2>1. other.status \in Status
      BY DEF TypeOK, Other
    <2>2. jellyfin' \in Jellyfin
      BY <1>4, <2>1, StatusType DEF OtherWrites, TypeOK
    <2> QED
      BY <1>4, <2>2, ValueTypes DEF OtherWrites, TypeOK
  <1>5. CASE EditSpec
    <2>1. PICK s \in SpecBody : jellyfin' = [jellyfin EXCEPT !.gen = jellyfin.gen + 1, !.spec = s]
      BY <1>5, ExposureAssumption DEF EditSpec
    <2>2. jellyfin.gen + 1 \in 0..MaxGen
      <3>1. jellyfin.gen < MaxGen /\ jellyfin.gen \in 0..MaxGen
        BY <1>5 DEF EditSpec, TypeOK, Jellyfin
      <3> QED
        BY <3>1, ExposureAssumption
    <2>3. jellyfin' \in Jellyfin
      BY <2>1, <2>2 DEF TypeOK, Jellyfin
    <2> QED
      BY <1>5, <2>3 DEF EditSpec, TypeOK
  <1>6. ASSUME NEW k \in Kinds, HandDelete(k) PROVE TypeOK'
    <2>1. objs' \in [Kinds -> Obj] /\ news' \subseteq Kinds /\ upsets' \in 0..MaxUpsets
      BY <1>6, ValueTypes, OutcomeTypes DEF HandDelete
    <2> QED
      BY <1>6, <2>1 DEF HandDelete, TypeOK
  <1>7. CASE PodStops
    BY <1>7, ValueTypes DEF PodStops, TypeOK
  <1>8. CASE PodStarts
    <2>1. Server.web \in BOOLEAN
      BY StepsNames DEF Server, TypeOK, Obj
    <2>2. pod' \in Pod
      BY <1>8, <2>1 DEF PodStarts, Pod
    <2> QED
      BY <1>8, <2>2 DEF PodStarts, TypeOK
  <1>9. CASE ReportAvailable
    <2>1. Server \in Obj /\ pod.runs \in BOOLEAN
      BY StepsNames DEF Server, TypeOK, Pod
    <2>2. [Server EXCEPT !.available = pod.runs] \in Obj
      BY <2>1 DEF Obj
    <2>3. objs' \in [Kinds -> Obj] /\ news' \subseteq Kinds
      BY <1>9, <2>2, StepsNames, OutcomeTypes DEF ReportAvailable
    <2> QED
      BY <1>9, <2>3 DEF ReportAvailable, TypeOK
  <1>10. CASE PodCrashes
    BY <1>10, ValueTypes, OutcomeTypes DEF PodCrashes, TypeOK
  <1> QED
    BY <1>1, <1>2, <1>3, <1>4, <1>5, <1>6, <1>7, <1>8, <1>9, <1>10
       DEF Others, Informers, DeploymentController

\* Every variable keeps its type, for all ports, specs and bounds.
THEOREM TypeCorrect == Spec => []TypeOK
  <1>1. TypeOK /\ [Next]_vars => TypeOK'
    <2> SUFFICES ASSUME TypeOK, [Next]_vars PROVE TypeOK'
      OBVIOUS
    <2>1. CASE Next
      BY <2>1, PassTypeOK, OthersTypeOK DEF Next, Others
    <2>2. CASE UNCHANGED vars
      BY <2>2 DEF TypeOK, vars
    <2> QED
      BY <2>1, <2>2
  <1> QED
    BY <1>1, InitTypeOK, PTL DEF Spec

----------------------------------------------------------------------------
(* Nothing is forgotten *)

\* What a write does to the objects and to the news.
LEMMA PutFacts ==
  ASSUME TypeOK, NEW k \in Kinds, NEW o \in Obj, Put(k, o)
  PROVE  /\ objs'[k] = o
         /\ \A j \in Kinds : j # k => objs'[j] = objs[j]
         /\ \A j \in Kinds : j \notin news' => j \notin news /\ objs'[j] = objs[j]
         /\ \A j \in Kinds : j # k /\ j \notin news => j \notin news'
  <1>1. objs' = [objs EXCEPT ![k] = o] /\ objs \in [Kinds -> Obj]
    BY DEF Put, TypeOK
  <1>2. objs'[k] = o /\ \A j \in Kinds : j # k => objs'[j] = objs[j]
    BY <1>1
  <1>3. CASE o = objs[k]
    BY <1>2, <1>3 DEF Put
  <1>4. CASE o # objs[k]
    <2>1. news' = news \cup {k}
      BY <1>4 DEF Put
    <2> QED
      BY <1>2, <2>1
  <1> QED
    BY <1>3, <1>4

\* What a step that queues the instance leaves to be shown.
LEMMA QueuedHolds == queued' => PassCurrent' /\ Settled' /\ ReadySeen' /\ Reported'
  BY DEF PassCurrent, Settled, Learned, ReadySeen, Reported

\* The caches stay behind.
LEMMA CachesStep ==
  ASSUME TypeOK, CachesBehind, Next
  PROVE  CachesBehind'
  <1>a. jellyfin.gen \in Nat /\ jfCache.gen \in Nat
    BY ExposureAssumption DEF TypeOK, Jellyfin
  <1>b. ASSUME NEW k \in Kinds, NEW o \in Obj, Put(k, o), UNCHANGED <<jellyfin, jfCache, cache>>
        PROVE  CachesBehind'
    BY <1>b, PutFacts DEF CachesBehind
  <1>c. ASSUME UNCHANGED <<jellyfin, jfCache, objs, cache, news>> PROVE CachesBehind'
    BY <1>c DEF CachesBehind
  <1>d. ASSUME NEW s, jellyfin' = [jellyfin EXCEPT !.status = s] PROVE jellyfin'.gen = jellyfin.gen
    BY <1>d DEF TypeOK, Jellyfin
  <1>1. CASE Start \/ ComputeStatus \/ CallFails \/ OtherReads \/ PodStops \/ PodStarts \/ PodCrashes
    BY <1>1, <1>c DEF Start, ComputeStatus, CallFails, OtherReads, PodStops, PodStarts, PodCrashes
  <1>2. CASE WriteStatus \/ OtherWrites
    <2>1. jellyfin'.gen = jellyfin.gen
      BY <1>2, <1>d DEF WriteStatus, OtherWrites
    <2> QED
      BY <1>2, <2>1 DEF WriteStatus, OtherWrites, CachesBehind
  <1>3. ASSUME NEW k \in Kinds, Delete(k) PROVE CachesBehind'
    BY <1>3, <1>b, ValueTypes DEF Delete
  <1>4. ASSUME NEW k \in Kinds, Apply(k) PROVE CachesBehind'
    <2>1. Wants(k) \in Obj /\ objs[k] \in Obj
      BY ValueTypes DEF Wants, TypeOK, Pass
    <2>2. [Wants(k) EXCEPT !.available = objs[k].available] \in Obj
      BY <2>1 DEF Obj
    <2>3. CASE Sends(k)
      BY <1>4, <2>2, <2>3, <1>b DEF Apply
    <2>4. CASE ~Sends(k)
      BY <1>4, <2>4, <1>c DEF Apply
    <2> QED
      BY <2>3, <2>4
  <1>5. ASSUME NEW k \in Kinds, Refused(k) PROVE CachesBehind'
    BY <1>5, <1>c DEF Refused
  <1>6. CASE Restart
    BY <1>6, <1>a DEF Restart, CachesBehind
  <1>7. CASE JellyfinEvent
    BY <1>7, <1>a DEF JellyfinEvent, CachesBehind
  <1>8. ASSUME NEW k \in Kinds, ObjectEvent(k) PROVE CachesBehind'
    BY <1>8 DEF ObjectEvent, CachesBehind, TypeOK
  <1>9. CASE EditSpec
    <2>1. jellyfin'.gen = jellyfin.gen + 1
      BY <1>9 DEF EditSpec, TypeOK, Jellyfin
    <2> QED
      BY <1>9, <1>a, <2>1 DEF EditSpec, CachesBehind
  <1>10. ASSUME NEW k \in Kinds, HandDelete(k) PROVE CachesBehind'
    BY <1>10, <1>b, ValueTypes DEF HandDelete
  <1>11. CASE ReportAvailable
    <2>1. Server \in Obj /\ pod.runs \in BOOLEAN
      BY StepsNames DEF Server, TypeOK, Pod
    <2>2. [Server EXCEPT !.available = pod.runs] \in Obj
      BY <2>1 DEF Obj
    <2> QED
      BY <1>11, <2>2, <1>b, StepsNames DEF ReportAvailable
  <1> QED
    BY <1>1, <1>2, <1>3, <1>4, <1>5, <1>6, <1>7, <1>8, <1>9, <1>10, <1>11
       DEF Next, PassStep, Informers, DeploymentController

\* A pass works on the cached spec until an event arrives.
LEMMA PassCurrentStep ==
  ASSUME TypeOK, PassCurrent, Next
  PROVE  PassCurrent'
  <1>a. pass \in Pass /\ pass.at \in Nat
    BY DEF TypeOK, Pass
  <1>1. CASE Start
    BY <1>1 DEF Start, PassCurrent
  <1>2. ASSUME pass' = IdlePass PROVE PassCurrent'
    BY <1>2 DEF PassCurrent, IdlePass
  <1>3. CASE WriteStatus \/ CallFails \/ Restart \/ \E k \in Kinds : Refused(k)
    BY <1>3, <1>2 DEF WriteStatus, CallFails, Restart, Refused, Done, Fail
  <1>4. ASSUME pass'.gen = pass.gen, pass'.spec = pass.spec, pass.at # 0, UNCHANGED <<jfCache, queued>>
        PROVE  PassCurrent'
    BY <1>4 DEF PassCurrent
  <1>5. CASE ComputeStatus
    <2>1. pass'.gen = pass.gen /\ pass'.spec = pass.spec /\ pass.at # 0
      BY <1>5, <1>a DEF ComputeStatus, Pass
    <2> QED
      BY <1>5, <1>4, <2>1 DEF ComputeStatus
  <1>6. ASSUME NEW k \in Kinds, Delete(k) \/ Apply(k) PROVE PassCurrent'
    <2>1. pass' = [pass EXCEPT !.at = pass.at + 1] /\ pass.at # 0 /\ UNCHANGED <<jfCache, queued>>
      BY <1>6 DEF Delete, Apply, At, Advance
    <2>2. pass'.gen = pass.gen /\ pass'.spec = pass.spec
      BY <2>1, <1>a DEF Pass
    <2> QED
      BY <1>4, <2>1, <2>2
  <1>7. CASE Informers
    BY <1>7, QueuedHolds DEF Informers, JellyfinEvent, ObjectEvent, PassCurrent
  <1>8. ASSUME UNCHANGED <<pass, queued, jfCache>> PROVE PassCurrent'
    BY <1>8 DEF PassCurrent
  <1>9. CASE OtherReads \/ OtherWrites \/ EditSpec \/ DeploymentController \/ PodCrashes
             \/ \E k \in Kinds : HandDelete(k)
    BY <1>9, <1>8 DEF OtherReads, OtherWrites, EditSpec, DeploymentController, PodCrashes,
       HandDelete, PodStops, PodStarts, ReportAvailable
  <1> QED
    BY <1>1, <1>3, <1>5, <1>6, <1>7, <1>9 DEF Next, PassStep

\* What the environment may do without queueing the instance: the object is not
\* changed behind an exact copy, and neither is a watched kind without news; a
\* route that goes was deleted by hand.
EnvSilent ==
  /\ pass' = pass /\ ~queued
  /\ jfCache' = jellyfin' => jfCache = jellyfin /\ jellyfin' = jellyfin
  /\ \A j \in Watched : j \notin news' => j \notin news /\ objs'[j] = objs[j]
  /\ objs'["route"] = objs["route"] \/ unrouted'
  /\ unrouted => unrouted'

\* That is all it does.
LEMMA EnvIsSilent ==
  ASSUME TypeOK, CachesBehind, Others, ~queued'
  PROVE  EnvSilent
  <1>a. jellyfin.gen \in Nat /\ jfCache.gen \in Nat
    BY ExposureAssumption DEF TypeOK, Jellyfin
  <1>b. Watched \subseteq Kinds
    BY DEF Watched
  <1>1. CASE JellyfinEvent
    BY <1>1 DEF JellyfinEvent
  <1>2. ASSUME NEW k \in Kinds, ObjectEvent(k) PROVE EnvSilent
    <2>1. ~queued /\ k \notin Watched
      BY <1>2 DEF ObjectEvent
    <2>2. \A j \in Watched : j \notin news' => j \notin news
      BY <1>2, <2>1 DEF ObjectEvent
    <2> QED
      BY <1>2, <2>1, <2>2 DEF ObjectEvent, EnvSilent
  <1>3. CASE OtherReads \/ PodStops \/ PodStarts \/ PodCrashes
    BY <1>3 DEF OtherReads, PodStops, PodStarts, PodCrashes, EnvSilent
  <1>4. CASE OtherWrites
    BY <1>4 DEF OtherWrites, EnvSilent
  <1>5. CASE EditSpec
    <2>1. jellyfin'.gen = jellyfin.gen + 1
      BY <1>5 DEF EditSpec, TypeOK, Jellyfin
    <2>3. jfCache' = jfCache /\ jfCache.gen # jellyfin'.gen
      BY <1>5, <1>a, <2>1 DEF EditSpec, CachesBehind
    <2>2. jfCache' # jellyfin'
      BY <2>3
    <2> QED
      BY <1>5, <2>2 DEF EditSpec, EnvSilent
  <1>6. ASSUME NEW k \in Kinds, HandDelete(k) PROVE EnvSilent
    <2>1. \A j \in Kinds : j \notin news' => j \notin news /\ objs'[j] = objs[j]
      BY <1>6, ValueTypes, PutFacts DEF HandDelete
    <2>2. k # "route" => objs'["route"] = objs["route"]
      BY <1>6, ValueTypes, PutFacts, StepsNames DEF HandDelete
    <2> QED
      BY <1>6, <1>b, <2>1, <2>2 DEF HandDelete, EnvSilent
  <1>7. CASE ReportAvailable
    <2>1. Server \in Obj /\ pod.runs \in BOOLEAN
      BY StepsNames DEF Server, TypeOK, Pod
    <2>2. [Server EXCEPT !.available = pod.runs] \in Obj
      BY <2>1 DEF Obj
    <2>3. \A j \in Kinds : j \notin news' => j \notin news /\ objs'[j] = objs[j]
      BY <1>7, <2>2, StepsNames, PutFacts DEF ReportAvailable
    <2>4. objs'["route"] = objs["route"]
      BY <1>7, <2>2, StepsNames, PutFacts DEF ReportAvailable
    <2> QED
      BY <1>7, <1>b, <2>3, <2>4 DEF ReportAvailable, EnvSilent
  <1> QED
    BY <1>1, <1>2, <1>3, <1>4, <1>5, <1>6, <1>7 DEF Others, Informers, DeploymentController

\* The environment leaves what was settled and reported, or gives news of it.
LEMMA EnvKeeps ==
  ASSUME ExposureInv, Others
  PROVE  Settled' /\ ReadySeen' /\ Reported'
  <1>1. CASE queued'
    BY <1>1, QueuedHolds
  <1>2. CASE ~queued'
    <2>1. EnvSilent
      BY <1>2, EnvIsSilent DEF ExposureInv
    <2>2. ASSUME NEW j \in Kinds, Learned(j)', Past(j)' PROVE Declared(j)'
      <3>1. jfCache = jellyfin /\ jellyfin' = jellyfin /\ pass' = pass /\ ~queued
        BY <2>1, <2>2 DEF EnvSilent, Learned
      <3>2. Past(j)
        BY <2>2, <3>1 DEF Past
      <3>3. CASE j \in Watched
        <4>1. j \notin news /\ objs'[j] = objs[j]
          BY <2>1, <2>2, <3>3 DEF EnvSilent, Learned
        <4>2. Declared(j)
          BY <3>1, <3>2, <4>1 DEF Learned, ExposureInv, Settled
        <4> QED
          BY <2>1, <3>1, <4>1, <4>2 DEF Declared, EnvSilent
      <3>4. CASE j \notin Watched
        <4>1. j = "route"
          BY <3>4, StepsNames
        <4>2. Declared(j)
          BY <3>1, <3>2, <3>4 DEF Learned, ExposureInv, Settled
        <4> QED
          BY <2>1, <3>1, <4>1, <4>2 DEF Declared, EnvSilent
      <3> QED
        BY <3>3, <3>4
    <2>3. "deployment" \notin news' => "deployment" \notin news /\ Available' = Available
      BY <2>1, StepsNames DEF EnvSilent, Available
    <2>4. ReadySeen'
      BY <2>1, <2>3 DEF EnvSilent, ReadySeen, ExposureInv
    <2>5. Reported'
      BY <2>1, <2>3, StepsNames DEF EnvSilent, Reported, Learned, ExposureInv
    <2>6. Settled'
      BY <2>2 DEF Settled
    <2> QED
      BY <2>4, <2>5, <2>6
  <1> QED
    BY <1>1, <1>2

\* A step about object k makes it as declared and leaves the others.
LEMMA ObjectStepKeeps ==
  ASSUME ExposureInv, NEW k \in Kinds, Delete(k) \/ Apply(k)
  PROVE  Settled' /\ ReadySeen' /\ Reported'
  <1>a. pass \in Pass /\ pass.at \in 1..6 /\ Steps[pass.at] = k /\ objs \in [Kinds -> Obj]
    BY DEF ExposureInv, TypeOK, Delete, Apply, At
  <1>b. pass'.at = pass.at + 1
    BY <1>a DEF Delete, Apply, Advance, Pass
  <1>c. UNCHANGED <<jellyfin, jfCache, cache, queued>>
    BY DEF Delete, Apply, Advance
  <1>d. Wants(k) \in Obj /\ objs[k] \in Obj
    BY <1>a, ValueTypes DEF Wants, Pass
  <1>e. [Wants(k) EXCEPT !.available = objs[k].available] \in Obj
    BY <1>d DEF Obj
  <1>1. \A j \in Kinds : /\ j # k => objs'[j] = objs[j]
                         /\ j \notin news' => j \notin news /\ objs'[j] = objs[j]
    <2>1. CASE Delete(k)
      BY <2>1, PutFacts, ValueTypes DEF Delete, ExposureInv
    <2>2. CASE Apply(k) /\ Sends(k)
      BY <2>2, <1>e, PutFacts DEF Apply, ExposureInv
    <2>3. CASE Apply(k) /\ ~Sends(k)
      BY <2>3 DEF Apply
    <2> QED
      BY <2>1, <2>2, <2>3
  <1>2. ASSUME k \in Watched => k \notin news' PROVE Matches(objs'[k], Wants(k))
    <2>1. CASE Delete(k)
      <3>1. objs'[k] = NoObj
        BY <2>1, PutFacts, ValueTypes DEF Delete, ExposureInv
      <3>2. Wants(k) = NoObj
        BY <2>1 DEF Delete, Wants, Desired, NewObj, BuildDeployment, Service, Ingress, BuildWebDeployment,
         BuildWebService, BuildHTTPRoute
      <3> QED
        BY <3>1, <3>2 DEF Matches
    <2>2. CASE Apply(k) /\ Sends(k)
      <3>1. objs'[k] = [Wants(k) EXCEPT !.available = objs[k].available]
        BY <2>2, <1>e, PutFacts DEF Apply, ExposureInv
      <3> QED
        BY <3>1, <1>d DEF Matches, Obj
    <2>3. CASE Apply(k) /\ ~Sends(k)
      <3>1. k # "route" /\ Matches(cache[k], Wants(k))
        BY <2>3 DEF Sends, AlwaysSent
      <3>2. k \notin news /\ objs'[k] = objs[k]
        BY <1>1, <1>2, <3>1, StepsNames
      <3> QED
        BY <3>1, <3>2 DEF ExposureInv, CachesBehind
    <2> QED
      BY <2>1, <2>2, <2>3
  <1>3. ASSUME NEW j \in Kinds, Learned(j)', Past(j)' PROVE Declared(j)'
    <2>1. ~queued /\ jfCache = jellyfin /\ (j \in Watched => j \notin news')
      BY <1>3, <1>c DEF Learned
    <2>2. CASE j = k
      <3>1. pass.spec = jellyfin.spec
        BY <1>a, <2>1 DEF ExposureInv, PassCurrent
      <3>2. Matches(objs'[k], Desired(jellyfin.spec, k))
        BY <1>2, <2>1, <2>2, <3>1 DEF Wants
      <3> QED
        BY <2>2, <3>2, <1>c DEF Declared
    <2>3. CASE j # k
      <3>1. PICK i \in 1..6 : Steps[i] = j /\ i < pass.at + 1
        BY <1>3, <1>a, <1>b DEF Past
      <3>2. i < pass.at
        BY <3>1, <2>3, <1>a
      <3>3. Past(j)
        BY <3>1, <3>2 DEF Past
      <3>4. Learned(j)
        BY <2>1, <1>1 DEF Learned
      <3>5. Declared(j)
        BY <3>3, <3>4 DEF ExposureInv, Settled
      <3>6. j = "route" /\ unrouted => unrouted'
        BY <2>3 DEF Delete, Apply
      <3> QED
        BY <3>5, <3>6, <1>1, <2>3, <1>c DEF Declared
    <2> QED
      BY <2>2, <2>3
  <1>4. pass'.at # 8 /\ pass'.at # 0
    BY <1>a, <1>b
  <1> QED
    BY <1>3, <1>4 DEF Settled, ReadySeen, Reported

\* The other steps of a pass: it starts, judges, and writes the status.
LEMMA PassKeeps ==
  ASSUME ExposureInv, PassStep \/ CallFails \/ Restart
  PROVE  Settled' /\ ReadySeen' /\ Reported'
  <1>a. pass \in Pass
    BY DEF ExposureInv, TypeOK
  <1>1. CASE Start
    BY <1>1 DEF Start, Settled, Past, ReadySeen, Reported
  <1>2. CASE ComputeStatus
    <2>1. pass.at = 7 /\ pass'.at = 8
          /\ pass'.ready = (cache["deployment"].exists /\ cache["deployment"].available)
      BY <1>2, <1>a DEF ComputeStatus, Pass
    <2>2. \A j \in Kinds : Past(j)
      BY <2>1, StepsNames DEF Past
    <2>3. Settled'
      BY <1>2, <2>2 DEF ComputeStatus, ExposureInv, Settled, Learned, Declared
    <2>4. ReadySeen'
      BY <1>2, <2>1, StepsNames DEF ComputeStatus, ReadySeen, Available, ExposureInv, CachesBehind
    <2> QED
      BY <2>1, <2>3, <2>4 DEF Reported
  <1>3. CASE WriteStatus
    <2>1. CASE jfCache # jellyfin
      BY <1>3, <2>1, QueuedHolds DEF WriteStatus, Fail
    <2>2. CASE jfCache = jellyfin
      <3>1. jellyfin' = [jellyfin EXCEPT !.status = NewStatus] /\ pass' = IdlePass
            /\ UNCHANGED <<queued, jfCache, objs, cache, news, unrouted>> /\ pass.at = 8
        BY <1>3, <2>2 DEF WriteStatus, Done
      <3>2. \A j \in Kinds : Past(j)
        BY <3>1, StepsNames DEF Past
      <3>3. ASSUME jfCache' = jellyfin' PROVE jellyfin' = jellyfin /\ jellyfin.status = NewStatus
        BY <3>3, <3>1, <2>2 DEF ExposureInv, TypeOK, Jellyfin
      <3>4. Settled'
        BY <3>1, <3>2, <3>3, <2>2 DEF ExposureInv, Settled, Learned, Declared
      <3>5. ReadySeen'
        BY <3>1 DEF ReadySeen, IdlePass
      <3>6. ASSUME Learned("deployment")'
            PROVE  /\ jellyfin'.status.observed = jellyfin'.gen
                   /\ jellyfin'.status.ready = Available'
                   /\ jellyfin'.status.endpoint = ServicePort(jellyfin'.spec)
        <4>1. jellyfin' = jellyfin /\ jellyfin.status = NewStatus /\ ~queued /\ "deployment" \notin news
          BY <3>1, <3>3, <3>6, StepsNames DEF Learned
        <4>2. pass.gen = jellyfin.gen /\ pass.spec = jellyfin.spec
          BY <4>1, <3>1, <2>2 DEF ExposureInv, PassCurrent
        <4>3. pass.ready = Available /\ Available' = Available
          BY <4>1, <3>1 DEF ExposureInv, ReadySeen, Available
        <4> QED
          BY <4>1, <4>2, <4>3 DEF NewStatus
      <3> QED
        BY <3>4, <3>5, <3>6 DEF Reported
    <2> QED
      BY <2>1, <2>2
  <1>4. CASE CallFails \/ Restart \/ \E k \in Kinds : Refused(k)
    BY <1>4, QueuedHolds DEF CallFails, Restart, Refused, Fail
  <1>5. CASE \E k \in Kinds : Delete(k) \/ Apply(k)
    BY <1>5, ObjectStepKeeps
  <1> QED
    BY <1>1, <1>2, <1>3, <1>4, <1>5 DEF PassStep

\* It holds at first, when the instance is queued.
LEMMA InitInv == Init => ExposureInv
  <1> SUFFICES ASSUME Init PROVE ExposureInv
    OBVIOUS
  <1>1. TypeOK /\ queued /\ pass.at = 0 /\ jfCache = jellyfin /\ cache = objs
    BY InitTypeOK DEF Init, IdlePass
  <1>2. jfCache.gen <= jellyfin.gen
    BY <1>1, ExposureAssumption DEF TypeOK, Jellyfin
  <1> QED
    BY <1>1, <1>2 DEF ExposureInv, CachesBehind, PassCurrent, Settled, Learned, ReadySeen, Reported

\* It is kept by every step.
LEMMA StepInv == ExposureInv /\ [Next]_vars => ExposureInv'
  <1> SUFFICES ASSUME ExposureInv, [Next]_vars PROVE ExposureInv'
    OBVIOUS
  <1>1. CASE Next
    <2>1. TypeOK' /\ CachesBehind' /\ PassCurrent'
      BY <1>1, PassTypeOK, OthersTypeOK, CachesStep, PassCurrentStep
         DEF ExposureInv, Next, Others
    <2>2. Settled' /\ ReadySeen' /\ Reported'
      BY <1>1, PassKeeps, EnvKeeps DEF Next, Others
    <2> QED
      BY <2>1, <2>2 DEF ExposureInv
  <1>2. CASE UNCHANGED vars
    BY <1>2 DEF vars, ExposureInv, TypeOK, CachesBehind, PassCurrent, Settled, Learned, Past,
       Declared, ReadySeen, Reported, Available
  <1> QED
    BY <1>1, <1>2

\* Whenever the operator rests, everything is exposed as declared and the
\* status says so, whatever failed, was edited or was deleted on the way, for
\* all specs and all bounds.
THEOREM QuietIsExposed == Spec => []QuietMeansExposed
  <1>1. ExposureInv => QuietMeansExposed
    <2> SUFFICES ASSUME ExposureInv, Quiet PROVE Exposed
      BY DEF QuietMeansExposed
    <2>1. \A k \in Kinds : Learned(k) /\ Past(k)
      BY DEF Quiet, Learned, Past
    <2>2. \A k \in Kinds : Declared(k)
      BY <2>1 DEF ExposureInv, Settled
    <2>3. Matches(Server, Desired(jellyfin.spec, "deployment"))
          /\ Matches(objs["service"], Desired(jellyfin.spec, "service"))
      BY <2>2, StepsNames DEF Declared, Server
    <2>4. Server.exists /\ objs["service"].port = ServicePort(jellyfin.spec)
      BY <2>3 DEF Matches, Desired, NewObj, BuildDeployment, Service
    <2>5. Server.available \in BOOLEAN
      BY StepsNames DEF Server, ExposureInv, TypeOK, Obj
    <2>6. Available = Server.available
      BY <2>4, <2>5 DEF Available, Server
    <2>7. /\ jellyfin.status.observed = jellyfin.gen
          /\ jellyfin.status.ready = Available
          /\ jellyfin.status.endpoint = ServicePort(jellyfin.spec)
      BY <2>1, StepsNames DEF ExposureInv, Reported, Quiet
    <2> QED
      BY <2>2, <2>4, <2>6, <2>7 DEF Exposed, Declared, Server
  <1> QED
    BY <1>1, InitInv, StepInv, PTL DEF Spec

----------------------------------------------------------------------------
(* A cluster without the Gateway API *)

\* No pass gets past the HTTPRoute, so that no copy of the status is ever filled.
Unreported ==
  ~GatewayInstalled =>
    /\ pass.at <= 6
    /\ jellyfin.status = NoStatus /\ jfCache.status = NoStatus /\ other.status = NoStatus

LEMMA UnreportedStep ==
  ASSUME TypeOK, Unreported, [Next]_vars
  PROVE  Unreported'
  <1> SUFFICES ASSUME ~GatewayInstalled
               PROVE  /\ pass'.at <= 6
                      /\ jellyfin'.status = NoStatus /\ jfCache'.status = NoStatus
                      /\ other'.status = NoStatus
    BY DEF Unreported
  <1>0. /\ pass.at <= 6 /\ pass.at \in 0..8
        /\ jellyfin.status = NoStatus /\ jfCache.status = NoStatus /\ other.status = NoStatus
        /\ pass \in Pass /\ jellyfin \in Jellyfin
    BY DEF Unreported, TypeOK, Pass
  <1>1. CASE Start \/ CallFails \/ Restart
    BY <1>0, <1>1 DEF Start, CallFails, Restart, Fail, IdlePass, IdleOther
  <1>2. CASE ComputeStatus \/ WriteStatus
    BY <1>0, <1>2 DEF ComputeStatus, WriteStatus
  <1>3. CASE \E k \in Kinds : Delete(k) \/ Apply(k) \/ Refused(k)
    <2> PICK k \in Kinds : Delete(k) \/ Apply(k) \/ Refused(k)
      BY <1>3
    <2>1. CASE Refused(k)
      BY <1>0, <2>1 DEF Refused, Fail, IdlePass
    <2>2. CASE Delete(k) \/ Apply(k)
      <3>1. Served(k) /\ At(k)
        BY <2>2 DEF Delete, Apply, Rejected
      <3>2. pass.at # 6
        BY <3>1 DEF Served, At, Steps
      <3>3. pass'.at = pass.at + 1 /\ UNCHANGED <<jellyfin, jfCache, other>>
        BY <1>0, <2>2 DEF Delete, Apply, Advance, Pass
      <3> QED
        BY <1>0, <3>2, <3>3
    <2> QED
      BY <2>1, <2>2
  <1>4. CASE Informers
    BY <1>0, <1>4 DEF Informers, JellyfinEvent, ObjectEvent
  <1>5. CASE OtherReads \/ OtherWrites
    BY <1>0, <1>5 DEF OtherReads, OtherWrites, IdleOther, Jellyfin
  <1>6. CASE EditSpec \/ \E k \in Kinds : HandDelete(k)
    BY <1>0, <1>6 DEF EditSpec, HandDelete, Jellyfin
  <1>7. CASE DeploymentController \/ PodCrashes
    BY <1>0, <1>7 DEF DeploymentController, PodStops, PodStarts, ReportAvailable, PodCrashes
  <1>8. CASE UNCHANGED vars
    BY <1>0, <1>8 DEF vars
  <1> QED
    BY <1>1, <1>2, <1>3, <1>4, <1>5, <1>6, <1>7, <1>8 DEF Next, PassStep

\* In a cluster without the Gateway API's CRDs the status of an instance is never
\* written, not even of one that declares no gateway: the "Best-effort cleanup" of
\* its HTTPRoute (jellyfin_controller.go:470) fails every pass before updateStatus.
THEOREM NoGatewayNoStatus == Spec => [](~GatewayInstalled => jellyfin.status = NoStatus)
  <1>1. Init => Unreported
    BY DEF Init, Unreported, IdlePass, IdleOther
  <1>2. TypeOK /\ Unreported /\ [Next]_vars => Unreported'
    BY UnreportedStep
  <1>3. Unreported => (~GatewayInstalled => jellyfin.status = NoStatus)
    BY DEF Unreported
  <1> QED
    BY <1>1, <1>2, <1>3, TypeCorrect, PTL DEF Spec
=============================================================================
