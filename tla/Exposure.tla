------------------------------ MODULE Exposure ------------------------------
(***************************************************************************)
(* JellyfinReconciler and what exposes an instance: the server Deployment, *)
(* its Service, the Ingress, the web tier (a Deployment and a Service) and *)
(* the HTTPRoute, applied one after the other, then the status.            *)
(*                                                                         *)
(* A pass is split at its writes. It reads informer caches that lag kind   *)
(* by kind; an update carries the resource version of the cached copy and  *)
(* is refused when that is not current. HTTPRoutes are cached but not      *)
(* watched. Objects may be deleted by hand at any time. JellyfinAPI-       *)
(* Reconciler takes part as the second writer of the status. The           *)
(* Deployment controller (strategy Recreate) is external. Storage and      *)
(* plugins, which the pass settles first, have modules of their own.       *)
(***************************************************************************)
EXTENDS Naturals

CONSTANTS Ports,       \* spec.service.port, where 0 is "unset"
          FirstSpecs,  \* the specs an instance may be created with
          Specs,       \* the specs an edit may choose from
          GatewayInstalled, \* the cluster has the Gateway API's CRDs
          MaxGen,      \* bound: metadata.generation
          MaxUpsets    \* bound: objects deleted by hand, failed calls, restarts, crashes
                       \* of the pod and passes of JellyfinAPIReconciler, together

DefaultJellyfinPort == 8096

\* web: EffectiveMode, or "none".
SpecBody == [port : Ports, ingress : BOOLEAN, web : {"none", "volume", "deployment"},
             gateway : BOOLEAN]

ASSUME ExposureAssumption ==
  /\ Ports \subseteq Nat /\ 0 \in Ports /\ FirstSpecs \subseteq SpecBody /\ Specs \subseteq SpecBody
  /\ GatewayInstalled \in BOOLEAN
  /\ MaxGen \in Nat \ {0} /\ MaxUpsets \in Nat

VARIABLES
  jellyfin,  \* the Jellyfin object at the API server
  jfCache,   \* the informer cache's copy
  objs,      \* the objects it owns
  cache,     \* the informer caches' copies
  news,      \* the kinds of objects that changed since the caches had them
  pod,       \* the server pod
  pass,      \* the reconcile pass under way
  queued,    \* the instance's key is in the work queue
  other,     \* the status JellyfinAPIReconciler read and will write back
  unrouted,  \* history: the HTTPRoute was deleted by hand since it was applied
  upsets

vars == <<jellyfin, jfCache, objs, cache, news, pod, pass, queued, other, unrouted, upsets>>

----------------------------------------------------------------------------
(* Data *)

Steps == <<"deployment", "service", "ingress", "webDeployment", "webService", "route">>
Kinds == {Steps[i] : i \in 1..6}

\* SetupWithManager: Owns(Deployment), Owns(Service), Owns(Ingress).
Watched == Kinds \ {"route"}

\* What the code builds differs from what is stored by the API server's
\* defaults, so that CreateOrUpdate sends an update in every pass.
AlwaysSent == {"deployment", "webDeployment", "route"}

\* port: of the server, which the object exposes or sends traffic to. web: it
\* deals with the web client. available: a Deployment's availableReplicas.
AllPorts == Ports \cup {0, DefaultJellyfinPort}
Obj == [exists : BOOLEAN, port : AllPorts, web : BOOLEAN, available : BOOLEAN]
NoObj == [exists |-> FALSE, port |-> 0, web |-> FALSE, available |-> FALSE]
NewObj(port, web) == [exists |-> TRUE, port |-> port, web |-> web, available |-> FALSE]

ServicePort(s) == IF s.port = 0 THEN DefaultJellyfinPort ELSE s.port
Split(s) == s.web = "deployment"

\* BuildDeployment: the server pod, which serves the web client in volume mode.
BuildDeployment(s) == NewObj(DefaultJellyfinPort, s.web = "volume")

\* reconcileService and reconcileIngress.
Service(s) == NewObj(ServicePort(s), FALSE)
Ingress(s) == IF s.ingress THEN NewObj(ServicePort(s), FALSE) ELSE NoObj

\* The web tier has a port of its own.
BuildWebDeployment(s) == IF Split(s) THEN NewObj(0, TRUE) ELSE NoObj
BuildWebService(s) == IF Split(s) THEN NewObj(0, TRUE) ELSE NoObj

\* BuildHTTPRoute names the default port, whatever the Service's is.
BuildHTTPRoute(s) == IF s.gateway THEN NewObj(DefaultJellyfinPort, Split(s)) ELSE NoObj

Desired(s, k) ==
  CASE k = "deployment" -> BuildDeployment(s)
    [] k = "service" -> Service(s)
    [] k = "ingress" -> Ingress(s)
    [] k = "webDeployment" -> BuildWebDeployment(s)
    [] k = "webService" -> BuildWebService(s)
    [] OTHER -> BuildHTTPRoute(s)

\* o carries the spec d.
Matches(o, d) == o.exists = d.exists /\ o.port = d.port /\ o.web = d.web

\* observed: observedGeneration; endpoint: the port in endpoints.service.
Status == [observed : 0..MaxGen, ready : BOOLEAN, endpoint : AllPorts]
NoStatus == [observed |-> 0, ready |-> FALSE, endpoint |-> 0]
Jellyfin == [gen : 0..MaxGen, spec : SpecBody, status : Status]
NoSpec == [port |-> 0, ingress |-> FALSE, web |-> "none", gateway |-> FALSE]

\* at: the object that is next, 7 when the status is computed, 8 when written.
\* The pass keeps what it uses of its copy of the object.
Pass == [at : 0..8, gen : 0..MaxGen, spec : SpecBody, ready : BOOLEAN]
IdlePass == [at |-> 0, gen |-> 0, spec |-> NoSpec, ready |-> FALSE]

Pod == [runs : BOOLEAN, web : BOOLEAN]
NoPod == [runs |-> FALSE, web |-> FALSE]
Other == [busy : BOOLEAN, status : Status]
IdleOther == [busy |-> FALSE, status |-> NoStatus]

Init ==
  /\ \E s \in FirstSpecs : jellyfin = [gen |-> 1, spec |-> s, status |-> NoStatus]
  /\ jfCache = jellyfin
  /\ objs = [k \in Kinds |-> NoObj] /\ cache = objs /\ news = {}
  /\ pod = NoPod
  /\ pass = IdlePass /\ queued = TRUE
  /\ other = IdleOther
  /\ unrouted = FALSE
  /\ upsets = 0

----------------------------------------------------------------------------
(* Reconcile *)

Upset == upsets < MaxUpsets /\ upsets' = upsets + 1

Done == pass' = IdlePass /\ UNCHANGED queued
\* An error puts the key back, with backoff.
Fail == pass' = IdlePass /\ queued' = TRUE
Advance == pass' = [pass EXCEPT !.at = pass.at + 1] /\ UNCHANGED queued

Start ==
  /\ pass.at = 0 /\ queued
  /\ queued' = FALSE
  /\ pass' = [at |-> 1, gen |-> jfCache.gen, spec |-> jfCache.spec, ready |-> FALSE]
  /\ UNCHANGED <<jellyfin, jfCache, objs, cache, news, pod, other, unrouted, upsets>>

Served(k) == k = "route" => GatewayInstalled
At(k) == pass.at \in 1..6 /\ Steps[pass.at] = k
Wants(k) == Desired(pass.spec, k)

\* An object is written; without a difference it stays as it was.
Put(k, o) ==
  /\ objs' = [objs EXCEPT ![k] = o]
  /\ news' = IF o = objs[k] THEN news ELSE news \cup {k}

\* Delete by name; NotFound is no error.
Delete(k) ==
  /\ At(k) /\ Served(k) /\ ~Wants(k).exists
  /\ Put(k, NoObj)
  /\ unrouted' = (unrouted /\ k # "route")
  /\ Advance
  /\ UNCHANGED <<jellyfin, jfCache, cache, pod, other, upsets>>

\* Whether CreateOrUpdate sends anything, judged by the cache.
Sends(k) == k \in AlwaysSent \/ ~Matches(cache[k], Wants(k))

\* AlreadyExists, NotFound or a conflict; without the CRDs neither Get nor
\* Delete finds the kind, which is not NotFound.
Rejected(k) ==
  Served(k) => /\ Wants(k).exists /\ Sends(k)
               /\ IF cache[k].exists THEN k \in news ELSE objs[k].exists

\* CreateOrUpdate; the status of what exists is kept.
Apply(k) ==
  /\ At(k) /\ Wants(k).exists /\ ~Rejected(k)
  /\ IF Sends(k)
     THEN /\ Put(k, [Wants(k) EXCEPT !.available = objs[k].available])
          /\ unrouted' = (unrouted /\ k # "route")
     ELSE UNCHANGED <<objs, news, unrouted>>
  /\ Advance
  /\ UNCHANGED <<jellyfin, jfCache, cache, pod, other, upsets>>

\* Mutant: a conflict is taken for success, as if the next event would repair it.
RefusedIgnored(k) ==
  /\ At(k) /\ Rejected(k)
  /\ Advance
  /\ UNCHANGED <<jellyfin, jfCache, objs, cache, news, pod, other, unrouted, upsets>>

Refused(k) ==
  /\ At(k) /\ Rejected(k)
  /\ Fail
  /\ UNCHANGED <<jellyfin, jfCache, objs, cache, news, pod, other, unrouted, upsets>>

\* updateStatus judges by the cached Deployment, whatever generation its status
\* is of.
ComputeStatus ==
  /\ pass.at = 7
  /\ pass' = [pass EXCEPT !.at = 8,
       !.ready = cache["deployment"].exists /\ cache["deployment"].available]
  /\ UNCHANGED <<jellyfin, jfCache, objs, cache, news, pod, queued, other, unrouted, upsets>>

\* Mutant: the generation is taken one too high.
NewStatusAhead ==
  [observed |-> pass.gen + 1, ready |-> pass.ready, endpoint |-> ServicePort(pass.spec)]

NewStatus == [observed |-> pass.gen, ready |-> pass.ready, endpoint |-> ServicePort(pass.spec)]

\* writeJellyfinStatus: the whole status, onto the object fetched from the
\* cache; a conflict that outlasts the retries fails the pass.
WriteStatus ==
  /\ pass.at = 8
  /\ IF jfCache = jellyfin
     THEN jellyfin' = [jellyfin EXCEPT !.status = NewStatus] /\ Done
     ELSE UNCHANGED jellyfin /\ Fail
  /\ UNCHANGED <<jfCache, objs, cache, news, pod, other, unrouted, upsets>>

CallFails ==
  /\ pass.at # 0
  /\ Upset
  /\ Fail
  /\ UNCHANGED <<jellyfin, jfCache, objs, cache, news, pod, other, unrouted>>

\* A restarted operator lists everything anew and queues every instance.
Restart ==
  /\ Upset
  /\ Fail
  /\ jfCache' = jellyfin /\ cache' = objs /\ news' = {}
  /\ other' = IdleOther
  /\ UNCHANGED <<jellyfin, objs, pod, unrouted>>

----------------------------------------------------------------------------
(* Caches and queue *)

JellyfinEvent ==
  /\ jfCache # jellyfin
  /\ jfCache' = jellyfin /\ queued' = TRUE
  /\ UNCHANGED <<jellyfin, objs, cache, news, pod, pass, other, unrouted, upsets>>

\* Mutant: Deployments are not watched.
ObjectEventNoDeployments(k) ==
  /\ k \in news /\ news' = news \ {k}
  /\ cache' = [cache EXCEPT ![k] = objs[k]]
  /\ queued' = (queued \/ k \in Watched \ {"deployment", "webDeployment"})
  /\ UNCHANGED <<jellyfin, jfCache, objs, pod, pass, other, unrouted, upsets>>

ObjectEvent(k) ==
  /\ k \in news /\ news' = news \ {k}
  /\ cache' = [cache EXCEPT ![k] = objs[k]]
  /\ queued' = (queued \/ k \in Watched)
  /\ UNCHANGED <<jellyfin, jfCache, objs, pod, pass, other, unrouted, upsets>>

----------------------------------------------------------------------------
(* JellyfinAPIReconciler's part in the status *)

OtherReads ==
  /\ ~other.busy
  /\ Upset
  /\ other' = [busy |-> TRUE, status |-> jfCache.status]
  /\ UNCHANGED <<jellyfin, jfCache, objs, cache, news, pod, pass, queued, unrouted>>

OtherWrites ==
  /\ other.busy
  /\ jellyfin' = IF jfCache = jellyfin THEN [jellyfin EXCEPT !.status = other.status]
                 ELSE jellyfin
  /\ other' = IdleOther
  /\ UNCHANGED <<jfCache, objs, cache, news, pod, pass, queued, unrouted, upsets>>

----------------------------------------------------------------------------
(* Users *)

EditSpec ==
  /\ jellyfin.gen < MaxGen
  /\ \E s \in Specs \ {jellyfin.spec} :
       jellyfin' = [jellyfin EXCEPT !.gen = jellyfin.gen + 1, !.spec = s]
  /\ UNCHANGED <<jfCache, objs, cache, news, pod, pass, queued, other, unrouted, upsets>>

HandDelete(k) ==
  /\ objs[k].exists
  /\ Upset
  /\ Put(k, NoObj)
  /\ unrouted' = (unrouted \/ k = "route")
  /\ UNCHANGED <<jellyfin, jfCache, cache, pod, pass, queued, other>>

----------------------------------------------------------------------------
(* The Deployment controller *)

Server == objs["deployment"]

PodStops ==
  /\ pod.runs /\ ~(Server.exists /\ Server.web = pod.web)
  /\ pod' = NoPod
  /\ UNCHANGED <<jellyfin, jfCache, objs, cache, news, pass, queued, other, unrouted, upsets>>

PodStarts ==
  /\ ~pod.runs /\ Server.exists
  /\ pod' = [runs |-> TRUE, web |-> Server.web]
  /\ UNCHANGED <<jellyfin, jfCache, objs, cache, news, pass, queued, other, unrouted, upsets>>

PodCrashes ==
  /\ pod.runs
  /\ Upset
  /\ pod' = NoPod
  /\ UNCHANGED <<jellyfin, jfCache, objs, cache, news, pass, queued, other, unrouted>>

ReportAvailable ==
  /\ Server.exists /\ Server.available # pod.runs
  /\ Put("deployment", [Server EXCEPT !.available = pod.runs])
  /\ UNCHANGED <<jellyfin, jfCache, cache, pod, pass, queued, other, unrouted, upsets>>

----------------------------------------------------------------------------
PassStep ==
  \/ Start \/ ComputeStatus \/ WriteStatus
  \/ \E k \in Kinds : Delete(k) \/ Apply(k) \/ Refused(k)

Informers == JellyfinEvent \/ \E k \in Kinds : ObjectEvent(k)
DeploymentController == PodStops \/ PodStarts \/ ReportAvailable

Next ==
  \/ PassStep \/ CallFails \/ Restart
  \/ Informers
  \/ OtherReads \/ OtherWrites
  \/ EditSpec \/ \E k \in Kinds : HandDelete(k)
  \/ DeploymentController \/ PodCrashes

\* A worker takes the key when it is queued and no call blocks for ever;
\* informers deliver, and the Deployment controller acts. Users owe nothing.
Fairness ==
  WF_vars(PassStep) /\ WF_vars(Informers) /\ WF_vars(DeploymentController)

Spec == Init /\ [][Next]_vars
FairSpec == Spec /\ Fairness

----------------------------------------------------------------------------
(* Properties *)

\* Every variable keeps its type.
TypeOK ==
  /\ jellyfin \in Jellyfin /\ jfCache \in Jellyfin
  /\ objs \in [Kinds -> Obj] /\ cache \in [Kinds -> Obj] /\ news \subseteq Kinds
  /\ pod \in Pod /\ pass \in Pass /\ other \in Other
  /\ queued \in BOOLEAN /\ unrouted \in BOOLEAN
  /\ upsets \in 0..MaxUpsets

\* The operator has nothing to do and nothing to learn.
Quiet ==
  /\ pass.at = 0 /\ ~queued
  /\ jfCache = jellyfin /\ news \cap Watched = {}

\* Every object is as the spec declares it, and the status says so. (An
\* HTTPRoute deleted by hand is not noticed: its kind is not watched.)
Exposed ==
  /\ \A k \in Kinds : Matches(objs[k], Desired(jellyfin.spec, k)) \/ (k = "route" /\ unrouted)
  /\ jellyfin.status.observed = jellyfin.gen
  /\ jellyfin.status.ready = objs["deployment"].available
  /\ jellyfin.status.endpoint = objs["service"].port

\* Reconcile (jellyfin_controller.go:64) forgets nothing: whenever the operator
\* rests, everything is exposed as declared, whatever conflicts, edits, hand
\* deletions, failed passes or status writes of the other reconciler came
\* between, and although a pass may leave an object alone, or the status ready,
\* because of a copy that was out of date.
QuietMeansExposed == Quiet => Exposed

\* Left alone, the instance is exposed as declared, its pod runs the declared
\* template, it is Ready, and the operator comes to rest.
ExposureConverges ==
  <>[](/\ Quiet /\ Exposed /\ jellyfin.status.ready
       /\ pod = [runs |-> TRUE, web |-> jellyfin.spec.web = "volume"])
=============================================================================
