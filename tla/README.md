# A verification project for jellyops

jellyops is a Kubernetes operator for Jellyfin media servers. Two custom resources
(`Jellyfin`, `JellyfinPlugin`) are reconciled by three controllers; one of them also drives the
Jellyfin server's HTTP API. This directory models the controllers' core in TLA+, checks it with
TLC on small instances and proves the central safety properties with TLAPS. `PROJECT.json` maps
every definition to the lines it models and lists runs, mutants, findings, hazards and theorems.

## 1. Inventory

| Part (source) | State | Operations | Hard behaviour | What makes it correct |
|---|---|---|---|---|
| `JellyfinAPIReconciler` (`internal/controller/jellyfinapi_controller.go`), library loop with `internal/jellyfinapi/libraries.go` | the server's virtual folders; `status.managedLibraries` and conditions | list, diff, create, add and remove paths, prune, enforce options, status write | many HTTP calls between read and write; status shared with another controller; lost answers | prunes only what it managed; never empties a library; status is honest; libraries converge |
| the same, credentials: `ensureCredentials`, `internal/jellyfinapi/startup.go` | wizard, admin account and keys of the server; generated Secret | verify stored key, run the wizard, authenticate, mint key, persist | restart between account and Secret; stale Secret; any error taken for a closed wizard or a revoked key | Secret and server agree; the operator ends up authenticated |
| `JellyfinPluginReconciler` (`jellyfinplugin_controller.go`, `internal/plugins/workloads.go`) | finalizer, companion Deployments and Services, phase | validate, apply, prune, services, status; finalize: drain, delete, release | deletion and edits at any point; cached replica counts; conflicts | nothing declared outlives the plugin; the drain waits; deletion completes |
| binding and ABI gate (`bindings.go`, `internal/plugins/meta.go`, both controllers) | plugin phase, pod template's plugins | bind, compare versions, mount | two controllers wake each other through caches | template converges to the admissible plugins; both come to rest |
| `JellyfinReconciler` (`jellyfin_controller.go`), storage | claims, PersistentVolume, pod template | ensure claim, grow, replace or bind volume | the binder writes the same objects; immutable fields; rejected expansion | a bound claim keeps its volume; the instance never wedges; growth arrives |
| `JellyfinReconciler`, the rest (with `internal/plugins/web.go`, `gateway.go`) | Deployment, Service, Ingress, web tier, HTTPRoute, status | one create-or-update or delete per object, in order, then the status | caches lag kind by kind; conflicts; HTTPRoutes are not watched; readiness from a cached Deployment | never rests before everything is as declared; comes to rest; optional parts do not block the status |
| configuration, encoding, branding, library options (`internal/jellyfinapi/configuration.go`, `encoding.go`, `libraries.go`) | documents on the server; one condition per stage | read, overlay, post | edit by hand between read and post; a POST that arrives after the client gave up | unmanaged settings kept; conditions honest; settings converge; the loop stops posting |
| staging, install and hook scripts (`internal/plugins/builder.go`, `shell.go`) | plugin folders and marker files on the config volume | copy, run, mark | pod killed between any two commands; upgrades over a used volume | Jellyfin starts only with whole plugins and successful scripts; run-once scripts run once |
| hardware acceleration, pod security, naming | none | construct objects | none (pure) | unit-tested |
| `cmd/main.go`, CRDs, RBAC, generated deep copies | none of its own | start-up | none | not modelled |

Interaction: the controllers never call each other. They meet in the API server's objects, which
they read from informer caches that lag and write with or without a resource version, and in the
work queues that watch events fill. The Jellyfin server is a fourth shared object, changed by HTTP
calls and by people.

## 2. Modules

Every controller is split at its API and HTTP calls: a *pass* is a record with a program counter
and the local variables that survive a call; everything between two calls is one action. A cached
read takes the cache's copy, which may be arbitrarily old. Caches deliver the newest copy at once
(skipped intermediate versions are a coalesced watch). Where the code's update carries a resource
version, it succeeds only if the copy equals the object; two equal copies need not be told apart,
since the write is then the same. One worker runs per controller, controller-runtime's default.

**`LibrarySync`** (runs with `MCLibrarySync`): `obj`/`cache` are the Jellyfin object, `folders` the
server's libraries, `pass` and `inst` the passes of the two reconcilers that write the status.
`ApiStart` is the part of `Reconcile` before the library loop; `ApiList ... ApiOptions` are
`reconcileLibraries` and `enforceLibraryOptions` call by call, each of which may take effect and
lose its answer (`ApiCallFails`); `LibraryError` is the error return, which still writes the status;
`ApiWrite` and `InstFinish` are `writeJellyfinStatus`, which reads the object anew *from the cache*
and replaces the whole status by the pass's own, refused while the cache is behind;
`ApiConflict`/`InstConflict` are its retries running out. `recorded`, `doneGens`, `origin` and the
pass's `quiet` (no edit by hand since its list) are history for the properties. `AsDeclared` says that
the server has the libraries of a spec, each with its path and hardening. A folder's `item` is its
ItemId, which a library gets by a scan of the server (`ServerScans`) and not when it is created
(`refresh=false`); `enforceLibraryOptions` passes over a folder without one and reports no error
(line 317), which the pass records in `skipped`.

**`Bootstrap`** (`MCBootstrap`): `ensureCredentials` and `Client.Bootstrap`. `server` holds wizard,
routing progress, password and keys; `secret`/`secretCache` the generated Secret. One action per
HTTP call plus `Persist`. Usernames are left out: they are constant in a configuration.

**`PluginWorkloads`** (`MCPluginWorkloads`): one plugin with several companion workloads. `Start`
chooses between finalize, adding the finalizer and a normal pass; `ApplyWorkload`, `ListWorkloads`,
`PruneWorkload`, `ReconcileServices`, `UpdateStatus` are the normal pass; `DrainWorkload`, `Drained`,
`DeleteWorkload`, `RemoveFinalizer` are `finalize`; `EditInstance` is the instance's event through
`mapInstanceToPlugins`. `Quiet` is an operator at rest: no pass, no queued key, current caches. Each workload has one replica, and
`status.replicas` counts no terminating pod.

**`PluginGate`** (`MCPluginGate`): plugins and instances with both controllers' passes, queues and
caches; users create, edit and delete both. `BoundPlugins`, `HealthyPlugins`, `InstancesForPlugin`,
`BoundInstance` and `Verdict` are the functions of these names (`ABICompatible` for the last); versions
are numbers. `BoundInstance` is empty for a `jellyfinRef` to an instance that is not there, whoever
else selects the plugin. `pluginNews` and `instanceNews` are the objects whose change the cache has not
seen; their events wake their own controller and, through `mapPluginToInstances` and
`mapInstanceToPlugins`, the other's keys, mapped from the old and the new object. An instance's pass
writes the pod template (`InstanceWrite`) and then the loaded plugins into the status
(`InstanceStatus`), which is a change of the object and wakes its plugins again; the write fails while
the cache is behind, which is what the resource version tells. `OtherWrites` is the second writer of
that status. A deleted instance takes its Deployment along, and one of the same name is the same
instance: uids are left out. `Judges(p)` are the instances whose version may decide about a plugin.
`Quiet`: both controllers idle, both queues empty, no event to come.

**`Storage`** (`MCStorage`): the claim of `/config` and one NFS media folder. `EnsureConfig` and `Grow`
are `ensurePVC` and `growPVC`; `ReadVolume`, `ReplaceVolume`, `EnsureVolume`, `EnsureClaim` are
`ensureProvisionedNFS`; `Deploy` the pod template's volume. `VolumeStep` and `ClaimStep` are the
cluster's binder and protection, modelled from how the code's comments and `pvIsServingAClaim` rely
on them. An existing volume's mount options are replaced in place, by an update that is refused when
the cached copy is out of date. Volumes are not watched, so `VolumeDelivered` wakes nobody; claims are (`ClaimEvent`). `Quiet`
therefore asks for current copies of spec and claims only.

**`Credentials`** is the abstract specification of what bootstrap promises: an account's password and
the one that is kept, which are equal and fixed from the moment one is kept. `Bootstrap` implements
it (`ImplementsCredentials`) with `account <- server.pw`, `kept <- secret.pw`.

**`ConfigOverlay`** (`MCConfigOverlay`): the four settings stages. A document is a function from keys
to values; `Overlay` is `overlayConfig`/`EnforceEncodingOptions`/`MergeLibraryOptions` over what
`EnforceReadOnlyOptions` hardened, `Changed` the comparison that decides whether to post. `GetConfig`
and `PostConfig` are the calls, `PostTimesOut` and `LatePost` a POST that outlives its client.
`Onward` is the sequence of stages, `Write`/`InstWrite` the two writers of the status. Four stages
share the code; general and playback share one document, as in the code. `item` is the library's
ItemId, without which the options stage is done at once (`PassedOver`). `clean` and the `touched`
fields are history.

**`PodStart`** (`MCPodStart`): the init containers of `BuildPodTemplateSpec` command by command.
`Stage` is `stagingContainer`, `Install`/`InstallDone`/`Touch` are `buildInstallWrapper`,
`FirstRun`/`NoFirstRun`/`Touch`/`Bootstrap` are `buildHookWrapper`; each has its failing variant with
both failure policies. `staged` and `markers` are `/config`, which outlives pods; `Kill` and
`Rollout` replace the pod. `runs` and `lost` are history.

**`Exposure`** (`MCExposure`): `JellyfinReconciler` after storage and plugins. `Desired` gathers what the
builders produce for each object; `Apply` is `CreateOrUpdate` judged by the cache, `Delete` the
clean-up, `Refused` a conflict or a kind the cluster does not serve; `ComputeStatus` and `WriteStatus`
are `updateStatus`. `news` are the kinds whose cache is behind, which is also what a resource version
tells. `OtherReads`/`OtherWrites` are the second writer of the status.

The modules compose along the objects: `LibrarySync`, `ConfigOverlay` and `Exposure` each hold both
writers of the Jellyfin status, `PluginGate` both controllers, and each module takes from its
neighbours only what reaches it through an object.

`*Proofs` modules extend these with theorems. Definitions marked *Mutant* are faulty variants of
the one that follows them; no specification uses them. They show that the property named for them
in `PROJECT.json` can fail.

## 3. Runs

| Run | Shows |
|---|---|
| `library_sync` | `PruneOnlyRecorded`, `LibrariesReadyHonest`, `NeverEmptiesALibrary`, `CompletedPassApplied` (a pass that reports success has applied what it read, options except where the list had no ItemId), `LibrariesConverge` with stale caches, lost answers, aborted passes, hand edits and both status writers |
| `library_hand_made` | refutes `HandMadeLibrarySurvives` (finding 1) |
| `library_no_item` | refutes `LibrariesReadyMeansApplied` (finding 3) |
| `bootstrap` | `SecretOpensServer`; authentication succeeds unless the password is lost; with `credentialsSecret` it always does; refinement of `Credentials` |
| `bootstrap_restart` | refutes `BootstrapSurvivesRestarts` (finding 2) |
| `plugin_workloads` | `FinalizerFirst`, `QuietMeansReconciled` (at rest everything declared is there and the phase is true), `TeardownLeavesNothingDeclared`, `ReportedPodsDrained`, `TeardownCompletes`, `WorkloadsConverge` with a Service and a changing instance |
| `plugin_gate` | `QuietMeansGated` (at rest the plugins that their judge admits, and no others, are mounted where they are bound, and the status lists them), `GateConverges`, `SettlesDown`, with instances that come and go and the status of either kind waking both controllers |
| `storage` | `BoundClaimKeepsVolume`, `QuietMeansStored` (at rest claims and mounts are as declared), `InstanceNotWedged`, `GrowthReachesClaim` |
| `config_overlay` | `ReadyMeansApplied`, `OverlayPreserves`, `SettingsConverge`, `PostsSettle` |
| `pod_start` | `StagedWhole`, `FailClosed`, `RunsOnce` (per version), `PodStarts` |
| `pod_first_run` | refutes `FirstRunOncePerInstance` (finding 4) |
| `exposure` | `QuietMeansExposed`, `ExposureConverges` |

Findings: disagreements of the code with a sentence of the repository. A run shows each of the first
four; of the last two a theorem shows what the code does instead.

1. `writeJellyfinStatus` replaces the whole status, so the instance reconciler can bring back an old
   `managedLibraries`, and a library that was made by hand under a dropped name is pruned
   (`docs/specification.md:732`).
2. The generated password is stored only after the whole bootstrap; a failure after the account is
   created loses it, and no later pass can authenticate (`docs/specification.md:712`).
3. `enforceLibraryOptions` skips a listed folder without an ItemID (`jellyfinapi_controller.go:317`) and
   the pass succeeds: `LibrariesReady` is True of a read-only library the server may still write to.
   `docs/specification.md:756` gives the condition's meaning as "All desired libraries exist with the
   correct paths/options." A later pass makes up for it once the server has scanned
   (`LibrariesConverge`). When a server lists a folder without an ItemID is not in this repository; that
   the code checks for it is what the model takes from it.
4. `firstrun.sh` "runs once per instance" (`builder.go:422` and `477`, `docs/specification.md:363-364`),
   but its marker is named after the plugin's folder, which carries the version (`builder.go:465`): an
   upgrade runs it again. `RunsOnce` is what the code does keep, once per version.
5. A plugin is judged by one instance, that of its `jellyfinRef` or some instance that selects it, and
   is then mounted wherever it is bound, whatever the version there; `docs/specification.md:502` says
   that the operator "never silently mounts an unloadable plugin". `QuietMeansGated` says exactly which
   verdict holds and where it is mounted, and `QuietIsGated` proves it.
6. The HTTPRoute's "Best-effort cleanup." (`jellyfin_controller.go:470`) fails every pass in a cluster
   without the Gateway API's CRDs, of instances that declare no gateway too; the theorem
   `NoGatewayNoStatus` proves that their status is never written.

Met while modelling, without a run of their own:

* A library that was on the server when it was declared counts as managed and is pruned later, while
  `jellyfin_api_types.go:49` promises to remove only what the operator created.
* `finalize` drains the workloads the spec names at that moment; one dropped just before is left to
  the garbage collector while its pod runs.
* A plugin whose `jellyfinRef` names an instance that is not there is Failed (with a `targetAbi`), and so
  mounted nowhere, although other instances select it and would admit it: `boundInstance` does not fall
  back on the selectors.
* Mount options that are edited and edited back while the cache of the volume lags may stay those of the
  first edit: `CreateOrUpdate` finds the cached copy as it should be, and the volume's event wakes nobody.
* Companion Services dropped from the spec are never pruned (`jellyfinplugin_controller.go:196`), and a
  plugin that loses its instance keeps `Injected=true` in its status (line 293).
* NFS mount options without `provision` mount a claim that nothing creates (`builder.go:245`).
* `BuildHTTPRoute` names port 8096 even when the Service exposes another `spec.service.port`
  (`BuildHTTPRoute` in `Exposure` keeps that). An HTTPRoute deleted by hand is not noticed until
  something else wakes the controller.
* `cp -r` leaves files of an earlier image in the plugin's folder.
* A read-only library whose declared options contradict the hardening is posted in every pass
  (`PostsSettle` excepts it).
* Two media folders that name one library overwrite each other's paths in every pass.

**Bounds.** Every unbounded thing has a named constant. One library and two paths suffice for a move,
a drop and a return, as libraries are handled independently; two generations let every stale status
meet a newer spec. Three random passwords are the server's, the Secret's and a new one. One workload
suffices where two edits let it be dropped, come back or be deleted with its plugin, as workloads are
handled one by one; the theorems cover any number. One plugin and two instances reach every way of
binding: by reference, by selector, by both, by two selectors, and by a reference that dangles while the
other instance selects; `MCPluginSpecs` and `MCInstanceSpecs` pick the specs that give each verdict, a
targetAbi of 1 or 2 against versions 1 and 2 being enough to be admitted, rejected, and admitted again by
an upgrade. In `storage` the config claim and the provisioned
folder are explored one at a time (with an existing claim or an inline folder in place of the other),
as they share the pass and no state; two edits allow a switch to another export and back, one deletion
a second claim with another uid; the second export occurs where changing it matters, with a provisioned
volume. In `config_overlay` three keys are the hardened option and two keys
of one document in different blocks, of which one spec declares the first and none the second (the UI's);
stages 2 to 4 run the same code; one edit by hand and one fault place a stale read, a lost or a
late POST at every call. In `pod_start` two plugins give the order between containers, two versions
with different hooks an upgrade and a downgrade over a used volume. In `exposure` the two edits delete,
create and change each kind of object; one upset (hand deletion, failed call, restart, crash or
foreign status write) meets each state of a pass. One fault (two in `bootstrap`) can hit every call;
what a second would find is a state a pass starts from anyway. `LibrarySync`, `Bootstrap` and
`ConfigOverlay` check deadlock; the others may come to rest and do not.

**Fairness** is weak and only on what the code and the cluster guarantee: a queued key is taken and a
failed pass is put back (controller-runtime), calls return (the HTTP client has a timeout), informers
deliver the change of every object (`PluginGate` has them object by object: a stream of changes of one
does not hold up another's), Deployment controller, binder, kubelet and garbage collector act, and the
Jellyfin server handles a request it has received (`LatePost`) and scans its libraries now and then
(`ServerScans`; Jellyfin schedules scans, and with `refreshLibraryOnChange` the operator asks for one). Users, faults, outages, restarts
and lost answers are owed nothing. `LibrariesConverge` assumes that the instance stays ready.

## 4. Proofs

TLAPS proves, for every value of the constants that satisfies the modules' named assumptions:

* `LibrarySyncProofs`: `TypeCorrect`, `ReadyIsHonest`, `PruneIsRecorded`, `LibrariesKeepAPath`,
  `SuccessIsApplied`. The properties are not inductive:
  the next status to be written is in one of four copies (object, cache, either pass).
  `StatusCopiesRecorded` says that all four, and the prune list under way, tell of completed passes only.
  For `LibrariesKeepAPath`, `PathInv` says that the path a pass declares is on the library before the pass
  gets to remove another (`DeclaredPathKept`), and that it creates libraries with declared paths only.
  For `SuccessIsApplied`, `LeftInv` accounts for the work still ahead: whatever the server still lacks
  is in the part of the diff not yet worked off, in the options to enforce, or (options of a library
  that the pass created) in the second list to come (`AllLeft`), or passed over for want of an ItemId and
  recorded as such; and no call left asks for anything
  against the spec (`DiffSound`). At the end nothing is left. `CallLeaves` is its one lemma per call.
* `BootstrapProofs`: `TypeCorrect`, `SecretAlwaysOpensServer`, `RefinesCredentials`, `OnlyUnsavedIsLost`,
  `LossIsFinal`. `PasswordInv` adds that the passwords of
  cache, Secret, pass and server agree once the pass holds a session (`PasswordsAgree`), and that a
  generated password gets into a Secret only when the wizard, which alone could replace it on the
  server, is closed (`WizardClosedFirst`). It needs that a new random password differs from the others
  (`BootstrapAssumption`). The refinement uses the same invariant: every step is `Establish`, `Keep` or
  a stutter, since after the Secret exists the wizard is closed. The last two bound finding 2 from both
  sides: a password can be lost only while it is generated and not yet in a Secret, and once the wizard
  is over no step brings it back. Both follow from the same invariant.
* `PluginWorkloadsProofs`: `TypeCorrect`, `FinalizerIsFirst`, `TeardownIsComplete`, `DrainIsGraceful`,
  `QuietIsReconciled`. `FinalizerStays` says
  that a copy with the finalizer, in the cache or in a pass that creates Deployments, implies the
  finalizer on the live object; `DeletedStaysDeleted` is the delete loop's progress, which only
  `ApplyWorkload` could undo and cannot, since one worker runs. The drain argument: a Deployment is
  scaled down only once the operator knows of the deletion (`ScaledDownInTeardown`), until then a
  reported pod runs, and a cached zero is believed only by an update that carries its version.
  For `QuietIsReconciled`, `QuietInv` adds `Settled`: with an empty queue the pass works on the current
  copies (`PassCurrent`), each loop leaves behind what it is past (`LoopsKept`), and a finished pass leaves
  all of it and the right phase (`RestKept`); anything that would spoil this queues a key. The phase
  compares sums, so `ReadyMeansAll` shows that as many ready as declared workloads means each of them.
* `PluginGateProofs`: `TypeCorrect`, `QuietIsGated`. `GateInv` says that a plugin whose stored verdict is
  not one its cached instances justify has a key queued, a pass under way or an event to come
  (`VerdictsKept`), the same of an instance whose template is not what the caches call for or whose
  status does not list it (`TemplatesKept`), that a pass whose key was not put back works on current
  copies, that a cache is behind only with an event to come (`CacheKept`, `InstanceCacheKept`), and that an
  instance that is gone leaves nothing mounted (`NothingLeft`): a pass over a stale copy of it may still
  run. It is stated over the caches, and the theorem needs them equal to the objects only at rest.
* `StorageProofs`: `TypeCorrect`, `BoundClaimIsSafe`, `QuietIsStored`. For the last, `QuietInv` says of each
  step that the pass is past that its object is as the cached spec declares, or the key is back in the
  queue, or the claim has news (`ConfigKept`, `ClaimKept`, `MountKept`), and that cached claims are older
  copies of the live ones, never of others (`ConfigBehind`, `ClaimBehind`). `BoundToEachOther` adds that the volume is in phase
  Bound, so that a deletion only marks it; `UidsCounted` bounds the claims made by the deletions.
* `ConfigOverlayProofs`: `TypeCorrect`, `ConditionsAreHonest`, `PostsPreserve`, `PostIsIdempotent`. `CopiesHonest` bounds all
  copies of a condition by the generation of the pass under way and of the cache, so that a pass for an
  older generation never runs after the success of a newer one; `BodyApplied` says that the body about
  to be posted declares what the pass's spec does. For `PostsPreserve`, `BodiesTrack` says that a body,
  of a pass or of an abandoned POST, agrees with the server wherever nothing is declared and nobody
  else changed it. `PostIsIdempotent` is what `PostsSettle` rests on: after its own POST a stage finds
  nothing to post, exactly unless a read-only library's declared options undo the hardening.
  `ReadyMeansApplied` excepts the library that was passed over for want of an ItemId (finding 3).
* `PodStartProofs`: `TypeCorrect`, `RunsAreOnce`, `StagedIsWhole`, `FailsClosed`. `RunsAccounted` counts every
  successful run as marked, lost or about to be marked; the other two say the same of the containers
  already finished as the properties say of a running pod.
* `ExposureProofs`: `TypeCorrect`, `QuietIsExposed`, `NoGatewayNoStatus`. `ExposureInv` says of every kind that its cache is
  current or its event pending, that the object matches the current spec once a current pass is past
  it, or else the operator is going to run again, and the same of the status: a conflict, a stale skip
  or a status written back from an old copy always leaves a key queued, a pass under way or an event to
  come. `NoGatewayNoStatus` (finding 6) shows that without the CRDs no pass gets to the status, and that
  the second writer has only the empty one to write back.

Assumptions are sizes of bounds, disjointness of null values and finiteness, as weak as the code
allows; TLC evaluates them in every run.

Every invariant, every safety action property and the refinement that a passing run checks is also
proved. So is the safety half of convergence: plugin workloads, plugin gate, storage and exposure never
rest before everything is as declared, and a library pass that succeeds has applied it.
Only model-checked: all liveness, that is, that the controllers come to rest and the queues run empty
(fairness and ENABLED are out of the prover's reach).

## 5. Not modelled

Manifests, start-up and generated code (no behaviour of their own); hardware acceleration, pod
security and naming (pure functions of one object, without state); parsing of versions and image
tags; the nesting of JSON documents; replica counts above one; pruning of companion Services, which
the code does not do; two media folders naming one library; existing claims appearing or vanishing;
formatting of messages and events. The Ingress's class and TLS, and the Ingress endpoint in the
status, are data that no other part reads.

## 6. Plan

Done: `LibrarySync`, `Bootstrap` with `Credentials`, `PluginWorkloads`, `PluginGate`, `Storage`,
`ConfigOverlay`, `PodStart`, `Exposure`, their runs and proofs.

Left, in order of importance:

1. Sets of paths per library, so that two folders may name one library.
2. Replica counts above one, for the sums in the plugin's status (`jellyfinplugin_controller.go:286`),
   and the `Injected` flag.
3. An abstract specification of the library loop: a set of managed names that only completed passes
   change; the proof would reuse `StatusCopiesRecorded`.
4. Proofs of what one fair step achieves (a pass that starts on current copies and meets no fault ends
   with everything applied), the part of the liveness arguments that needs no fairness.
