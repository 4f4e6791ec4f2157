------------------------------ MODULE Storage ------------------------------
(***************************************************************************)
(* reconcileStorage of JellyfinReconciler, with the one write that follows *)
(* it and depends on it, the pod template's volume (reconcileDeployment).  *)
(* Two kinds of storage:                                                   *)
(*  - the claim of /config, which the cluster provisions and which grows   *)
(*    with spec.storage.config.size (ensurePVC, growPVC; the claims of     *)
(*    cache, trickplay and pvc media folders are treated alike);           *)
(*  - one NFS media folder, mounted inline or, with provision, through a   *)
(*    PersistentVolume and a claim that the operator binds to each other   *)
(*    (ensureProvisionedNFS).                                              *)
(* A pass is split at its API calls; every object is read from an informer *)
(* cache of its own. Claims are owned and watched, the PersistentVolume is *)
(* not: a change of it wakes nobody. The volume binder, the protection of  *)
(* volumes and claims in use, and the user are external.                   *)
(***************************************************************************)
EXTENDS Naturals

CONSTANTS Exports,    \* what immutablePVDrift compares: server, path, readOnly, class
          MaxSize,    \* bound: sizes of the config claim
          Storages,   \* the storage specs that users write
          MaxEdits,   \* bound: edits of the spec
          MaxDeletes, \* bound: claims and volumes deleted by users
          MaxFaults   \* bound: failed calls and operator restarts

ASSUME StorageAssumption ==
  /\ Exports # {}
  /\ Storages \subseteq [own : BOOLEAN, provision : BOOLEAN, options : BOOLEAN,
                       src : Exports, size : 1..MaxSize]
  /\ MaxSize \in Nat \ {0} /\ MaxEdits \in Nat /\ MaxDeletes \in Nat /\ MaxFaults \in Nat

VARIABLES
  spec, specCache,     \* spec.storage at the API server and in the cache
  config, configCache, \* the claim of /config
  expandable,          \* its storage class allows expansion
  pv, pvCache,         \* the PersistentVolume of the media folder
  pvc, pvcCache,       \* its claim
  mounted,             \* the media folder's volume in the pod template
  pass,                \* the pass under way
  queued,              \* the instance's key is in the work queue
  edits, deletes, faults

specs == <<spec, specCache>>
configs == <<config, configCache, expandable>>
volumes == <<pv, pvCache, pvc, pvcCache>>
bounds == <<edits, deletes, faults>>
vars == <<spec, specCache, config, configCache, expandable, pv, pvCache, pvc, pvcCache,
          mounted, pass, queued, edits, deletes, faults>>

----------------------------------------------------------------------------
(* Data *)

\* own: config.existingClaim is empty, the operator makes the claim of /config;
\* options: the media folder has mount options.
JellyfinStorage ==
  [own : BOOLEAN, provision : BOOLEAN, options : BOOLEAN, src : Exports, size : 1..MaxSize]

\* size = 0: the claim does not exist.
Config == [size : 0..MaxSize, bound : BOOLEAN]
NoConfig == [size |-> 0, bound |-> FALSE]

\* A claim's uid; 0 in a volume's claimRef: none, the volume is only pre-bound.
Uids == 1..(MaxDeletes + 1)
Volume == [exists : BOOLEAN, src : Exports, options : BOOLEAN, uid : Uids \cup {0},
           deleting : BOOLEAN,
           phase : {"Pending", "Available", "Bound", "Released", "Failed"}]
NewVolume(src, options) == [exists |-> TRUE, src |-> src, options |-> options, uid |-> 0,
                            deleting |-> FALSE, phase |-> "Pending"]
NoVolume == [NewVolume(CHOOSE s \in Exports : TRUE, FALSE) EXCEPT !.exists = FALSE]

\* The uid of a claim that is gone is kept: the next one has the next uid.
Claim == [exists : BOOLEAN, uid : Uids \cup {0}, bound : BOOLEAN, deleting : BOOLEAN]
NoClaim(uid) == [exists |-> FALSE, uid |-> uid, bound |-> FALSE, deleting |-> FALSE]

Mounts == [kind : {"none", "claim"}] \cup [kind : {"inline"}, src : Exports]

\* Mutant: the source is filled in for a claim too, and a volume has one source.
MediaVolumeBothSources(s) ==
  [kind |-> IF s.provision \/ s.options THEN "claim" ELSE "inline", src |-> s.src]

\* mediaVolumeAndMount: the inline export, or the claim; an inline volume has no
\* place for mount options.
MediaVolume(s) ==
  IF s.provision \/ s.options THEN [kind |-> "claim"] ELSE [kind |-> "inline", src |-> s.src]

Pass == [pc : {"idle", "config", "grow", "volume", "replace", "pv", "claim", "deploy"},
         jf : JellyfinStorage, seen : Config]
IdlePass == [pc |-> "idle", seen |-> NoConfig,
             jf |-> [own |-> FALSE, provision |-> FALSE, options |-> FALSE, size |-> 1,
                     src |-> CHOOSE s \in Exports : TRUE]]

Init ==
  /\ spec \in Storages /\ specCache = spec
  /\ config = NoConfig /\ configCache = NoConfig
  /\ expandable \in (IF spec.own THEN BOOLEAN ELSE {FALSE})
  /\ pv = NoVolume /\ pvCache = NoVolume
  /\ pvc = NoClaim(0) /\ pvcCache = pvc
  /\ mounted = [kind |-> "none"]
  /\ pass = IdlePass
  /\ queued = TRUE
  /\ edits = 0 /\ deletes = 0 /\ faults = 0

----------------------------------------------------------------------------
(* The pass *)

\* An error ends the pass and puts the key back.
Fail == pass' = IdlePass /\ queued' = TRUE

GoTo(pc) ==
  /\ pass' = [pass EXCEPT !.pc = pc]
  /\ UNCHANGED queued

Start ==
  /\ pass.pc = "idle" /\ queued
  /\ queued' = FALSE
  /\ pass' = [pc |-> IF specCache.own THEN "config" ELSE "volume", jf |-> specCache,
              seen |-> NoConfig]
  /\ UNCHANGED <<specs, configs, volumes, mounted, bounds>>

\* ensurePVC: CreateOrUpdate by the cache. Only the creation sets the size.
EnsureConfig ==
  /\ pass.pc = "config"
  /\ \/ /\ configCache.size > 0
        /\ pass' = [pass EXCEPT !.pc = "grow", !.seen = configCache]
        /\ UNCHANGED <<config, queued>>
     \/ /\ configCache.size = 0 /\ config.size = 0
        /\ config' = [size |-> pass.jf.size, bound |-> FALSE]
        /\ pass' = [pass EXCEPT !.pc = "grow", !.seen = config']
        /\ UNCHANGED queued
     \/ /\ configCache.size = 0 /\ config.size > 0
        /\ Fail /\ UNCHANGED config
  /\ UNCHANGED <<specs, configCache, expandable, volumes, mounted, bounds>>

\* growPVC: nothing to grow, or not bound yet; else a patch, whose rejection
\* (a class that does not expand, or a claim that has grown further) is ignored.
Grow ==
  /\ pass.pc = "grow"
  /\ config' = IF /\ pass.seen.size < pass.jf.size /\ pass.seen.bound
                  /\ expandable /\ config.size <= pass.jf.size
               THEN [config EXCEPT !.size = pass.jf.size] ELSE config
  /\ GoTo("volume")
  /\ UNCHANGED <<specs, configCache, expandable, volumes, mounted, bounds>>

\* immutablePVDrift and pvIsServingAClaim.
ImmutableDrift(v, s) == v.src # s.src
ServingAClaim(v) == v.uid # 0 /\ v.phase \in {"Bound", "Pending"}

\* Mutant: the drift of an existing volume is not looked for.
ReadVolumeIgnoresDrift ==
  /\ pass.pc = "volume"
  /\ GoTo(IF pass.jf.provision THEN "pv" ELSE "deploy")
  /\ UNCHANGED <<specs, configs, volumes, mounted, bounds>>

\* Without provision the folder needs no object, mount options or not. A volume
\* that differs in an immutable field is an error while it serves a claim, and is
\* replaced otherwise.
ReadVolume ==
  /\ pass.pc = "volume"
  /\ \/ ~pass.jf.provision /\ GoTo("deploy")
     \/ /\ pass.jf.provision
        /\ pvCache.exists /\ ImmutableDrift(pvCache, pass.jf)
        /\ IF ServingAClaim(pvCache) THEN Fail ELSE GoTo("replace")
     \/ /\ pass.jf.provision
        /\ ~(pvCache.exists /\ ImmutableDrift(pvCache, pass.jf))
        /\ GoTo("pv")
  /\ UNCHANGED <<specs, configs, volumes, mounted, bounds>>

\* A volume that is bound is protected: it stays, to be deleted.
AfterDelete(v) == IF v.phase = "Bound" /\ v.exists THEN [v EXCEPT !.deleting = TRUE] ELSE NoVolume

\* Delete goes by name, whatever became of the copy; the pass then fails, to
\* build the volume in the next one.
ReplaceVolume ==
  /\ pass.pc = "replace"
  /\ pv' = AfterDelete(pv)
  /\ Fail
  /\ UNCHANGED <<specs, configs, pvCache, pvc, pvcCache, mounted, bounds>>

\* Mutant: the reference to the claim is written anew in every pass.
EnsureVolumeRewritesRef ==
  /\ pass.pc = "pv"
  /\ \/ /\ ~pvCache.exists /\ ~pv.exists
        /\ pv' = NewVolume(pass.jf.src, pass.jf.options) /\ GoTo("claim")
     \/ /\ pvCache.exists /\ ~ImmutableDrift(pvCache, pass.jf) /\ pvCache = pv
        /\ pv' = [pv EXCEPT !.options = pass.jf.options, !.uid = 0] /\ GoTo("claim")
     \/ /\ IF pvCache.exists THEN ImmutableDrift(pvCache, pass.jf) \/ pvCache # pv
           ELSE pv.exists
        /\ UNCHANGED pv /\ Fail
  /\ UNCHANGED <<specs, configs, pvCache, pvc, pvcCache, mounted, bounds>>

\* CreateOrUpdate by the cache, which sends nothing when the cached volume is as it
\* should be. A reference to the claim of this name is kept with its uid; the mount
\* options are replaced, unless the copy is out of date; an update that would
\* change the source (the cache has moved on since ReadVolume) is rejected.
EnsureVolume ==
  LET current == ~ImmutableDrift(pvCache, pass.jf) /\ pvCache.options = pass.jf.options
      accepted == ~ImmutableDrift(pvCache, pass.jf) /\ pvCache = pv
  IN /\ pass.pc = "pv"
     /\ \/ /\ ~pvCache.exists /\ ~pv.exists
           /\ pv' = NewVolume(pass.jf.src, pass.jf.options) /\ GoTo("claim")
        \/ /\ pvCache.exists /\ current
           /\ UNCHANGED pv /\ GoTo("claim")
        \/ /\ pvCache.exists /\ ~current /\ accepted
           /\ pv' = [pv EXCEPT !.options = pass.jf.options] /\ GoTo("claim")
        \/ /\ IF pvCache.exists THEN ~current /\ ~accepted ELSE pv.exists
           /\ UNCHANGED pv /\ Fail
     /\ UNCHANGED <<specs, configs, pvCache, pvc, pvcCache, mounted, bounds>>

EnsureClaim ==
  /\ pass.pc = "claim"
  /\ \/ pvcCache.exists /\ UNCHANGED pvc /\ GoTo("deploy")
     \/ /\ ~pvcCache.exists /\ ~pvc.exists
        /\ pvc' = [NoClaim(pvc.uid + 1) EXCEPT !.exists = TRUE] /\ GoTo("deploy")
     \/ ~pvcCache.exists /\ pvc.exists /\ UNCHANGED pvc /\ Fail
  /\ UNCHANGED <<specs, configs, pv, pvCache, pvcCache, mounted, bounds>>

\* reconcileDeployment; pods are recreated.
Deploy ==
  /\ pass.pc = "deploy"
  /\ mounted' = MediaVolume(pass.jf)
  /\ pass' = IdlePass
  /\ UNCHANGED <<specs, configs, volumes, queued, bounds>>

----------------------------------------------------------------------------
(* Faults, caches and queue *)

CallFails ==
  /\ pass.pc # "idle"
  /\ faults < MaxFaults /\ faults' = faults + 1
  /\ Fail
  /\ UNCHANGED <<specs, configs, volumes, mounted, edits, deletes>>

Restart ==
  /\ faults < MaxFaults /\ faults' = faults + 1
  /\ Fail
  /\ specCache' = spec /\ configCache' = config /\ pvCache' = pv /\ pvcCache' = pvc
  /\ UNCHANGED <<spec, config, expandable, pv, pvc, mounted, edits, deletes>>

SpecEvent ==
  /\ specCache # spec
  /\ specCache' = spec /\ queued' = TRUE
  /\ UNCHANGED <<spec, configs, volumes, mounted, pass, bounds>>

\* Mutant: claims are not watched.
ConfigEventUnwatched ==
  /\ configCache # config
  /\ configCache' = config
  /\ UNCHANGED <<specs, config, expandable, volumes, mounted, pass, queued, bounds>>

ConfigEvent ==
  /\ configCache # config
  /\ configCache' = config /\ queued' = TRUE
  /\ UNCHANGED <<specs, config, expandable, volumes, mounted, pass, bounds>>

\* Mutant: the claims of media folders are not watched.
ClaimEventUnwatched ==
  /\ pvcCache # pvc
  /\ pvcCache' = pvc
  /\ UNCHANGED <<specs, configs, pv, pvCache, pvc, mounted, pass, queued, bounds>>

ClaimEvent ==
  /\ pvcCache # pvc
  /\ pvcCache' = pvc /\ queued' = TRUE
  /\ UNCHANGED <<specs, configs, pv, pvCache, pvc, mounted, pass, bounds>>

\* Volumes are not watched.
VolumeDelivered ==
  /\ pvCache # pv
  /\ pvCache' = pv
  /\ UNCHANGED <<specs, configs, pv, pvc, pvcCache, mounted, pass, queued, bounds>>

----------------------------------------------------------------------------
(* Users *)

\* Who provides the claim of /config is settled when the instance is made.
EditSpec ==
  /\ edits < MaxEdits /\ edits' = edits + 1
  /\ \E s \in Storages \ {spec} : s.own = spec.own /\ spec' = s
  /\ UNCHANGED <<specCache, configs, volumes, mounted, pass, queued, deletes, faults>>

DeleteClaim ==
  /\ deletes < MaxDeletes /\ deletes' = deletes + 1
  /\ pvc.exists /\ ~pvc.deleting
  /\ pvc' = [pvc EXCEPT !.deleting = TRUE]
  /\ UNCHANGED <<specs, configs, pv, pvCache, pvcCache, mounted, pass, queued, edits, faults>>

DeleteVolume ==
  /\ deletes < MaxDeletes /\ deletes' = deletes + 1
  /\ pv.exists
  /\ pv' = AfterDelete(pv)
  /\ UNCHANGED <<specs, configs, pvCache, pvc, pvcCache, mounted, pass, queued, edits, faults>>

----------------------------------------------------------------------------
(* The cluster: binder and protection *)

BindConfig ==
  /\ config.size > 0 /\ ~config.bound
  /\ config' = [config EXCEPT !.bound = TRUE]
  /\ UNCHANGED <<specs, configCache, expandable, volumes, mounted, pass, queued, bounds>>

\* The binder's writes, in its order: the volume is available; its reference
\* gets the claim's uid; its phase; the claim.
HasClaim == pvc.exists /\ pv.uid = pvc.uid

VolumeStep ==
  /\ pv.exists
  /\ \/ pv.phase = "Pending" /\ pv' = [pv EXCEPT !.phase = "Available"]
     \/ /\ pv.phase = "Available" /\ pv.uid = 0 /\ pvc.exists /\ ~pvc.deleting
        /\ pv' = [pv EXCEPT !.uid = pvc.uid]
     \/ /\ pv.phase = "Available" /\ HasClaim
        /\ pv' = [pv EXCEPT !.phase = "Bound"]
     \* The claim is gone: the volume is released and then, by its reclaim
     \* policy, deleted; or no deleter handles it.
     \/ /\ pv.phase \in {"Available", "Bound"} /\ pv.uid # 0 /\ ~HasClaim
        /\ pv' = [pv EXCEPT !.phase = "Released"]
     \/ pv.phase = "Released" /\ pv' \in {NoVolume, [pv EXCEPT !.phase = "Failed"]}
     \* The protection ends.
     \/ pv.deleting /\ pv.phase # "Bound" /\ pv' = NoVolume
  /\ UNCHANGED <<specs, configs, pvCache, pvc, pvcCache, mounted, pass, queued, bounds>>

ClaimStep ==
  /\ pvc.exists
  /\ \/ /\ ~pvc.bound /\ pv.exists /\ pv.phase = "Bound" /\ HasClaim
        /\ pvc' = [pvc EXCEPT !.bound = TRUE]
     \* A claim that a pod uses is protected.
     \/ /\ pvc.deleting /\ mounted.kind # "claim"
        /\ pvc' = NoClaim(pvc.uid)
  /\ UNCHANGED <<specs, configs, pv, pvCache, pvcCache, mounted, pass, queued, bounds>>

----------------------------------------------------------------------------

PassStep ==
  \/ Start \/ EnsureConfig \/ Grow \/ ReadVolume \/ ReplaceVolume \/ EnsureVolume
  \/ EnsureClaim \/ Deploy

Next ==
  \/ PassStep \/ CallFails \/ Restart
  \/ SpecEvent \/ ConfigEvent \/ ClaimEvent \/ VolumeDelivered
  \/ EditSpec \/ DeleteClaim \/ DeleteVolume
  \/ BindConfig \/ VolumeStep \/ ClaimStep

\* One worker takes the key when it is queued and no call blocks for ever;
\* informers deliver; the cluster's controllers act.
Fairness ==
  /\ WF_vars(PassStep)
  /\ WF_vars(SpecEvent) /\ WF_vars(ConfigEvent) /\ WF_vars(ClaimEvent) /\ WF_vars(VolumeDelivered)
  /\ WF_vars(BindConfig) /\ WF_vars(VolumeStep) /\ WF_vars(ClaimStep)

Spec == Init /\ [][Next]_vars
FairSpec == Spec /\ Fairness

----------------------------------------------------------------------------
(* Properties *)

\* Every variable keeps its type.
TypeOK ==
  /\ spec \in JellyfinStorage /\ specCache \in JellyfinStorage
  /\ config \in Config /\ configCache \in Config /\ expandable \in BOOLEAN
  /\ pv \in Volume /\ pvCache \in Volume
  /\ pvc \in Claim /\ pvcCache \in Claim
  /\ mounted \in Mounts
  /\ pass \in Pass /\ queued \in BOOLEAN
  /\ edits \in 0..MaxEdits /\ deletes \in 0..MaxDeletes /\ faults \in 0..MaxFaults

\* A bound claim keeps its volume, whose reference names it by uid, through every
\* pass, edit, replacement and restart: otherwise the binder declares the claim
\* Lost and every pod that uses it is stuck (ensureProvisionedNFS, the comment on
\* ClaimRef).
BoundClaimKeepsVolume ==
  pvc.exists /\ pvc.bound => pv.exists /\ pv.uid = pvc.uid

\* The operator has nothing to do and, of what it watches, nothing to learn.
Quiet ==
  /\ pass.pc = "idle" /\ ~queued
  /\ specCache = spec /\ configCache = config /\ pvcCache = pvc

\* reconcileStorage forgets nothing: whenever the operator rests, the pod template
\* mounts what the spec declares, the claims it owns exist, and the config claim
\* has grown as far as it is bound and its class allows, although a pass ignores
\* an expansion it cannot make and reads copies that may be out of date. (A
\* volume deleted behind a finished pass is not noticed, and mount options edited
\* there and back may stay those of the first edit: volumes are not watched.)
QuietMeansStored ==
  Quiet =>
    /\ mounted = MediaVolume(spec)
    /\ spec.own => /\ config.size > 0
                   /\ expandable /\ config.bound => config.size >= spec.size
    /\ spec.provision => pvc.exists

\* A serving volume differs from the spec: the error asks for a manual migration.
NeedsMigration ==
  spec.provision /\ pv.exists /\ ImmutableDrift(pv, spec) /\ ServingAClaim(pv)

\* An edit of the storage always reaches the pod template, unless a serving
\* volume would have to change: neither a volume left over from earlier, nor a
\* claim that cannot grow, nor the caches' lag stops the instance's
\* convergence.
InstanceNotWedged == <>[](mounted = MediaVolume(spec) \/ NeedsMigration)

\* A larger size reaches the config claim if its class can expand, also when the
\* claim was not bound yet when the spec was edited.
GrowthReachesClaim == <>[](spec.own /\ expandable => config.size >= spec.size)
=============================================================================
