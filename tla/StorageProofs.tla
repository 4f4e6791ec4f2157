--------------------------- MODULE StorageProofs ---------------------------
(***************************************************************************)
(* Proofs about the storage of an instance: types, and that a bound claim  *)
(* keeps its volume whatever the operator, the users and faults do.        *)
(***************************************************************************)
EXTENDS Storage, TLAPS

\* A claim is made only when there is none, and goes only after a deletion.
UidsCounted ==
  pvc.uid <= IF pvc.exists /\ ~pvc.deleting THEN deletes + 1 ELSE deletes

\* The volume of a bound claim is bound, so that it is protected and its
\* reference fixed.
BoundToEachOther ==
  pvc.exists /\ pvc.bound => pv.exists /\ pv.uid = pvc.uid /\ pv.phase = "Bound"

TypeInv == TypeOK /\ UidsCounted

StorageInv == TypeInv /\ BoundToEachOther

\* The values that stand for absent or new objects, and the ways a pass ends.
LEMMA ValueTypes ==
  /\ NoConfig \in Config /\ NoVolume \in Volume /\ NoClaim(0) \in Claim
  /\ IdlePass \in Pass
  /\ \A s \in Exports, o \in BOOLEAN : NewVolume(s, o) \in Volume
  /\ \A u \in Uids \cup {0} : NoClaim(u) \in Claim
  <1> USE StorageAssumption
  <1>0. (CHOOSE s \in Exports : TRUE) \in Exports
    OBVIOUS
  <1>1. NoConfig \in Config
    BY DEF NoConfig, Config
  <1>2. \A s \in Exports, o \in BOOLEAN : NewVolume(s, o) \in Volume
    BY DEF NewVolume, Volume
  <1>3. NoVolume \in Volume
    BY <1>0 DEF NoVolume, NewVolume, Volume
  <1>4. \A u \in Uids \cup {0} : NoClaim(u) \in Claim
    BY DEF NoClaim, Claim
  <1>5. IdlePass \in Pass
    BY <1>0, <1>1 DEF IdlePass, Pass, JellyfinStorage
  <1> QED
    BY <1>1, <1>2, <1>3, <1>4, <1>5

\* The initial states are well typed.
LEMMA InitTypeInv == Init => TypeInv
  <1> SUFFICES ASSUME Init PROVE TypeInv
    OBVIOUS
  <1> USE StorageAssumption
  <1>1. spec \in JellyfinStorage /\ mounted \in Mounts /\ expandable \in BOOLEAN
    BY DEF Init, JellyfinStorage, Mounts
  <1>2. UidsCounted
    BY DEF Init, UidsCounted, NoClaim
  <1> QED
    BY <1>1, <1>2, ValueTypes DEF Init, TypeInv, TypeOK

\* The ways a pass ends or moves on keep the pass and the queue well typed.
LEMMA OutcomeTypes ==
  ASSUME TypeOK
  PROVE  /\ Fail => pass' \in Pass /\ queued' \in BOOLEAN
         /\ \A pc \in {"volume", "replace", "pv", "claim", "deploy"} :
              GoTo(pc) => pass' \in Pass /\ queued' \in BOOLEAN
  BY ValueTypes DEF Fail, GoTo, TypeOK, Pass

\* A deletion leaves a volume or none.
LEMMA AfterDeleteType ==
  ASSUME NEW v \in Volume
  PROVE  AfterDelete(v) \in Volume
  BY ValueTypes DEF AfterDelete, Volume

\* Every step of a pass keeps the types.
LEMMA PassTypeInv == TypeInv /\ PassStep => TypeInv'
  <1> SUFFICES ASSUME TypeInv, PassStep PROVE TypeInv'
    OBVIOUS
  <1> USE StorageAssumption DEF TypeInv, specs, configs, volumes, bounds
  <1>1. CASE Start
    <2>1. pass' \in Pass
      BY <1>1, ValueTypes DEF Start, TypeOK, Pass
    <2> QED
      BY <1>1, <2>1 DEF Start, TypeOK, UidsCounted
  <1>2. CASE EnsureConfig
    <2>1. pass.jf.size \in 1..MaxSize
      BY DEF TypeOK, Pass, JellyfinStorage
    <2>2. config' \in Config
      <3>1. [size |-> pass.jf.size, bound |-> FALSE] \in Config
        BY <2>1 DEF Config
      <3> QED
        BY <1>2, <3>1 DEF EnsureConfig, TypeOK
    <2>3. pass' \in Pass /\ queued' \in BOOLEAN
      BY <1>2, <2>2, OutcomeTypes DEF EnsureConfig, TypeOK, Pass
    <2> QED
      BY <1>2, <2>2, <2>3 DEF EnsureConfig, TypeOK, UidsCounted
  <1>3. CASE Grow
    <2>1. pass.jf.size \in 1..MaxSize
      BY DEF TypeOK, Pass, JellyfinStorage
    <2>2. config' \in Config
      BY <1>3, <2>1 DEF Grow, TypeOK, Config
    <2>3. pass' \in Pass /\ queued' \in BOOLEAN
      BY <1>3, OutcomeTypes DEF Grow
    <2> QED
      BY <1>3, <2>2, <2>3 DEF Grow, TypeOK, UidsCounted
  <1>4. CASE ReadVolume
    <2>1. pass' \in Pass /\ queued' \in BOOLEAN
      BY <1>4, OutcomeTypes DEF ReadVolume
    <2> QED
      BY <1>4, <2>1 DEF ReadVolume, TypeOK, UidsCounted
  <1>5. CASE ReplaceVolume
    <2>1. pass' \in Pass /\ queued' \in BOOLEAN
      BY <1>5, OutcomeTypes DEF ReplaceVolume
    <2> QED
      BY <1>5, <2>1, AfterDeleteType DEF ReplaceVolume, TypeOK, UidsCounted
  <1>6. CASE EnsureVolume
    <2>1. pass.jf.src \in Exports /\ pass.jf.options \in BOOLEAN
      BY DEF TypeOK, Pass, JellyfinStorage
    <2>2. pass' \in Pass /\ queued' \in BOOLEAN
      BY <1>6, OutcomeTypes DEF EnsureVolume
    <2>3. pv' \in Volume
      <3>1. pv \in Volume /\ NewVolume(pass.jf.src, pass.jf.options) \in Volume
        BY <2>1, ValueTypes DEF TypeOK
      <3>2. [pv EXCEPT !.options = pass.jf.options] \in Volume
        BY <2>1, <3>1 DEF Volume
      <3> QED
        BY <1>6, <3>1, <3>2 DEF EnsureVolume
    <2> QED
      BY <1>6, <2>2, <2>3 DEF EnsureVolume, TypeOK, UidsCounted
  <1>7. CASE EnsureClaim
    <2>1. pass' \in Pass /\ queued' \in BOOLEAN
      BY <1>7, OutcomeTypes DEF EnsureClaim
    <2>2. CASE UNCHANGED pvc
      BY <1>7, <2>1, <2>2 DEF EnsureClaim, TypeOK, UidsCounted
    <2>3. CASE ~pvc.exists /\ pvc' = [NoClaim(pvc.uid + 1) EXCEPT !.exists = TRUE]
      <3>1. pvc.uid \in Nat /\ pvc.uid <= deletes /\ deletes \in 0..MaxDeletes
        BY <2>3 DEF TypeOK, UidsCounted, Claim, Uids
      <3>2. pvc.uid + 1 \in Uids
        BY <3>1 DEF Uids
      <3>3. pvc' \in Claim /\ pvc'.uid = pvc.uid + 1 /\ pvc'.exists /\ ~pvc'.deleting
        BY <2>3, <3>2 DEF NoClaim, Claim
      <3> QED
        BY <1>7, <2>1, <3>1, <3>3 DEF EnsureClaim, TypeOK, UidsCounted
    <2> QED
      BY <1>7, <2>2, <2>3 DEF EnsureClaim
  <1>8. CASE Deploy
    <2>1. mounted' \in Mounts
      BY <1>8 DEF Deploy, MediaVolume, Mounts, TypeOK, Pass, JellyfinStorage
    <2> QED
      BY <1>8, <2>1, ValueTypes DEF Deploy, TypeOK, UidsCounted
  <1> QED
    BY <1>1, <1>2, <1>3, <1>4, <1>5, <1>6, <1>7, <1>8 DEF PassStep

\* Every other step keeps the types.
LEMMA NextTypeInv == TypeInv /\ [Next]_vars => TypeInv'
  <1> SUFFICES ASSUME TypeInv, [Next]_vars PROVE TypeInv'
    OBVIOUS
  <1> USE StorageAssumption DEF TypeInv, specs, configs, volumes, bounds
  <1>1. CASE CallFails
    BY <1>1, OutcomeTypes DEF CallFails, TypeOK, UidsCounted
  <1>2. CASE Restart
    BY <1>2, OutcomeTypes DEF Restart, TypeOK, UidsCounted
  <1>3. CASE SpecEvent \/ ConfigEvent \/ ClaimEvent \/ VolumeDelivered
    BY <1>3 DEF SpecEvent, ConfigEvent, ClaimEvent, VolumeDelivered, TypeOK, UidsCounted
  <1>4. CASE EditSpec
    <2>1. spec' \in JellyfinStorage
      BY <1>4 DEF EditSpec, JellyfinStorage
    <2> QED
      BY <1>4, <2>1 DEF EditSpec, TypeOK, UidsCounted
  <1>5. CASE DeleteClaim
    <2>1. pvc' \in Claim /\ pvc'.uid = pvc.uid /\ pvc'.deleting
      BY <1>5 DEF DeleteClaim, TypeOK, Claim
    <2>2. UidsCounted'
      BY <1>5, <2>1 DEF DeleteClaim, UidsCounted, TypeOK, Claim, Uids
    <2> QED
      BY <1>5, <2>1, <2>2 DEF DeleteClaim, TypeOK
  <1>6. CASE DeleteVolume
    <2>1. UidsCounted'
      BY <1>6 DEF DeleteVolume, UidsCounted, TypeOK, Claim, Uids
    <2> QED
      BY <1>6, <2>1, AfterDeleteType DEF DeleteVolume, TypeOK
  <1>7. CASE BindConfig
    BY <1>7 DEF BindConfig, TypeOK, Config, UidsCounted
  <1>8. CASE VolumeStep
    <2>1. pvc.uid \in Uids \cup {0}
      BY DEF TypeOK, Claim
    <2>2. pv' \in Volume
      BY <1>8, <2>1, ValueTypes DEF VolumeStep, TypeOK, Volume
    <2> QED
      BY <1>8, <2>2 DEF VolumeStep, TypeOK, UidsCounted
  <1>9. CASE ClaimStep
    <2>1. CASE pvc' = [pvc EXCEPT !.bound = TRUE]
      BY <1>9, <2>1 DEF ClaimStep, TypeOK, Claim, UidsCounted
    <2>2. CASE pvc.exists /\ pvc.deleting /\ pvc' = NoClaim(pvc.uid)
      BY <1>9, <2>2, ValueTypes DEF ClaimStep, TypeOK, Claim, NoClaim, UidsCounted
    <2> QED
      BY <1>9, <2>1, <2>2 DEF ClaimStep
  <1>10. CASE UNCHANGED vars
    BY <1>10 DEF vars, TypeOK, UidsCounted
  <1> QED
    BY <1>1, <1>2, <1>3, <1>4, <1>5, <1>6, <1>7, <1>8, <1>9, <1>10, PassTypeInv DEF Next

\* The state of the storage reconciliation keeps its types for all exports,
\* specs and bounds; every claim that is made has a uid of its own.
THEOREM TypeCorrect == Spec => []TypeOK
  <1>1. TypeInv => TypeOK
    BY DEF TypeInv
  <1> QED
    BY <1>1, InitTypeInv, NextTypeInv, PTL DEF Spec

\* Every step keeps a bound claim and its volume together.
LEMMA NextBound == StorageInv /\ [Next]_vars => BoundToEachOther'
  <1> SUFFICES ASSUME StorageInv, [Next]_vars PROVE BoundToEachOther'
    OBVIOUS
  <1> USE DEF specs, configs, volumes, bounds
  <1>0. TypeOK /\ BoundToEachOther
    BY DEF StorageInv, TypeInv
  <1>1. CASE UNCHANGED <<pv, pvc>>
    BY <1>0, <1>1 DEF BoundToEachOther
  \* A bound volume that is deleted is only marked.
  <1>2. CASE UNCHANGED pvc /\ pv' = AfterDelete(pv)
    BY <1>0, <1>2 DEF AfterDelete, BoundToEachOther, TypeOK, Volume
  \* New mount options leave the reference and the phase as they are.
  <1>3. CASE EnsureVolume
    <2> DEFINE new == [pv EXCEPT !.options = pass.jf.options]
    <2>1. /\ UNCHANGED pvc
          /\ ~pv.exists \/ UNCHANGED pv \/ pv' = new
      BY <1>3 DEF EnsureVolume
    <2>2. new.exists = pv.exists /\ new.uid = pv.uid /\ new.phase = pv.phase
      BY <1>0 DEF TypeOK, Volume
    <2> QED
      BY <1>0, <2>1, <2>2 DEF BoundToEachOther
  <1>4. CASE EnsureClaim
    BY <1>0, <1>4 DEF EnsureClaim, NoClaim, BoundToEachOther
  <1>5. CASE DeleteClaim
    BY <1>0, <1>5 DEF DeleteClaim, BoundToEachOther, TypeOK, Claim
  \* The binder changes no bound volume whose claim is there.
  <1>6. CASE VolumeStep
    <2>1. ~(pvc.exists /\ pvc.bound)
      BY <1>0, <1>6 DEF VolumeStep, HasClaim, BoundToEachOther
    <2> QED
      BY <1>6, <2>1 DEF VolumeStep, BoundToEachOther
  <1>7. CASE ClaimStep
    BY <1>0, <1>7 DEF ClaimStep, HasClaim, NoClaim, BoundToEachOther, TypeOK, Claim
  <1> QED
    BY <1>1, <1>2, <1>3, <1>4, <1>5, <1>6, <1>7
    DEF Next, PassStep, Start, EnsureConfig, Grow, ReadVolume, ReplaceVolume, Deploy,
        CallFails, Restart, SpecEvent, ConfigEvent, ClaimEvent, VolumeDelivered,
        EditSpec, DeleteVolume, BindConfig, vars

\* A bound claim keeps the volume that names it, through every pass, edit,
\* deletion, failure and restart.
THEOREM BoundClaimIsSafe == Spec => []BoundClaimKeepsVolume
  <1>1. Init => StorageInv
    <2>1. ASSUME Init PROVE ~pvc.exists
      BY <2>1 DEF Init, NoClaim
    <2> QED
      BY <2>1, InitTypeInv DEF StorageInv, BoundToEachOther
  <1>2. StorageInv /\ [Next]_vars => StorageInv'
    BY NextTypeInv, NextBound DEF StorageInv
  <1>3. StorageInv => BoundClaimKeepsVolume
    BY DEF StorageInv, BoundToEachOther, BoundClaimKeepsVolume
  <1> QED
    BY <1>1, <1>2, <1>3, PTL DEF Spec

----------------------------------------------------------------------------
(* What the operator remembers *)

\* The caches of the claims are behind the claims, never ahead.
ConfigBehind ==
  /\ configCache.size <= config.size
  /\ configCache.bound => config.bound
  /\ config.bound => config.size > 0
ClaimBehind ==
  /\ pvcCache.uid <= pvc.uid
  /\ pvc.exists => pvc.uid > 0
  /\ pvc.exists /\ pvcCache.uid = pvc.uid => pvcCache.exists

\* A pass works on the cached spec, and grows the cached claim, or its key is
\* back in the queue. A claim it has just made is not in the cache yet.
PassKept == pass.pc # "idle" => queued \/ pass.jf = specCache
SeenKept ==
  pass.pc = "grow" =>
    /\ config.size > 0
    /\ queued \/ configCache.size = 0 \/ pass.seen = configCache

\* What the pass is past is as the cached spec declares, or the key is back in
\* the queue, or the claim has news.
PastGrow == pass.pc \in {"idle", "volume", "replace", "pv", "claim", "deploy"}
ConfigKept ==
  PastGrow /\ ~queued /\ specCache.own =>
    /\ config.size > 0
    /\ configCache = config /\ expandable /\ config.bound => config.size >= specCache.size
ClaimKept ==
  pass.pc \in {"idle", "deploy"} /\ ~queued /\ specCache.provision =>
    (pvcCache = pvc => pvc.exists)
MountKept == pass.pc = "idle" /\ ~queued => mounted = MediaVolume(specCache)

QuietInv ==
  /\ TypeInv /\ ConfigBehind /\ ClaimBehind
  /\ PassKept /\ SeenKept
  /\ ConfigKept /\ ClaimKept /\ MountKept

\* What the comparisons below are about.
LEMMA Sizes ==
  ASSUME TypeOK
  PROVE  /\ config.size \in Nat /\ configCache.size \in Nat
         /\ config.bound \in BOOLEAN /\ configCache.bound \in BOOLEAN
         /\ pass.jf.size \in Nat /\ specCache.size \in Nat /\ pass.jf.size > 0
         /\ pvc.uid \in Nat /\ pvcCache.uid \in Nat
  BY StorageAssumption DEF TypeOK, Config, Pass, JellyfinStorage, Claim, Uids

LEMMA InitQuietInv == Init => QuietInv
  <1> SUFFICES ASSUME Init PROVE QuietInv
    OBVIOUS
  <1>1. TypeInv
    BY InitTypeInv
  <1> QED
    BY <1>1 DEF Init, QuietInv, ConfigBehind, ClaimBehind, PassKept, SeenKept, ConfigKept,
       ClaimKept, MountKept, NoConfig, NoClaim, IdlePass

\* A failed pass has its key back in the queue: there is nothing else to keep.
LEMMA Requeued ==
  ASSUME Fail
  PROVE  PassKept' /\ SeenKept' /\ ConfigKept' /\ ClaimKept' /\ MountKept'
  BY DEF Fail, IdlePass, PassKept, SeenKept, ConfigKept, ClaimKept, MountKept

\* A pass that is past the config claim and goes on, without a change of it.
LEMMA MovedOn ==
  ASSUME QuietInv, NEW pc \in {"replace", "pv", "claim"}, GoTo(pc),
         pass.pc \in {"volume", "pv"},
         UNCHANGED <<specCache, config, configCache, expandable>>
  PROVE  PassKept' /\ SeenKept' /\ ConfigKept' /\ ClaimKept' /\ MountKept'
  <1>1. pass'.pc = pc /\ pass'.jf = pass.jf /\ UNCHANGED queued
    BY DEF GoTo, QuietInv, TypeInv, TypeOK, Pass
  <1> QED
    BY <1>1 DEF QuietInv, PassKept, SeenKept, ConfigKept, ClaimKept, MountKept, PastGrow

\* No step lets a cache get ahead of its claim: whoever writes a claim
\* makes it newer, and the caches take what there is.
LEMMA NextBehind == QuietInv /\ [Next]_vars => ConfigBehind' /\ ClaimBehind'
  <1> SUFFICES ASSUME QuietInv, [Next]_vars PROVE ConfigBehind' /\ ClaimBehind'
    OBVIOUS
  <1> USE DEF specs, configs, volumes, bounds
  <1>0. TypeOK /\ ConfigBehind /\ ClaimBehind /\ SeenKept
    BY DEF QuietInv, TypeInv
  <1>1. ConfigBehind'
    <2>1. CASE UNCHANGED <<config, configCache>>
      BY <1>0, <2>1 DEF ConfigBehind
    <2>2. CASE UNCHANGED config /\ configCache' = config
      BY <1>0, <2>2, Sizes DEF ConfigBehind
    <2>3. CASE EnsureConfig
      BY <1>0, <2>3, Sizes DEF EnsureConfig, ConfigBehind
    <2>4. CASE Grow
      <3>1. config'.bound = config.bound /\ config'.size \in Nat /\ config'.size >= config.size
        BY <1>0, <2>4, Sizes DEF Grow, TypeOK, Config
      <3> QED
        BY <1>0, <2>4, <3>1, Sizes DEF Grow, ConfigBehind
    <2>5. CASE BindConfig
      BY <1>0, <2>5, Sizes DEF BindConfig, ConfigBehind, TypeOK, Config
    <2> QED
      BY <2>1, <2>2, <2>3, <2>4, <2>5
      DEF Next, PassStep, Start, ReadVolume, ReplaceVolume, EnsureVolume, EnsureClaim, Deploy,
          CallFails, Restart, SpecEvent, ConfigEvent, ClaimEvent, VolumeDelivered,
          EditSpec, DeleteClaim, DeleteVolume, VolumeStep, ClaimStep, vars
  <1>2. ClaimBehind'
    <2>1. CASE UNCHANGED <<pvc, pvcCache>>
      BY <1>0, <2>1 DEF ClaimBehind
    <2>2. CASE UNCHANGED pvc /\ pvcCache' = pvc
      BY <1>0, <2>2, Sizes DEF ClaimBehind
    <2>3. CASE EnsureClaim
      <3>1. CASE UNCHANGED pvc
        BY <1>0, <2>3, <3>1 DEF EnsureClaim, ClaimBehind
      <3>2. CASE pvc' = [NoClaim(pvc.uid + 1) EXCEPT !.exists = TRUE]
        BY <1>0, <2>3, <3>2, Sizes DEF EnsureClaim, NoClaim, ClaimBehind
      <3> QED
        BY <2>3, <3>1, <3>2 DEF EnsureClaim
    <2>4. CASE DeleteClaim
      BY <1>0, <2>4 DEF DeleteClaim, ClaimBehind, TypeOK, Claim
    <2>5. CASE ClaimStep
      BY <1>0, <2>5 DEF ClaimStep, NoClaim, ClaimBehind, TypeOK, Claim
    <2> QED
      BY <2>1, <2>2, <2>3, <2>4, <2>5
      DEF Next, PassStep, Start, EnsureConfig, Grow, ReadVolume, ReplaceVolume, EnsureVolume,
          Deploy, CallFails, Restart, SpecEvent, ConfigEvent, ClaimEvent, VolumeDelivered,
          EditSpec, DeleteVolume, BindConfig, VolumeStep, vars
  <1> QED
    BY <1>1, <1>2

\* Every step of a pass leaves behind what it is past.
LEMMA PassKeeps ==
  ASSUME QuietInv, PassStep
  PROVE  PassKept' /\ SeenKept' /\ ConfigKept' /\ ClaimKept' /\ MountKept'
  <1> USE DEF specs, configs, volumes, bounds
  <1>0. TypeOK /\ pass \in Pass
    BY DEF QuietInv, TypeInv, TypeOK
  <1>1. CASE Start
    BY <1>1 DEF Start, PassKept, SeenKept, ConfigKept, ClaimKept, MountKept, PastGrow
  <1>2. CASE EnsureConfig
    <2>1. CASE Fail
      BY <2>1, Requeued
    <2>2. CASE pass'.pc = "grow" /\ UNCHANGED queued
      <3>1. pass'.jf = pass.jf /\ UNCHANGED <<specCache, configCache>>
        <4>1. UNCHANGED <<specCache, configCache>>
          BY <1>2 DEF EnsureConfig
        <4>2. ~Fail
          BY <2>2 DEF Fail, IdlePass
        <4>3. \/ pass' = [pass EXCEPT !.pc = "grow", !.seen = configCache]
              \/ pass' = [pass EXCEPT !.pc = "grow", !.seen = config']
          BY <1>2, <4>2 DEF EnsureConfig
        <4> QED
          BY <1>0, <4>1, <4>3 DEF Pass
      <3>2. config'.size > 0
        BY <1>0, <1>2, <2>2, Sizes DEF EnsureConfig, QuietInv, ConfigBehind, Fail, IdlePass
      <3>3. configCache.size = 0 \/ pass'.seen = configCache
        BY <1>0, <1>2, Sizes DEF EnsureConfig, Pass
      <3> QED
        BY <1>2, <2>2, <3>1, <3>2, <3>3
        DEF EnsureConfig, QuietInv, PassKept, SeenKept, ConfigKept, ClaimKept, MountKept, PastGrow
    <2> QED
      BY <1>0, <1>2, <2>1, <2>2 DEF EnsureConfig, Pass
  <1>3. CASE Grow
    <2>1. /\ pass.pc = "grow" /\ pass'.pc = "volume" /\ pass'.jf = pass.jf
          /\ UNCHANGED <<queued, specCache, configCache, expandable>>
      BY <1>0, <1>3 DEF Grow, GoTo, Pass
    <2>2. config'.size > 0
      BY <1>0, <1>3, Sizes DEF Grow, QuietInv, SeenKept, TypeOK, Config
    <2>3. ASSUME ~queued, configCache' = config', expandable, config'.bound
          PROVE  config'.size >= specCache.size
      <3>1. pass.jf = specCache /\ pass.seen = config'
        BY <2>1, <2>2, <2>3 DEF QuietInv, PassKept, SeenKept
      <3>2. CASE pass.seen.size >= pass.jf.size
        BY <3>1, <3>2
      <3>3. CASE pass.seen.size < pass.jf.size
        <4>1. config.size <= config'.size
          BY <1>0, <1>3, Sizes DEF Grow, TypeOK, Config
        <4> QED
          BY <1>0, <1>3, <2>3, <3>1, <3>3, Sizes DEF Grow, TypeOK, Config
      <3> QED
        BY <1>0, <3>1, <3>2, <3>3, Sizes DEF TypeOK, Config, Pass
    <2> QED
      BY <2>1, <2>2, <2>3
      DEF QuietInv, PassKept, SeenKept, ConfigKept, ClaimKept, MountKept, PastGrow
  <1>4. CASE ReadVolume
    <2>1. CASE Fail
      BY <2>1, Requeued
    <2>2. CASE GoTo("replace") \/ GoTo("pv")
      BY <1>4, <2>2, MovedOn DEF ReadVolume
    <2>3. CASE ~pass.jf.provision /\ GoTo("deploy")
      <3>1. pass'.pc = "deploy" /\ pass'.jf = pass.jf /\ UNCHANGED queued
        BY <1>0, <2>3 DEF GoTo, Pass
      <3> QED
        BY <1>4, <2>3, <3>1
        DEF ReadVolume, QuietInv, PassKept, SeenKept, ConfigKept, ClaimKept, MountKept, PastGrow
    <2> QED
      BY <1>4, <2>1, <2>2, <2>3 DEF ReadVolume
  <1>5. CASE ReplaceVolume
    BY <1>5, Requeued DEF ReplaceVolume
  <1>6. CASE EnsureVolume
    <2>1. CASE Fail
      BY <2>1, Requeued
    <2>2. CASE GoTo("claim")
      BY <1>6, <2>2, MovedOn DEF EnsureVolume
    <2> QED
      BY <1>6, <2>1, <2>2 DEF EnsureVolume
  <1>7. CASE EnsureClaim
    <2>1. CASE Fail
      BY <2>1, Requeued
    <2>2. CASE GoTo("deploy")
      <3>1. pass'.pc = "deploy" /\ pass'.jf = pass.jf /\ UNCHANGED queued
        BY <1>0, <2>2 DEF GoTo, Pass
      <3>2. pvcCache' = pvc' => pvc'.exists
        BY <1>7, <3>1 DEF EnsureClaim, NoClaim, Fail, IdlePass
      <3> QED
        BY <1>7, <3>1, <3>2
        DEF EnsureClaim, QuietInv, PassKept, SeenKept, ConfigKept, ClaimKept, MountKept, PastGrow
    <2> QED
      BY <1>7, <2>1, <2>2 DEF EnsureClaim
  <1>8. CASE Deploy
    BY <1>8 DEF Deploy, IdlePass, QuietInv, PassKept, SeenKept, ConfigKept, ClaimKept,
       MountKept, PastGrow
  <1> QED
    BY <1>1, <1>2, <1>3, <1>4, <1>5, <1>6, <1>7, <1>8 DEF PassStep

\* No other step disturbs what a finished pass left behind, without an event to
\* come or the key in the queue.
LEMMA OthersKeep ==
  ASSUME QuietInv, [Next]_vars, ~PassStep
  PROVE  PassKept' /\ SeenKept' /\ ConfigKept' /\ ClaimKept' /\ MountKept'
  <1> USE DEF specs, configs, volumes, bounds
  <1>0. TypeOK
    BY DEF QuietInv, TypeInv
  <1>1. CASE CallFails \/ Restart
    BY <1>1, Requeued DEF CallFails, Restart
  <1>2. CASE SpecEvent \/ ConfigEvent \/ ClaimEvent
    BY <1>2 DEF SpecEvent, ConfigEvent, ClaimEvent, QuietInv, PassKept, SeenKept, ConfigKept,
       ClaimKept, MountKept, PastGrow
  <1>3. CASE UNCHANGED <<specCache, config, configCache, expandable, pvc, pvcCache, mounted,
                         pass, queued>>
    BY <1>3 DEF QuietInv, PassKept, SeenKept, ConfigKept, ClaimKept, MountKept, PastGrow
  <1>4. CASE BindConfig
    <2>1. config'.size = config.size /\ config'.bound /\ configCache' # config'
      BY <1>0, <1>4 DEF BindConfig, QuietInv, ConfigBehind, TypeOK, Config
    <2> QED
      BY <1>4, <2>1 DEF BindConfig, QuietInv, PassKept, SeenKept, ConfigKept, ClaimKept,
         MountKept, PastGrow
  <1>5. CASE DeleteClaim \/ ClaimStep
    <2>1. /\ pvcCache' = pvc' => pvc'.exists
          /\ UNCHANGED <<specCache, config, configCache, expandable, mounted, pass, queued>>
      <3>1. CASE DeleteClaim
        BY <1>0, <3>1 DEF DeleteClaim, TypeOK, Claim
      <3>2. CASE ClaimStep
        BY <1>0, <3>2 DEF ClaimStep, NoClaim, QuietInv, ClaimBehind, TypeOK, Claim
      <3> QED
        BY <1>5, <3>1, <3>2
    <2> QED
      BY <2>1 DEF QuietInv, PassKept, SeenKept, ConfigKept, ClaimKept, MountKept, PastGrow
  <1> QED
    BY <1>1, <1>2, <1>3, <1>4, <1>5
    DEF Next, VolumeDelivered, EditSpec, DeleteVolume, VolumeStep, vars

\* Whenever the operator rests, the storage is as declared: the pod template, the
\* claims and their sizes, for every spec and any number of edits, deletions,
\* failures and restarts.
THEOREM QuietIsStored == Spec => []QuietMeansStored
  <1>1. QuietInv /\ [Next]_vars => QuietInv'
    <2> SUFFICES ASSUME QuietInv, [Next]_vars PROVE QuietInv'
      OBVIOUS
    <2>1. TypeInv' /\ ConfigBehind' /\ ClaimBehind'
      BY NextTypeInv, NextBehind DEF QuietInv
    <2>2. PassKept' /\ SeenKept' /\ ConfigKept' /\ ClaimKept' /\ MountKept'
      BY PassKeeps, OthersKeep
    <2> QED
      BY <2>1, <2>2 DEF QuietInv
  <1>2. QuietInv => QuietMeansStored
    BY DEF QuietInv, QuietMeansStored, Quiet, ConfigKept, ClaimKept, MountKept, PastGrow
  <1> QED
    BY <1>1, <1>2, InitQuietInv, PTL DEF Spec
=============================================================================
