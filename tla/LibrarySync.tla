---------------------------- MODULE LibrarySync ----------------------------
(***************************************************************************)
(* The library loop of JellyfinAPIReconciler (jellyfinapi_controller.go    *)
(* and internal/jellyfinapi/libraries.go), with the status of the Jellyfin *)
(* object that it shares with JellyfinReconciler (statusupdate.go).        *)
(*                                                                         *)
(* Four actors interleave:                                                 *)
(*  - the API reconciler: one pass reads the Jellyfin object from the      *)
(*    informer cache, lists the server's libraries, diffs them, makes one  *)
(*    HTTP call per difference and finally overwrites the status;          *)
(*  - the instance reconciler, which overwrites the same status;           *)
(*  - the cluster: spec edits, availability of the server, cache delivery; *)
(*  - the person who edits libraries by hand in the Jellyfin UI.           *)
(* Any HTTP call may fail, before or after it took effect, and either      *)
(* reconciler may stop at any point without writing its status.            *)
(***************************************************************************)
EXTENDS Naturals, FiniteSets

CONSTANTS Libs,        \* library names; numbered, because the code sorts them
          Paths,       \* mount paths of media folders
          ReadOnly,    \* the paths whose media folder is mounted readOnly
          NoPath,      \* media[n] = NoPath: no media folder declares library n
          Specs,       \* the spec bodies an edit may choose from
          MaxGen,      \* bound: metadata.generation
          MaxHand,     \* bound: edits by hand in the Jellyfin UI
          MaxFaults,   \* bound: failed calls, aborted passes, outages
          CacheLag     \* FALSE: reads of the object are never stale

\* The part of JellyfinSpec the loop reads. api: spec.api is absent, present
\* without manageLibraries, or present with it.
SpecBody == [media : [Libs -> Paths \cup {NoPath}], api : {"none", "auth", "libraries"},
             prune : BOOLEAN]

ASSUME LibSyncAssumption ==
  /\ Libs \subseteq Nat
  /\ ReadOnly \subseteq Paths
  /\ NoPath \notin Paths
  /\ Specs \subseteq SpecBody
  /\ MaxGen \in Nat \ {0} /\ MaxHand \in Nat /\ MaxFaults \in Nat
  /\ CacheLag \in BOOLEAN

VARIABLES
  obj,        \* the Jellyfin object at the API server
  cache,      \* the informer cache's copy, read by both reconcilers
  available,  \* the Deployment has its replicas available
  folders,    \* the server's virtual folders
  pass,       \* the API reconciler's pass
  inst,       \* the instance reconciler's pass
  hand,       \* edits by hand so far
  faults,     \* faults so far
  recorded,   \* history: libraries declared by a completed library pass
  doneGens,   \* history: generations whose library pass completed
  origin      \* history: who made each library, and whether it was declared since

vars == <<obj, cache, available, folders, pass, inst, hand, faults,
          recorded, doneGens, origin>>
history == <<recorded, doneGens, origin>>

----------------------------------------------------------------------------
(* Data *)

\* JellyfinStatus, reduced to what the two writers and the loop use. libsReady
\* is the observedGeneration of LibrariesReady=True, 0 when it is not True. The
\* APIReady condition, which every pass also sets, is read by nobody here.
Status == [ready : BOOLEAN, libsReady : 0..MaxGen, managed : SUBSET Libs]
Object == [gen : 0..MaxGen, spec : SpecBody, status : Status]
NoStatus == [ready |-> FALSE, libsReady |-> 0, managed |-> {}]
NoObject == [gen |-> 0, status |-> NoStatus,
             spec |-> [media |-> [n \in Libs |-> NoPath], api |-> "none", prune |-> FALSE]]

\* A virtual folder: its Locations, whether the write-disabling options are in
\* force, and whether the server has an ItemId for it. A folder created without
\* a refresh, as AddVirtualFolder does, gets that only when the server scans.
Folder == [exists : BOOLEAN, locs : SUBSET Paths, ro : BOOLEAN, item : BOOLEAN]
NoFolder == [exists |-> FALSE, locs |-> {}, ro |-> FALSE, item |-> FALSE]
NewFolder(p) == [exists |-> TRUE, locs |-> {p}, ro |-> FALSE, item |-> FALSE]

\* LibraryDiff.
Diff == [create : SUBSET (Libs \X Paths), add : SUBSET (Libs \X Paths),
         rm : SUBSET (Libs \X Paths), remove : SUBSET Libs]
NoDiff == [create |-> {}, add |-> {}, rm |-> {}, remove |-> {}]

\* A pass keeps its own copy of the object (jf), what is left of the diff, the
\* libraries whose options are still to be enforced and, for the record, those
\* it skips for want of an ItemId and whether no edit by hand has happened
\* since the list.
Pass == [pc : {"idle", "list", "apply", "options", "write"}, jf : Object, diff : Diff,
         created : BOOLEAN, opts : SUBSET Libs, skipped : SUBSET Libs, quiet : BOOLEAN]
IdlePass == [pc |-> "idle", jf |-> NoObject, diff |-> NoDiff, created |-> FALSE,
             opts |-> {}, skipped |-> {}, quiet |-> TRUE]
InstPass == [pc : {"idle", "busy"}, jf : Object]
IdleInst == [pc |-> "idle", jf |-> NoObject]

\* "hand": made by hand when the operator had no claim to the name, and not
\* declared since; "claimed": made by hand otherwise; "operator": made by
\* AddVirtualFolder.
Origin == {"none", "hand", "claimed", "operator"}

Declared(s) == {n \in Libs : s.media[n] # NoPath}
Existing == {n \in Libs : folders[n].exists}
Claim(org, names) ==
  [n \in Libs |-> IF org[n] = "hand" /\ n \in names THEN "claimed" ELSE org[n]]

\* Variants of DiffLibraries: the prune forgets the managed set; the paths that
\* are no longer declared are not removed.
DiffLibrariesPrunesAll(s, managed) ==
  LET want == Declared(s) IN
  [create |-> {np \in (want \ Existing) \X Paths : np[2] = s.media[np[1]]},
   add    |-> {}, rm |-> {},
   remove |-> IF s.prune THEN Existing \ want ELSE {}]
DiffLibrariesKeepsPaths(s, managed) ==
  LET want == Declared(s) IN
  [create |-> {np \in (want \ Existing) \X Paths : np[2] = s.media[np[1]]},
   add    |-> {np \in (want \cap Existing) \X Paths :
                 np[2] = s.media[np[1]] /\ np[2] \notin folders[np[1]].locs},
   rm     |-> {},
   remove |-> IF s.prune THEN {n \in Existing \ want : n \in managed} ELSE {}]

\* DiffLibraries of the declared libraries against the listed folders.
DiffLibraries(s, managed) ==
  LET want == Declared(s) IN
  [create |-> {np \in (want \ Existing) \X Paths : np[2] = s.media[np[1]]},
   add    |-> {np \in (want \cap Existing) \X Paths :
                 np[2] = s.media[np[1]] /\ np[2] \notin folders[np[1]].locs},
   rm     |-> {np \in (want \cap Existing) \X Paths :
                 np[2] # s.media[np[1]] /\ np[2] \in folders[np[1]].locs},
   remove |-> IF s.prune THEN {n \in Existing \ want : n \in managed} ELSE {}]

\* The libraries whose options enforceLibraryOptions has to change; those that
\* are listed without an ItemId are passed over.
OptionsDue(s) == {n \in Declared(s) \cap Existing : s.media[n] \in ReadOnly /\ ~folders[n].ro}
OptionsToEnforce(s) == {n \in OptionsDue(s) : folders[n].item}
OptionsSkipped(s) == {n \in OptionsDue(s) : ~folders[n].item}

----------------------------------------------------------------------------
\* The libraries that are there at first were scanned when the server started.
Init ==
  /\ \E s \in Specs : obj = [gen |-> 1, spec |-> s, status |-> NoStatus]
  /\ cache = obj
  /\ available \in BOOLEAN
  /\ folders \in [Libs -> {NoFolder} \cup {[NewFolder(p) EXCEPT !.item = TRUE] : p \in Paths}]
  /\ pass = IdlePass /\ inst = IdleInst
  /\ hand = 0 /\ faults = 0
  /\ recorded = {} /\ doneGens = {}
  /\ origin = Claim([n \in Libs |-> IF folders[n].exists THEN "hand" ELSE "none"],
                    Declared(obj.spec))

\* Every write of the object goes to the API server; the cache follows at once
\* or, with CacheLag, when CacheDeliver happens.
WriteObject(o) ==
  /\ obj' = o
  /\ cache' = IF CacheLag THEN cache ELSE o

CacheDeliver ==
  /\ cache # obj
  /\ cache' = obj
  /\ UNCHANGED <<obj, available, folders, pass, inst, hand, faults, history>>

----------------------------------------------------------------------------
(* The API reconciler *)

\* Reconcile up to the list: no spec.api, no pass; the readiness gate; then
\* ensureCredentials, which succeeds or fails (AuthFailed).
ApiStart ==
  /\ pass.pc = "idle"
  /\ cache.spec.api # "none"
  /\ \E auth \in (IF cache.status.ready THEN BOOLEAN ELSE {FALSE}) :
       /\ (cache.status.ready /\ ~auth) => faults < MaxFaults
       /\ faults' = IF cache.status.ready /\ ~auth THEN faults + 1 ELSE faults
       /\ pass' = [IdlePass EXCEPT
                     !.pc = IF auth /\ cache.spec.api = "libraries" THEN "list" ELSE "write",
                     !.jf = cache]
  /\ UNCHANGED <<obj, cache, available, folders, inst, hand, history>>

\* Where an error inside reconcileLibraries leads: LibrariesReady=False,
\* ManagedLibraries as it was read, then the status write.
LibrariesFailed(o) == [o EXCEPT !.status = [@ EXCEPT !.libsReady = 0]]
LibraryError(p) ==
  [p EXCEPT !.pc = "write", !.jf = LibrariesFailed(@), !.diff = NoDiff,
            !.opts = {}, !.skipped = {}, !.created = FALSE]

\* A call returns ok, or it took effect and its answer was an error or lost.
Returns(after) ==
  \/ pass' = after /\ UNCHANGED faults
  \/ faults < MaxFaults /\ faults' = faults + 1 /\ pass' = LibraryError(pass)

ApiList ==
  /\ pass.pc = "list"
  /\ pass' = [pass EXCEPT
       !.pc = "apply",
       !.diff = DiffLibraries(pass.jf.spec, pass.jf.status.managed),
       !.opts = OptionsToEnforce(pass.jf.spec),
       !.skipped = OptionsSkipped(pass.jf.spec),
       !.quiet = TRUE]
  /\ UNCHANGED <<obj, cache, available, folders, inst, hand, faults, history>>

\* AddVirtualFolder; the server keeps a library that was made meanwhile.
ApiCreate(n, p) ==
  /\ pass.pc = "apply"
  /\ <<n, p>> \in pass.diff.create
  /\ \A other \in pass.diff.create : n <= other[1]
  /\ folders' = IF folders[n].exists THEN folders ELSE [folders EXCEPT ![n] = NewFolder(p)]
  /\ origin' = IF folders[n].exists THEN origin ELSE [origin EXCEPT ![n] = "operator"]
  /\ Returns([pass EXCEPT !.diff = [pass.diff EXCEPT !.create = @ \ {<<n, p>>}], !.created = TRUE])
  /\ UNCHANGED <<obj, cache, available, inst, hand, recorded, doneGens>>

\* A call that names something the server does not know is answered with an
\* error.
OnFolder(n, known, effect, after) ==
  IF known
  THEN /\ folders' = [folders EXCEPT ![n] = effect]
       /\ Returns(after)
  ELSE /\ pass' = LibraryError(pass)
       /\ UNCHANGED <<folders, faults>>

\* AddMediaPath, once every missing library is created.
ApiAddPath(n, p) ==
  /\ pass.pc = "apply"
  /\ pass.diff.create = {}
  /\ <<n, p>> \in pass.diff.add
  /\ OnFolder(n, folders[n].exists, [folders[n] EXCEPT !.locs = @ \cup {p}],
              [pass EXCEPT !.diff = [pass.diff EXCEPT !.add = @ \ {<<n, p>>}]])
  /\ UNCHANGED <<obj, cache, available, inst, hand, history>>

\* Variant of ApiRemovePath: removals do not wait for the additions.
ApiRemovePathEarly(n, p) ==
  /\ pass.pc = "apply"
  /\ pass.diff.create = {}
  /\ <<n, p>> \in pass.diff.rm
  /\ OnFolder(n, folders[n].exists, [folders[n] EXCEPT !.locs = @ \ {p}],
              [pass EXCEPT !.diff = [pass.diff EXCEPT !.rm = @ \ {<<n, p>>}]])
  /\ UNCHANGED <<obj, cache, available, inst, hand, history>>

\* RemoveMediaPath, once every missing path is added.
ApiRemovePath(n, p) ==
  /\ pass.pc = "apply"
  /\ pass.diff.create = {} /\ pass.diff.add = {}
  /\ <<n, p>> \in pass.diff.rm
  /\ OnFolder(n, folders[n].exists, [folders[n] EXCEPT !.locs = @ \ {p}],
              [pass EXCEPT !.diff = [pass.diff EXCEPT !.rm = @ \ {<<n, p>>}]])
  /\ UNCHANGED <<obj, cache, available, inst, hand, history>>

\* RemoveVirtualFolder, the prune.
ApiRemove(n) ==
  /\ pass.pc = "apply"
  /\ pass.diff.create = {} /\ pass.diff.add = {} /\ pass.diff.rm = {}
  /\ n \in pass.diff.remove
  /\ \A m \in pass.diff.remove : n <= m
  /\ OnFolder(n, folders[n].exists, NoFolder,
              [pass EXCEPT !.diff = [pass.diff EXCEPT !.remove = @ \ {n}]])
  /\ origin' = [origin EXCEPT ![n] = "none"]
  /\ UNCHANGED <<obj, cache, available, inst, hand, recorded, doneGens>>

\* Variant of ApiRelist: the options are always judged by the first list.
ApiRelistNever ==
  /\ pass.pc = "apply"
  /\ pass.diff = NoDiff
  /\ pass' = [pass EXCEPT !.pc = "options"]
  /\ UNCHANGED <<obj, cache, available, folders, inst, hand, faults, history>>

\* All differences applied: the folders are listed again when one was created,
\* otherwise the options are judged by the first list.
ApiRelist ==
  /\ pass.pc = "apply"
  /\ pass.diff = NoDiff
  /\ pass' = [pass EXCEPT
       !.pc = "options",
       !.opts = IF pass.created THEN OptionsToEnforce(pass.jf.spec) ELSE @,
       !.skipped = IF pass.created THEN OptionsSkipped(pass.jf.spec) ELSE @]
  /\ UNCHANGED <<obj, cache, available, folders, inst, hand, faults, history>>

\* UpdateLibraryOptions for one library of enforceLibraryOptions, by its ItemId.
ApiOptions(n) ==
  /\ pass.pc = "options"
  /\ n \in pass.opts
  /\ OnFolder(n, folders[n].item, [folders[n] EXCEPT !.ro = TRUE], [pass EXCEPT !.opts = @ \ {n}])
  /\ UNCHANGED <<obj, cache, available, inst, hand, history>>

\* Variant of LibrariesDone: the generation is taken one too high.
LibrariesDoneAhead(o) ==
  [o EXCEPT !.status = [@ EXCEPT !.managed = Declared(o.spec), !.libsReady = o.gen + 1]]

\* The end of reconcileLibraries: ManagedLibraries becomes the declared names,
\* LibrariesReady=True for the generation that was read.
LibrariesDone(o) ==
  [o EXCEPT !.status = [@ EXCEPT !.managed = Declared(o.spec), !.libsReady = o.gen]]

ApiFinish ==
  /\ pass.pc = "options"
  /\ pass.opts = {}
  /\ pass' = [pass EXCEPT !.pc = "write", !.jf = LibrariesDone(@), !.skipped = {}]
  /\ recorded' = recorded \cup Declared(pass.jf.spec)
  /\ doneGens' = doneGens \cup {pass.jf.gen}
  /\ UNCHANGED <<obj, cache, available, folders, inst, hand, faults, origin>>

\* The call the pass is about to make fails without effect (the list, a
\* mutation, the second list, the options or the final refresh).
ApiCallFails ==
  /\ pass.pc \in {"list", "apply", "options"}
  /\ faults < MaxFaults
  /\ faults' = faults + 1
  /\ pass' = LibraryError(pass)
  /\ UNCHANGED <<obj, cache, available, folders, inst, hand, history>>

\* Variant of WriteStatus: the condition is stamped with the generation of the
\* object fetched for the write.
WriteStatusRestamped(jf) ==
  [obj EXCEPT !.status = [jf.status EXCEPT !.libsReady = IF @ = 0 THEN 0 ELSE obj.gen]]

\* writeJellyfinStatus: the whole status is replaced by the one computed from
\* what the reconciler read at its start.
WriteStatus(jf) == [obj EXCEPT !.status = jf.status]

\* The object is fetched from the cache for the write, so the update is refused
\* while the cache is not current. It is retried; when the retries run out, the
\* pass has failed without a status.
ApiWrite ==
  /\ pass.pc = "write"
  /\ cache = obj
  /\ WriteObject(WriteStatus(pass.jf))
  /\ pass' = IdlePass
  /\ UNCHANGED <<available, folders, inst, hand, faults, history>>

ApiConflict ==
  /\ pass.pc = "write"
  /\ cache # obj
  /\ pass' = IdlePass
  /\ UNCHANGED <<obj, cache, available, folders, inst, hand, faults, history>>

\* The operator restarts, or the status cannot be written.
ApiAbort ==
  /\ pass.pc # "idle"
  /\ faults < MaxFaults
  /\ faults' = faults + 1
  /\ pass' = IdlePass
  /\ UNCHANGED <<obj, cache, available, folders, inst, hand, history>>

----------------------------------------------------------------------------
(* The instance reconciler, reduced to its part in the status *)

InstStart ==
  /\ inst.pc = "idle"
  /\ inst' = [pc |-> "busy", jf |-> cache]
  /\ UNCHANGED <<obj, cache, available, folders, pass, hand, faults, history>>

\* updateStatus: Ready from the Deployment's availability, then the write.
InstFinish ==
  /\ inst.pc = "busy"
  /\ cache = obj
  /\ WriteObject(WriteStatus([inst.jf EXCEPT !.status = [@ EXCEPT !.ready = available]]))
  /\ inst' = IdleInst
  /\ UNCHANGED <<available, folders, pass, hand, faults, history>>

InstConflict ==
  /\ inst.pc = "busy"
  /\ cache # obj
  /\ inst' = IdleInst
  /\ UNCHANGED <<obj, cache, available, folders, pass, hand, faults, history>>

InstAbort ==
  /\ inst.pc = "busy"
  /\ faults < MaxFaults
  /\ faults' = faults + 1
  /\ inst' = IdleInst
  /\ UNCHANGED <<obj, cache, available, folders, pass, hand, history>>

----------------------------------------------------------------------------
(* The environment *)

SpecEdit ==
  /\ obj.gen < MaxGen
  /\ \E s \in Specs \ {obj.spec} :
       /\ WriteObject([obj EXCEPT !.gen = @ + 1, !.spec = s])
       /\ origin' = Claim(origin, Declared(s))
  /\ UNCHANGED <<available, folders, pass, inst, hand, faults, recorded, doneGens>>

AvailabilityChange ==
  /\ available => faults < MaxFaults
  /\ available' = ~available
  /\ faults' = IF available THEN faults + 1 ELSE faults
  /\ UNCHANGED <<obj, cache, folders, pass, inst, hand, history>>

\* The names the operator has a claim to: declared or managed, in the object or
\* in the pass under way.
Claimed ==
  UNION {Declared(o.spec) \cup o.status.managed : o \in {obj, pass.jf}}

HandEdit(n, f) ==
  /\ hand < MaxHand
  /\ hand' = hand + 1
  /\ folders' = [folders EXCEPT ![n] = f]
  /\ origin' = Claim([origin EXCEPT ![n] = IF f.exists THEN "hand" ELSE "none"], Claimed)
  /\ pass' = [pass EXCEPT !.quiet = FALSE]
  /\ UNCHANGED <<obj, cache, available, inst, faults, recorded, doneGens>>

HandCreate(n, p) == ~folders[n].exists /\ HandEdit(n, NewFolder(p))
HandDelete(n) == folders[n].exists /\ HandEdit(n, NoFolder)

\* A scan of the server, asked for by RefreshLibraries or scheduled by itself.
ServerScans(n) ==
  /\ folders[n].exists /\ ~folders[n].item
  /\ folders' = [folders EXCEPT ![n] = [folders[n] EXCEPT !.item = TRUE]]
  /\ UNCHANGED <<obj, cache, available, pass, inst, hand, faults, history>>

----------------------------------------------------------------------------
ApiCall ==
  \/ ApiList \/ ApiRelist \/ ApiFinish
  \/ \E n \in Libs : ApiRemove(n) \/ ApiOptions(n)
  \/ \E n \in Libs, p \in Paths : ApiCreate(n, p) \/ ApiAddPath(n, p) \/ ApiRemovePath(n, p)

ApiStep == ApiStart \/ ApiCall \/ ApiWrite \/ ApiConflict
InstStep == InstStart \/ InstFinish \/ InstConflict

Next ==
  \/ ApiStep \/ ApiCallFails \/ ApiAbort
  \/ InstStep \/ InstAbort
  \/ CacheDeliver \/ SpecEdit \/ AvailabilityChange
  \/ \E n \in Libs, p \in Paths : HandCreate(n, p)
  \/ \E n \in Libs : HandDelete(n) \/ ServerScans(n)

\* The work queues keep calling both reconcilers (every status write is an
\* event, and the API loop requeues itself), the informers deliver, an HTTP call
\* returns and the server scans its libraries now and then: weak fairness. Edits,
\* faults and outages are owed nothing.
Fairness ==
  /\ WF_vars(ApiStep) /\ WF_vars(InstStep) /\ WF_vars(CacheDeliver)
  /\ WF_vars(\E n \in Libs : ServerScans(n))

Spec == Init /\ [][Next]_vars
FairSpec == Spec /\ Fairness

----------------------------------------------------------------------------
(* Properties *)

\* Every variable keeps its type: the shape of the shared object, of the two
\* passes and of the server's libraries.
TypeOK ==
  /\ obj \in Object /\ cache \in Object
  /\ available \in BOOLEAN
  /\ folders \in [Libs -> Folder]
  /\ pass \in Pass /\ inst \in InstPass
  /\ hand \in 0..MaxHand /\ faults \in 0..MaxFaults
  /\ recorded \subseteq Libs /\ doneGens \subseteq 0..MaxGen /\ origin \in [Libs -> Origin]

\* The operator deletes a library only if an earlier library pass that ran to
\* its end declared it, however the two reconcilers, stale reads, failed calls
\* and aborted passes interleave (the prune of DiffLibraries).
PruneOnlyRecorded ==
  [][\A n \in Libs : ApiRemove(n) /\ folders[n].exists => n \in recorded]_vars

\* The status never says LibrariesReady=True for a generation whose library
\* pass did not run to its end, whichever reconciler wrote the status last.
LibrariesReadyHonest == obj.status.libsReady \in doneGens \cup {0}

\* Moving a library to another path never leaves it without a path, where its
\* items would be dropped from the server, unless someone edits libraries by
\* hand during the pass: reconcileLibraries adds before it removes, and a
\* failed addition ends the pass.
NeverEmptiesALibrary ==
  [][\A n \in Libs, p \in Paths :
       ApiRemovePath(n, p) /\ folders[n].exists /\ pass.quiet => folders'[n].locs # {}]_vars

\* The inductive strengthening of the three properties above: whatever copy of
\* the status is written next, by whichever reconciler, tells of completed
\* passes only, and so does the prune list of the pass under way; a path still
\* to be removed is never the declared one, and the declared one is in place or
\* still to be added first.
StatusCopiesRecorded ==
  /\ \A o \in {obj, cache, pass.jf, inst.jf} :
       o.status.managed \subseteq recorded /\ o.status.libsReady \in doneGens \cup {0}
  /\ pass.diff.remove \subseteq recorded
DeclaredPathKept ==
  pass.quiet =>
    \A n \in Libs, p \in Paths : <<n, p>> \in pass.diff.rm =>
      LET w == pass.jf.spec.media[n] IN
      /\ w \in Paths /\ p # w
      /\ w \in folders[n].locs \/ <<n, w>> \in pass.diff.add

\* The declared libraries exist with exactly the declared path and, where they
\* are read-only, the options that keep the server from writing.
PathsAsDeclared(s) ==
  \A n \in Declared(s) : folders[n].exists /\ folders[n].locs = {s.media[n]}
OptionsAsDeclared(s, n) == s.media[n] \in ReadOnly => folders[n].ro
AsDeclared(s) == PathsAsDeclared(s) /\ \A n \in Declared(s) : OptionsAsDeclared(s, n)

\* reconcileLibraries (jellyfinapi_controller.go:243) returns without an error, so
\* that LibrariesReady becomes True, only when the server has the libraries as
\* declared and those it was to prune are gone, although it works off a list
\* taken before all of its calls; unless somebody edits libraries by hand
\* meanwhile. The options are in force exactly where the last list had an ItemId
\* or they were in force before: line 317 passes over the others without an
\* error.
CompletedPassApplied ==
  [][ApiFinish /\ pass.quiet =>
       /\ PathsAsDeclared(pass.jf.spec)
       /\ \A n \in Declared(pass.jf.spec) \ pass.skipped : OptionsAsDeclared(pass.jf.spec, n)
       /\ pass.jf.spec.prune =>
            \A n \in pass.jf.status.managed \ Declared(pass.jf.spec) : ~folders[n].exists]_vars

\* docs/specification.md:756, of the condition LibrariesReady: "All desired
\* libraries exist with the correct paths/options." For the generation that it was
\* set for, and with nobody editing libraries by hand.
LibrariesReadyMeansApplied ==
  obj.status.libsReady = obj.gen /\ hand = 0 => AsDeclared(obj.spec)

\* Once the instance stays Ready, the declared libraries come to be as declared,
\* and stay so: a later pass makes up for options that were passed over.
Converged == obj.spec.api = "libraries" => AsDeclared(obj.spec)
LibrariesConverge == <>[](obj.status.ready) => <>[]Converged

\* docs/specification.md 7.6.3: the managed set "prevents the operator from
\* deleting libraries a user created by hand". Counted only for a library made
\* when the operator had no claim to its name and never declared since.
HandMadeLibrarySurvives ==
  [][\A n \in Libs : ApiRemove(n) /\ folders[n].exists => origin[n] # "hand"]_vars
=============================================================================
