--------------------------- MODULE ConfigOverlay ---------------------------
(***************************************************************************)
(* The settings stages of JellyfinAPIReconciler: enforceLibraryOptions,    *)
(* reconcileEncoding, reconcileServerConfig and reconcileBranding, each a  *)
(* GET of a whole document, an overlay of the declared keys and a POST of  *)
(* the whole document (configuration.go, encoding.go, libraries.go).       *)
(*                                                                         *)
(* A pass is split at those calls. Between a GET and the effect of its     *)
(* POST settings may be edited in the Jellyfin UI; a POST may fail without *)
(* effect, take effect and have its answer lost, or take effect only after *)
(* the client gave up on it. The status is replaced as a whole by both     *)
(* reconcilers, from copies read earlier.                                  *)
(***************************************************************************)
EXTENDS Naturals

CONSTANTS Keys,      \* settings: leaves of the documents
          BlockOf,   \* [Keys -> Blocks]: the block of the spec that may declare a key
          ROKeys,    \* the keys of readOnlyLibraryOptions
          ROValue,   \* and their value
          Values,    \* JSON values of a setting
          NoValue,   \* a key that is not in the document, or not in the spec
          Specs,     \* the spec bodies an edit may choose from
          FirstDocs, \* the settings the server may start with
          HandValues,\* the values an edit by hand may choose
          MaxGen,    \* bound: metadata.generation
          MaxHand,   \* bound: edits by hand in the Jellyfin UI
          MaxFaults  \* bound: failed calls, aborted passes

Blocks == {"library", "transcoding", "general", "playback", "branding"}

\* The documents in the order of the stages; general and playback share one.
Docs == <<"options", "encoding", "server", "branding">>
DocOf == [library |-> 1, transcoding |-> 2, general |-> 3, playback |-> 3, branding |-> 4]
Stages == 1..4

\* blocks: the blocks that are present ("library": manageLibraries and a media
\* folder with a library); readOnly: that folder's; want: the declared values.
Document == [Keys -> Values \cup {NoValue}]
SpecBody == [blocks : SUBSET Blocks, readOnly : BOOLEAN, want : Document]

ASSUME ConfigAssumption ==
  /\ BlockOf \in [Keys -> Blocks]
  /\ ROKeys \subseteq {k \in Keys : BlockOf[k] = "library"}
  /\ ROValue \in Values /\ NoValue \notin Values
  /\ Specs \subseteq SpecBody /\ FirstDocs \subseteq Document /\ HandValues \subseteq Values
  /\ MaxGen \in Nat \ {0} /\ MaxHand \in Nat /\ MaxFaults \in Nat

VARIABLES
  obj,      \* the Jellyfin object at the API server
  cache,    \* the informer cache's copy
  server,   \* the settings in force
  item,     \* whether the server has given the library its ItemId
  pass,     \* the API reconciler's pass
  inst,     \* the status the instance reconciler read and will write back
  late,     \* a POST the client gave up on that has yet to take effect
  hand, faults,
  clean     \* history: stages whose last success compared or posted the document, and
            \* nobody else touched it since

vars == <<obj, cache, server, item, pass, inst, late, hand, faults, clean>>

----------------------------------------------------------------------------
(* Data *)

\* cond[d]: the observedGeneration of stage d's condition when it is True, else 0.
Conds == [Stages -> 0..MaxGen]
Object == [gen : 0..MaxGen, spec : SpecBody, cond : Conds]
NoDoc == [k \in Keys |-> NoValue]
NoSpec == [blocks |-> {}, readOnly |-> FALSE, want |-> NoDoc]
NoConds == [d \in Stages |-> 0]
NoObject == [gen |-> 0, spec |-> NoSpec, cond |-> NoConds]

\* A pass has its copy of the object, the stage it is at, the document it will
\* post and, for the record, the keys that others changed since it read them.
Pass == [pc : {"idle", "get", "post", "write"}, jf : Object, stage : Stages,
         body : Document, touched : SUBSET Keys]
IdlePass == [pc |-> "idle", jf |-> NoObject, stage |-> 1, body |-> NoDoc, touched |-> {}]

\* A POST on its way: what the pass knew when it sent it.
Late == [pending : BOOLEAN, spec : SpecBody, stage : Stages, body : Document,
         touched : SUBSET Keys]
NoLate == [pending |-> FALSE, spec |-> NoSpec, stage |-> 1, body |-> NoDoc, touched |-> {}]

InstPass == [busy : BOOLEAN, cond : Conds]
IdleInst == [busy |-> FALSE, cond |-> NoConds]

KeysOf(d) == {k \in Keys : DocOf[BlockOf[k]] = d}
Present(s, d) == \E b \in s.blocks : DocOf[b] = d

\* desiredEncoding, desiredServerConfig, desiredBranding and a library's
\* options: what is not declared is left alone.
Managed(s, d) == {k \in KeysOf(d) : BlockOf[k] \in s.blocks /\ s.want[k] # NoValue}

\* EnforceReadOnlyOptions, the first half of the options stage.
Hardened(s, d, doc) ==
  [k \in Keys |-> IF d = 1 /\ s.readOnly /\ k \in ROKeys THEN ROValue ELSE doc[k]]

\* Mutant: the document is built from the declared keys alone.
OverlayFromScratch(s, d, doc) ==
  [k \in Keys |-> IF k \in Managed(s, d) THEN s.want[k] ELSE Hardened(s, d, NoDoc)[k]]

\* overlayConfig, EnforceEncodingOptions and, after EnforceReadOnlyOptions,
\* MergeLibraryOptions: the declared keys over the document that was read.
Overlay(s, d, doc) ==
  LET declared == Managed(s, d)
      hardened == Hardened(s, d, doc)
  IN [k \in Keys |-> IF k \in declared THEN s.want[k] ELSE hardened[k]]

\* Mutant: declared keys always count as changed.
ChangedAlways(s, d, doc) == Managed(s, d) # {} \/ Hardened(s, d, doc) # doc

\* Mutant: a declared key that is in the document counts as unchanged.
ChangedIfMissing(s, d, doc) ==
  Hardened(s, d, doc) # doc \/ \E k \in Managed(s, d) : doc[k] = NoValue

\* Whether the stage posts. The two halves of the options stage are judged one
\* after the other.
Changed(s, d, doc) ==
  LET hardened == Hardened(s, d, doc)
  IN hardened # doc \/ Overlay(s, d, doc) # hardened

\* A POST replaces the whole document.
Posted(d, body) ==
  LET replaced == KeysOf(d)
  IN [k \in Keys |-> IF k \in replaced THEN body[k] ELSE server[k]]

Init ==
  /\ \E s \in Specs : obj = [gen |-> 1, spec |-> s, cond |-> NoConds]
  /\ cache = obj
  /\ server \in FirstDocs /\ item \in BOOLEAN
  /\ pass = IdlePass /\ inst = IdleInst /\ late = NoLate
  /\ hand = 0 /\ faults = 0
  /\ clean = {}

----------------------------------------------------------------------------
(* The pass *)

Fault == faults < MaxFaults /\ faults' = faults + 1

Reading(o, d) == [IdlePass EXCEPT !.pc = "get", !.jf = o, !.stage = d]
Ended(o) == [IdlePass EXCEPT !.pc = "write", !.jf = o]

\* Mutant: the generation is taken one too high.
CondTrueAhead(o, d) == [o EXCEPT !.cond = [o.cond EXCEPT ![d] = o.gen + 1]]

\* setCondition(..., ConditionTrue, ..., jf.Generation)
CondTrue(o, d) == [o EXCEPT !.cond = [o.cond EXCEPT ![d] = o.gen]]
CondFalse(o, d) == [o EXCEPT !.cond = [o.cond EXCEPT ![d] = 0]]

\* A block that is absent has no stage. One that declares nothing has nothing to
\* ask the server, except that the libraries are listed all the same.
Asks(s, d) == Present(s, d) /\ (d = 1 \/ Managed(s, d) # {})

\* The stages after d: those that ask nothing are done at once, up to the next
\* that does.
Onward(o, d) ==
  LET asking == {e \in Stages : e > d /\ Asks(o.spec, e)}
      next == IF asking = {} THEN 5 ELSE CHOOSE e \in asking : \A f \in asking : e <= f
      passed == [o EXCEPT !.cond = [e \in Stages |->
                   IF d < e /\ e < next /\ Present(o.spec, e) THEN o.gen ELSE o.cond[e]]]
  IN IF next = 5 THEN Ended(passed) ELSE Reading(passed, next)

StageDone == pass' = Onward(CondTrue(pass.jf, pass.stage), pass.stage)
\* A failing stage ends the pass: the later stages are not reached.
StageError == pass' = Ended(CondFalse(pass.jf, pass.stage))

\* Reconcile up to the stages: an instance that is not Ready, or credentials
\* that cannot be had, end the pass with the status as it was.
Start ==
  /\ pass.pc = "idle"
  /\ \/ pass' = Onward(cache, 0) /\ UNCHANGED faults
     \/ pass' = Ended(cache) /\ Fault
  /\ UNCHANGED <<obj, cache, server, item, inst, late, hand, clean>>

\* enforceLibraryOptions passes over a library that is listed without an ItemId.
PassedOver(d) == d = 1 /\ ~item

\* GetEncodingConfig and its like, and the list of the libraries. Without a
\* difference, and for a library that is passed over, the stage is done.
GetConfig ==
  /\ pass.pc = "get"
  /\ LET d == pass.stage
         s == pass.jf.spec
     IN \/ /\ ~Changed(s, d, server)
           /\ StageDone
           /\ clean' = clean \cup {d}
        \/ /\ Changed(s, d, server) /\ PassedOver(d)
           /\ StageDone
           /\ clean' = clean \ {d}
        \/ /\ Changed(s, d, server) /\ ~PassedOver(d)
           /\ pass' = [pass EXCEPT !.pc = "post", !.body = Overlay(s, d, server)]
           /\ UNCHANGED clean
  /\ UNCHANGED <<obj, cache, server, item, inst, late, hand, faults>>

\* Somebody else changes settings that a pass has read and will post, or that
\* a POST on its way carries.
Touch(rec, on, new) ==
  IF on THEN [rec EXCEPT !.touched = @ \cup {k \in Keys : new[k] # server[k]}] ELSE rec

\* UpdateEncodingConfig and its like; the answer may be lost.
PostConfig ==
  /\ pass.pc = "post"
  /\ server' = Posted(pass.stage, pass.body)
  /\ late' = Touch(late, late.pending, server')
  /\ \/ StageDone /\ clean' = clean \cup {pass.stage} /\ UNCHANGED faults
     \/ StageError /\ Fault /\ UNCHANGED clean
  /\ UNCHANGED <<obj, cache, item, inst, hand>>

\* The client times out before the server has handled the POST.
PostTimesOut ==
  /\ pass.pc = "post" /\ ~late.pending
  /\ late' = [pending |-> TRUE, spec |-> pass.jf.spec, stage |-> pass.stage,
              body |-> pass.body, touched |-> pass.touched]
  /\ StageError
  /\ Fault
  /\ UNCHANGED <<obj, cache, server, item, inst, hand, clean>>

CallFails ==
  /\ pass.pc \in {"get", "post"}
  /\ StageError
  /\ Fault
  /\ UNCHANGED <<obj, cache, server, item, inst, late, hand, clean>>

\* Mutant: the conditions are stamped with the generation of the object that
\* is fetched for the write.
WriteStatusRestamped(cond) ==
  [obj EXCEPT !.cond = [d \in Stages |-> IF cond[d] = 0 THEN 0 ELSE obj.gen]]

\* writeJellyfinStatus: the whole status, onto the object fetched from the
\* cache, which is refused while the cache is not current.
WriteStatus(cond) == [obj EXCEPT !.cond = cond]

Write ==
  /\ pass.pc = "write"
  /\ obj' = IF cache = obj THEN WriteStatus(pass.jf.cond) ELSE obj
  /\ pass' = IdlePass
  /\ UNCHANGED <<cache, server, item, inst, late, hand, faults, clean>>

\* The operator restarts, or the status cannot be written.
Abort ==
  /\ pass.pc # "idle"
  /\ pass' = IdlePass
  /\ Fault
  /\ UNCHANGED <<obj, cache, server, item, inst, late, hand, clean>>

----------------------------------------------------------------------------
(* The instance reconciler's part in the status *)

InstStart ==
  /\ ~inst.busy
  /\ inst' = [busy |-> TRUE, cond |-> cache.cond]
  /\ UNCHANGED <<obj, cache, server, item, pass, late, hand, faults, clean>>

InstWrite ==
  /\ inst.busy
  /\ obj' = IF cache = obj THEN WriteStatus(inst.cond) ELSE obj
  /\ inst' = IdleInst
  /\ UNCHANGED <<cache, server, item, pass, late, hand, faults, clean>>

----------------------------------------------------------------------------
(* The environment *)

CacheDeliver ==
  /\ cache # obj
  /\ cache' = obj
  /\ UNCHANGED <<obj, server, item, pass, inst, late, hand, faults, clean>>

SpecEdit ==
  /\ obj.gen < MaxGen
  /\ \E s \in Specs \ {obj.spec} : obj' = [obj EXCEPT !.gen = obj.gen + 1, !.spec = s]
  /\ UNCHANGED <<cache, server, item, pass, inst, late, hand, faults, clean>>

HandEdit(k, v) ==
  /\ hand < MaxHand /\ hand' = hand + 1
  /\ server[k] # v
  /\ server' = [server EXCEPT ![k] = v]
  /\ pass' = Touch(pass, pass.pc = "post", server')
  /\ late' = Touch(late, late.pending, server')
  /\ clean' = clean \ {DocOf[BlockOf[k]]}
  /\ UNCHANGED <<obj, cache, item, inst, faults>>

\* The server handles a POST that the client gave up on.
LatePost ==
  /\ late.pending
  /\ server' = Posted(late.stage, late.body)
  /\ pass' = Touch(pass, pass.pc = "post", server')
  /\ late' = NoLate
  /\ clean' = clean \ {late.stage}
  /\ UNCHANGED <<obj, cache, item, inst, hand, faults>>

\* A scan, by which a library that was created without a refresh gets its ItemId.
ServerScans ==
  /\ ~item
  /\ item' = TRUE
  /\ UNCHANGED <<obj, cache, server, pass, inst, late, hand, faults, clean>>

----------------------------------------------------------------------------
PassStep == Start \/ GetConfig \/ PostConfig \/ Write
InstStep == InstStart \/ InstWrite

Next ==
  \/ PassStep \/ PostTimesOut \/ CallFails \/ Abort
  \/ InstStep
  \/ CacheDeliver \/ SpecEdit \/ LatePost \/ ServerScans
  \/ \E k \in Keys, v \in HandValues : HandEdit(k, v)

\* The API loop requeues itself after every pass, HTTP calls return or time
\* out, informers deliver, the server handles what it has received and scans its
\* libraries now and then.
Fairness ==
  /\ WF_vars(PassStep) /\ WF_vars(CacheDeliver) /\ WF_vars(LatePost)
  /\ WF_vars(ServerScans)

Spec == Init /\ [][Next]_vars
FairSpec == Spec /\ Fairness

----------------------------------------------------------------------------
(* Properties *)

\* Every variable keeps its type.
TypeOK ==
  /\ obj \in Object /\ cache \in Object
  /\ server \in Document /\ item \in BOOLEAN
  /\ pass \in Pass /\ inst \in InstPass /\ late \in Late
  /\ hand \in 0..MaxHand /\ faults \in 0..MaxFaults
  /\ clean \subseteq Stages

\* The settings of stage d are as s declares them.
Applied(s, d) ==
  /\ \A k \in Managed(s, d) : server[k] = s.want[k]
  /\ d = 1 /\ "library" \in s.blocks /\ s.readOnly =>
       \A k \in ROKeys \ Managed(s, d) : server[k] = ROValue

\* A condition that is True for the current generation means that the declared
\* settings are in force, unless somebody edited them or an abandoned POST
\* arrived since the stage last succeeded: no stale read, lost answer, aborted
\* pass or status written back by the other reconciler makes it claim more. The
\* one other exception is the library that had no ItemId when the stage succeeded:
\* jellyfinapi_controller.go:317 passes over it, and nothing is in force (1 is not
\* in clean); LibrariesReadyMeansApplied of LibrarySync is about that case.
ReadyMeansApplied ==
  \A d \in Stages : obj.cond[d] = obj.gen /\ d \in clean => Applied(obj.spec, d)

\* What makes it inductive: no copy of the conditions is ahead of the pass
\* under way, or of the next one, so a pass for an older generation never runs
\* after the success of a newer one.
ConditionCopies == {obj.cond, cache.cond, pass.jf.cond, inst.cond}
Older(o) == o.gen <= obj.gen /\ (o.gen = obj.gen => o.spec = obj.spec)
CopiesHonest ==
  /\ Older(cache) /\ Older(pass.jf)
  /\ pass.jf.gen <= cache.gen
  /\ \A c \in ConditionCopies, d \in Stages :
       /\ c[d] <= cache.gen
       /\ pass.pc # "idle" => c[d] <= pass.jf.gen
       /\ c[d] = obj.gen /\ d \in clean => Applied(obj.spec, d)

\* The full-object POST never clobbers other settings (configuration.go:69-74):
\* whatever it changes was declared, or hardened on a read-only library, or
\* changed by somebody else between the GET and the effect of the POST.
ChangesOnly(s, d, touched) ==
  \A k \in Keys : server'[k] # server[k] =>
    \/ k \in Managed(s, d) \cup touched
    \/ d = 1 /\ s.readOnly /\ k \in ROKeys
OverlayPreserves ==
  [][/\ PostConfig => ChangesOnly(pass.jf.spec, pass.stage, pass.touched)
     /\ LatePost => ChangesOnly(late.spec, late.stage, late.touched)]_vars

\* Left alone, the declared settings are eventually in force and stay so,
\* whatever failed, arrived late or was edited before.
SettingsConverge == <>[](\A d \in Stages : Present(obj.spec, d) => Applied(obj.spec, d))

\* The loop is idempotent (docs/specification.md 7.6.4): it stops posting once
\* the settings are in force, except for a read-only library whose declared
\* options undo the hardening, where every pass posts again.
Contradicted(s) == s.readOnly /\ \E k \in ROKeys \cap Managed(s, 1) : s.want[k] # ROValue
PostsSettle ==
  <>[][PostConfig => pass.stage = 1 /\ Contradicted(pass.jf.spec)]_vars
=============================================================================
