------------------------------ MODULE PodStart ------------------------------
(***************************************************************************)
(* The start of the Jellyfin pod as BuildPodTemplateSpec lays it out: for  *)
(* every bound plugin, in the order of their names, an init container that *)
(* stages its image into /config/plugins, one that runs its install script *)
(* and one that runs the hooks baked into its image (builder.go).          *)
(*                                                                         *)
(* /config outlives the pod; a pod may be killed between any two commands  *)
(* of a container, a command may fail, and plugins are edited meanwhile.   *)
(* The kubelet (containers in order, a failed one again) and the           *)
(* Deployment's Recreate strategy are external.                            *)
(***************************************************************************)
EXTENDS Naturals

CONSTANTS Plugins,     \* plugin names; numbered, because the code sorts them
          Versions,    \* plugin versions
          Hooks,       \* [Versions -> SUBSET Files]: the hooks baked into an image
          PluginSpecs, \* the plugin specs an edit may choose from
          MaxEdits,    \* bound: edits of plugins
          MaxFaults    \* bound: failed commands and killed pods

Files == {"assembly", "firstrun", "bootstrap"}

\* bound: among the instance's healthy plugins. script: an inline install script
\* or command, run at every start or runOnce.
PluginSpec == [bound : BOOLEAN, version : Versions, injection : {"mount", "copy"},
               script : {"none", "always", "once"}, policy : {"Fail", "Ignore"}]

ASSUME PodStartAssumption ==
  /\ Plugins \subseteq Nat
  /\ Hooks \in [Versions -> SUBSET {"firstrun", "bootstrap"}]
  /\ PluginSpecs \subseteq PluginSpec
  /\ MaxEdits \in Nat /\ MaxFaults \in Nat

VARIABLES
  specs,     \* the plugins as the Deployment's template has them
  pod,       \* the pod
  staged,    \* /config/plugins/<Name>_<Version>: the files in each folder
  markers,   \* /config/.jellyops: the markers, of installs and of first runs
  edits, faults,
  runs,      \* history: successful runs of each run-once script
  lost       \* history: of these, those cut short before their marker was written

vars == <<specs, pod, staged, markers, edits, faults, runs, lost>>

----------------------------------------------------------------------------
(* Data *)

\* PluginFolderName: the folder and the markers carry the version.
Folders == Plugins \X Versions
Folder(p) == <<p, pod.specs[p].version>>

\* Run-once scripts: the install script (runOnce) and firstrun.sh, each with a
\* marker directory of its own.
Onces == {"install", "firstrun"} \X Folders

\* Init containers: 1 stages, 2 installs, 3 runs the hooks.
Containers == Plugins \X (1..3)

\* The init containers of BuildPodTemplateSpec.
InitContainers(ss) ==
  {c \in Containers :
     LET s == ss[c[1]] IN
     s.bound /\ IF c[2] = 2 THEN s.script # "none" ELSE s.injection = "copy"}

\* A pod: the template it was made from, the containers it has yet to finish,
\* how far the current one is, and the scripts that succeeded in this pod.
Pod == [specs : [Plugins -> PluginSpec], todo : SUBSET Containers,
        step : {"begin", "touch", "bootstrap"}, ok : SUBSET Containers]
NewPod(ss) == [specs |-> ss, todo |-> InitContainers(ss), step |-> "begin", ok |-> {}]

\* Init containers run one at a time, plugin by plugin.
Current(c) ==
  /\ c \in pod.todo
  /\ \A o \in pod.todo : c[1] < o[1] \/ (c[1] = o[1] /\ c[2] <= o[2])

Running == pod.todo = {}
Strict(p) == pod.specs[p].policy = "Fail"

Init ==
  /\ specs \in [Plugins -> PluginSpecs]
  /\ pod = NewPod(specs)
  /\ staged = [f \in Folders |-> {}]
  /\ markers = {}
  /\ edits = 0 /\ faults = 0
  /\ runs = [o \in Onces |-> 0] /\ lost = [o \in Onces |-> 0]

----------------------------------------------------------------------------
(* Outcomes of a command *)

Fault == faults < MaxFaults /\ faults' = faults + 1

Finish(c) == pod' = [pod EXCEPT !.todo = pod.todo \ {c}, !.step = "begin"]
Again == pod' = [pod EXCEPT !.step = "begin"]
Step(s) == pod' = [pod EXCEPT !.step = s]

\* The run-once script whose marker the current container is about to write.
Once(c) == <<IF c[2] = 2 THEN "install" ELSE "firstrun", Folder(c[1])>>
Count(f, o) == [f EXCEPT ![o] = f[o] + 1]

----------------------------------------------------------------------------
(* stagingContainer *)

\* Mutant: a failed copy does not fail the container.
StageFailsUnnoticed(c) ==
  /\ Current(c) /\ c[2] = 1
  /\ Fault
  /\ \E part \in SUBSET (Hooks[Folder(c[1])[2]] \cup {"assembly"}) :
       staged' = [staged EXCEPT ![Folder(c[1])] = staged[Folder(c[1])] \cup part]
  /\ Finish(c)
  /\ UNCHANGED <<specs, markers, edits, runs, lost>>

Image(p) == Hooks[pod.specs[p].version] \cup {"assembly"}

\* mkdir and cp -r, over what the folder already holds.
Stage(c) ==
  /\ Current(c) /\ c[2] = 1
  /\ staged' = [staged EXCEPT ![Folder(c[1])] = staged[Folder(c[1])] \cup Image(c[1])]
  /\ Finish(c)
  /\ UNCHANGED <<specs, markers, edits, faults, runs, lost>>

\* set -e: a copy that fails half-way fails the container.
StageFails(c) ==
  /\ Current(c) /\ c[2] = 1
  /\ Fault
  /\ \E part \in SUBSET Image(c[1]) :
       staged' = [staged EXCEPT ![Folder(c[1])] = staged[Folder(c[1])] \cup part]
  /\ Again
  /\ UNCHANGED <<specs, markers, edits, runs, lost>>

----------------------------------------------------------------------------
(* installContainer and buildInstallWrapper *)

Script(p) == pod.specs[p].script

\* Mutant: a marker makes the container fail.
InstallDoneFails(c) ==
  /\ Current(c) /\ c[2] = 2 /\ pod.step = "begin"
  /\ Script(c[1]) = "once" /\ Once(c) \in markers
  /\ Again
  /\ UNCHANGED <<specs, staged, markers, edits, faults, runs, lost>>

\* The marker is there: exit 0.
InstallDone(c) ==
  /\ Current(c) /\ c[2] = 2 /\ pod.step = "begin"
  /\ Script(c[1]) = "once" /\ Once(c) \in markers
  /\ Finish(c)
  /\ UNCHANGED <<specs, staged, markers, edits, faults, runs, lost>>

Install(c) ==
  /\ Current(c) /\ c[2] = 2 /\ pod.step = "begin"
  /\ IF Script(c[1]) = "once"
     THEN /\ Once(c) \notin markers
          /\ runs' = Count(runs, Once(c))
          /\ Step("touch")
     ELSE /\ pod' = [pod EXCEPT !.todo = pod.todo \ {c}, !.ok = pod.ok \cup {c}]
          /\ UNCHANGED runs
  /\ UNCHANGED <<specs, staged, markers, edits, faults, lost>>

\* The script fails or times out: fail-closed or fail-open, without a marker.
InstallFails(c) ==
  /\ Current(c) /\ c[2] = 2 /\ pod.step = "begin"
  /\ Script(c[1]) = "once" => Once(c) \notin markers
  /\ Fault
  /\ IF Strict(c[1]) THEN Again ELSE Finish(c)
  /\ UNCHANGED <<specs, staged, markers, edits, runs, lost>>

----------------------------------------------------------------------------
(* The marker, after the script that it stands for *)

\* Where the container goes after the marker.
AfterMarker(c) == IF c[2] = 2 THEN Finish(c) ELSE Step("bootstrap")

\* Mutant: the marker goes to a directory named after the container.
TouchElsewhere(c) ==
  /\ Current(c) /\ pod.step = "touch"
  /\ markers' = markers \cup {<<IF c[2] = 2 THEN "install" ELSE "hook", Folder(c[1])>>}
  /\ AfterMarker(c)
  /\ UNCHANGED <<specs, staged, edits, faults, runs, lost>>

Touch(c) ==
  /\ Current(c) /\ pod.step = "touch"
  /\ markers' = markers \cup {Once(c)}
  /\ AfterMarker(c)
  /\ UNCHANGED <<specs, staged, edits, faults, runs, lost>>

TouchFails(c) ==
  /\ Current(c) /\ pod.step = "touch"
  /\ Fault
  /\ IF Strict(c[1]) THEN Again ELSE AfterMarker(c)
  /\ lost' = Count(lost, Once(c))
  /\ UNCHANGED <<specs, staged, markers, edits, runs>>

----------------------------------------------------------------------------
(* hookContainer and buildHookWrapper *)

FirstRunDue(c) == "firstrun" \in staged[Folder(c[1])] /\ Once(c) \notin markers

NoFirstRun(c) ==
  /\ Current(c) /\ c[2] = 3 /\ pod.step = "begin"
  /\ ~FirstRunDue(c)
  /\ Step("bootstrap")
  /\ UNCHANGED <<specs, staged, markers, edits, faults, runs, lost>>

\* Mutant: firstrun.sh runs whether or not its marker is there.
FirstRunAlways(c) ==
  /\ Current(c) /\ c[2] = 3 /\ pod.step = "begin"
  /\ "firstrun" \in staged[Folder(c[1])]
  /\ runs' = Count(runs, Once(c))
  /\ Step("touch")
  /\ UNCHANGED <<specs, staged, markers, edits, faults, lost>>

FirstRun(c) ==
  /\ Current(c) /\ c[2] = 3 /\ pod.step = "begin"
  /\ FirstRunDue(c)
  /\ runs' = Count(runs, Once(c))
  /\ Step("touch")
  /\ UNCHANGED <<specs, staged, markers, edits, faults, lost>>

FirstRunFails(c) ==
  /\ Current(c) /\ c[2] = 3 /\ pod.step = "begin"
  /\ FirstRunDue(c)
  /\ Fault
  /\ IF Strict(c[1]) THEN Again ELSE Step("bootstrap")
  /\ UNCHANGED <<specs, staged, markers, edits, runs, lost>>

\* bootstrap.sh, at every start, if there is one.
Bootstrap(c) ==
  /\ Current(c) /\ pod.step = "bootstrap"
  /\ pod' = [pod EXCEPT !.todo = pod.todo \ {c}, !.step = "begin", !.ok = pod.ok \cup {c}]
  /\ UNCHANGED <<specs, staged, markers, edits, faults, runs, lost>>

\* Mutant: fail-open whatever the policy.
BootstrapFailsOpen(c) ==
  /\ Current(c) /\ pod.step = "bootstrap"
  /\ "bootstrap" \in staged[Folder(c[1])]
  /\ Fault
  /\ Finish(c)
  /\ UNCHANGED <<specs, staged, markers, edits, runs, lost>>

BootstrapFails(c) ==
  /\ Current(c) /\ pod.step = "bootstrap"
  /\ "bootstrap" \in staged[Folder(c[1])]
  /\ Fault
  /\ IF Strict(c[1]) THEN Again ELSE Finish(c)
  /\ UNCHANGED <<specs, staged, markers, edits, runs, lost>>

----------------------------------------------------------------------------
(* The environment *)

\* A new pod starts from its first init container. What was run and not yet
\* marked will be run again.
Replace ==
  /\ pod' = NewPod(specs)
  /\ lost' = IF pod.step = "touch"
             THEN Count(lost, Once(CHOOSE c \in Containers : Current(c)))
             ELSE lost
  /\ UNCHANGED <<specs, staged, markers, edits, runs>>

Rollout == pod.specs # specs /\ Replace /\ UNCHANGED faults
Kill == pod.specs = specs /\ Fault /\ Replace

EditPlugin(p, s) ==
  /\ edits < MaxEdits /\ edits' = edits + 1
  /\ s # specs[p]
  /\ specs' = [specs EXCEPT ![p] = s]
  /\ UNCHANGED <<pod, staged, markers, faults, runs, lost>>

ContainerStep(c) ==
  \/ Stage(c) \/ InstallDone(c) \/ Install(c) \/ Touch(c)
  \/ NoFirstRun(c) \/ FirstRun(c) \/ Bootstrap(c)
ContainerFault(c) ==
  StageFails(c) \/ InstallFails(c) \/ TouchFails(c) \/ FirstRunFails(c) \/ BootstrapFails(c)

Next ==
  \/ \E c \in Containers : ContainerStep(c) \/ ContainerFault(c)
  \/ Rollout \/ Kill
  \/ \E p \in Plugins, s \in PluginSpecs : EditPlugin(p, s)

\* The kubelet goes on with the pod it has, and a changed template is rolled out.
Fairness == WF_vars(\E c \in Containers : ContainerStep(c)) /\ WF_vars(Rollout)

Spec == Init /\ [][Next]_vars
FairSpec == Spec /\ Fairness

----------------------------------------------------------------------------
(* Properties *)

\* Every variable keeps its type.
TypeOK ==
  /\ specs \in [Plugins -> PluginSpec]
  /\ pod \in Pod
  /\ staged \in [Folders -> SUBSET Files]
  /\ markers \subseteq Onces
  /\ edits \in 0..MaxEdits /\ faults \in 0..MaxFaults
  /\ runs \in [Onces -> Nat] /\ lost \in [Onces -> Nat]

\* Jellyfin starts only with every copied plugin whole in its folder, however
\* often staging was cut short before.
StagedWhole ==
  Running => \A p \in Plugins :
    pod.specs[p].bound /\ pod.specs[p].injection = "copy" => Image(p) \subseteq staged[Folder(p)]

\* failurePolicy Fail: Jellyfin does not start before this plugin's scripts have
\* succeeded: those of every start in this pod, the run-once ones for this
\* version at some time, be it under another policy or before a kill.
FailClosed ==
  Running => \A p \in Plugins :
    LET s == pod.specs[p]
        hooks == IF s.injection = "copy" THEN Hooks[s.version] ELSE {}
    IN s.bound /\ s.policy = "Fail" =>
         /\ s.script = "always" => <<p, 2>> \in pod.ok
         /\ s.script = "once" => runs[<<"install", Folder(p)>>] > 0
         /\ "firstrun" \in hooks => runs[<<"firstrun", Folder(p)>>] > 0
         /\ "bootstrap" \in hooks => <<p, 3>> \in pod.ok

\* A marker keeps its script from running again (buildInstallWrapper,
\* buildHookWrapper): a run-once script runs once per version, and again only after
\* a run whose marker could not be written (a pod killed in between, a failed
\* touch), through upgrades, downgrades, policy changes and restarts. For runOnce
\* this is what docs/specification.md:632 asks for; for firstrun.sh it is less, see
\* FirstRunOncePerInstance.
RunsOnce == \A o \in Onces : runs[o] <= lost[o] + 1

\* Its inductive strengthening: every successful run has its marker, or lost
\* it, or is the one the current container is about to mark.
Marking(o) == pod.step = "touch" /\ \E c \in Containers : Current(c) /\ Once(c) = o
RunsAccounted ==
  \A o \in Onces :
    runs[o] = lost[o] + (IF o \in markers \/ Marking(o) THEN 1 ELSE 0)

\* builder.go:422: "firstrun.sh runs once per instance" (docs/specification.md:363 too),
\* so not once for each version of the plugin that the instance has had. (Runs
\* cut short before their marker was written do not count.)
FirstRunOncePerInstance ==
  \A p \in Plugins, v, w \in Versions :
    LET a == <<"firstrun", <<p, v>>>>
        b == <<"firstrun", <<p, w>>>>
    IN runs[a] > lost[a] /\ runs[b] > lost[b] => v = w

\* Once edits and faults end, Jellyfin runs with the plugins as declared.
PodStarts == <>[](Running /\ pod.specs = specs)
=============================================================================
