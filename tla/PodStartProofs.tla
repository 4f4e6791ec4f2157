--------------------------- MODULE PodStartProofs ---------------------------
(***************************************************************************)
(* Proofs about the start of the Jellyfin pod: types, that a run-once      *)
(* script is repeated only when its marker was lost, and that Jellyfin     *)
(* runs only behind whole plugins and, fail-closed, behind their scripts.  *)
(***************************************************************************)
EXTENDS PodStart, TLAPS

\* A container that is past its first command is the current one, runs scripts,
\* and runs bootstrap.sh only if it is the one with the hooks. An install script
\* that gets a marker is a run-once one.
AtCommand ==
  /\ pod.todo \subseteq InitContainers(pod.specs)
  /\ pod.step # "begin" =>
       \E c \in Containers :
         /\ Current(c) /\ c[2] # 1
         /\ pod.step = "bootstrap" => c[2] = 3
         /\ pod.step = "touch" /\ c[2] = 2 => Script(c[1]) = "once"

TypeInv == TypeOK /\ AtCommand

\* A script is run only while its marker is missing.
MarkingOnce == \A o \in Onces : Marking(o) => o \notin markers

RunsInv == RunsAccounted /\ MarkingOnce

\* Of every container the pod is done with, or past a part of.
Done(p, i) == <<p, i>> \in InitContainers(pod.specs) \ pod.todo
StagedInv ==
  \A p \in Plugins : Done(p, 1) => Image(p) \subseteq staged[Folder(p)]

HasRun(k, p) == runs[<<k, Folder(p)>>] > 0
PastFirstRun(p) == pod.step = "bootstrap" /\ Current(<<p, 3>>)
ClosedInv ==
  \A p \in Plugins : pod.specs[p].policy = "Fail" =>
    /\ Done(p, 2) /\ Script(p) = "always" => <<p, 2>> \in pod.ok
    /\ Done(p, 2) /\ Script(p) = "once" => HasRun("install", p)
    /\ (Done(p, 3) \/ PastFirstRun(p)) /\ "firstrun" \in Image(p) => HasRun("firstrun", p)
    /\ Done(p, 3) => <<p, 3>> \in pod.ok

PodInv == TypeInv /\ RunsInv /\ StagedInv /\ ClosedInv

----------------------------------------------------------------------------
(* The data *)

\* One container is current.
LEMMA CurrentUnique ==
  ASSUME NEW c \in Containers, NEW d \in Containers, Current(c), Current(d)
  PROVE  c = d
  <1>1. PICK a \in Plugins, i \in 1..3 : c = <<a, i>>
    BY DEF Containers
  <1>2. PICK b \in Plugins, j \in 1..3 : d = <<b, j>>
    BY DEF Containers
  <1>3. a \in Nat /\ b \in Nat
    BY PodStartAssumption
  <1>4. a < b \/ (a = b /\ i <= j)
    BY <1>1, <1>2 DEF Current
  <1>5. b < a \/ (b = a /\ j <= i)
    BY <1>1, <1>2 DEF Current
  <1>6. a = b /\ i = j
    BY <1>3, <1>4, <1>5
  <1> QED
    BY <1>1, <1>2, <1>6

\* The folder and the markers of a plugin of the pod.
LEMMA FolderTypes ==
  ASSUME TypeOK, NEW p \in Plugins
  PROVE  /\ pod.specs[p] \in PluginSpec /\ Folder(p) \in Folders
         /\ \A k \in {"install", "firstrun"} : <<k, Folder(p)>> \in Onces
         /\ Image(p) \subseteq Files
  <1>1. pod.specs[p] \in PluginSpec
    BY DEF TypeOK, Pod
  <1>2. pod.specs[p].version \in Versions
    BY <1>1 DEF PluginSpec
  <1>3. Folder(p) \in Folders
    BY <1>2 DEF Folder, Folders
  <1>4. Image(p) \subseteq Files
    BY <1>2, PodStartAssumption DEF Image, Files
  <1> QED
    BY <1>1, <1>3, <1>4 DEF Onces

\* The script that a container would mark.
LEMMA OnceType ==
  ASSUME TypeOK, NEW c \in Containers
  PROVE  c[1] \in Plugins /\ c[2] \in 1..3 /\ Once(c) \in Onces
  <1>1. c[1] \in Plugins /\ c[2] \in 1..3
    BY DEF Containers
  <1> QED
    BY <1>1, FolderTypes DEF Once

\* A new pod is well typed and at its first command.
LEMMA NewPodType ==
  ASSUME NEW ss \in [Plugins -> PluginSpec]
  PROVE  NewPod(ss) \in Pod /\ NewPod(ss).todo = InitContainers(ss)
         /\ NewPod(ss).specs = ss /\ NewPod(ss).step = "begin" /\ NewPod(ss).ok = {}
  BY DEF NewPod, Pod, InitContainers

\* Counting keeps the type.
LEMMA CountType ==
  ASSUME NEW f \in [Onces -> Nat], NEW o \in Onces
  PROVE  Count(f, o) \in [Onces -> Nat]
  BY DEF Count

----------------------------------------------------------------------------
(* Types *)

\* A command that ends its container, or has it started again, keeps the pod
\* well typed.
LEMMA EndTypes ==
  ASSUME TypeInv, NEW c \in Containers
  PROVE  /\ Finish(c) => pod' \in Pod /\ AtCommand'
         /\ Again => pod' \in Pod /\ AtCommand'
         /\ \A ok \in SUBSET Containers :
              pod' = [pod EXCEPT !.todo = pod.todo \ {c}, !.step = "begin", !.ok = ok] =>
                pod' \in Pod /\ AtCommand'
  <1> USE DEF TypeInv, TypeOK
  <1>1. Finish(c) => pod' \in Pod /\ AtCommand'
    BY DEF Finish, AtCommand, Pod
  <1>2. Again => pod' \in Pod /\ AtCommand'
    BY DEF Again, AtCommand, Pod
  <1>3. ASSUME NEW ok \in SUBSET Containers,
               pod' = [pod EXCEPT !.todo = pod.todo \ {c}, !.step = "begin", !.ok = ok]
        PROVE  pod' \in Pod /\ AtCommand'
    BY <1>3 DEF AtCommand, Pod
  <1> QED
    BY <1>1, <1>2, <1>3

\* So does one after which the container goes on.
LEMMA StepTypes ==
  ASSUME TypeInv, NEW c \in Containers, Current(c), c[2] # 1,
         NEW s \in {"touch", "bootstrap"}, s = "bootstrap" => c[2] = 3,
         s = "touch" /\ c[2] = 2 => Script(c[1]) = "once", Step(s)
  PROVE  pod' \in Pod /\ AtCommand'
  <1>1. pod' \in Pod /\ pod'.todo = pod.todo /\ pod'.specs = pod.specs /\ pod'.step = s
    BY DEF Step, Pod, TypeInv, TypeOK
  <1>2. Current(c)' /\ Script(c[1])' = Script(c[1])
    BY <1>1 DEF Current, Script
  <1> QED
    BY <1>1, <1>2 DEF AtCommand, TypeInv

\* The initial states are well typed.
LEMMA InitTypeInv == Init => TypeInv
  <1> SUFFICES ASSUME Init PROVE TypeInv
    OBVIOUS
  <1> USE PodStartAssumption DEF Init
  <1>1. specs \in [Plugins -> PluginSpec]
    OBVIOUS
  <1>2. pod \in Pod /\ AtCommand
    BY <1>1, NewPodType DEF AtCommand
  <1> QED
    BY <1>1, <1>2 DEF TypeInv, TypeOK

\* Every command, successful or not, keeps the types.
LEMMA ContainerTypeInv ==
  ASSUME TypeInv, NEW c \in Containers, ContainerStep(c) \/ ContainerFault(c)
  PROVE  TypeInv'
  <1> USE PodStartAssumption DEF TypeInv
  <1>0. Current(c) /\ c[1] \in Plugins /\ Once(c) \in Onces
    BY OnceType DEF ContainerStep, ContainerFault, Stage, InstallDone, Install, Touch, NoFirstRun,
       FirstRun, Bootstrap, StageFails, InstallFails, TouchFails, FirstRunFails, BootstrapFails
  <1>a. Image(c[1]) \subseteq Files /\ Folder(c[1]) \in Folders
    BY <1>0, FolderTypes
  <1>b. ASSUME NEW part \in SUBSET Image(c[1]),
               staged' = [staged EXCEPT ![Folder(c[1])] = staged[Folder(c[1])] \cup part]
        PROVE  staged' \in [Folders -> SUBSET Files]
    BY <1>a, <1>b DEF TypeOK
  <1>c. Fault => faults' \in 0..MaxFaults
    BY DEF Fault, TypeOK
  <1>d. pod.step = "bootstrap" => c[2] = 3
    BY <1>0, CurrentUnique DEF AtCommand
  <1>e. pod.step = "touch" => c[2] # 1
    BY <1>0, CurrentUnique DEF AtCommand
  <1>f. c[2] \in 1..3
    BY DEF Containers
  <1>g. pod.ok \cup {c} \in SUBSET Containers
    BY DEF TypeOK, Pod
  <1>h. ASSUME pod.step = "touch", AfterMarker(c) PROVE pod' \in Pod /\ AtCommand'
    <2>1. CASE c[2] = 2
      BY <1>h, <2>1, EndTypes DEF AfterMarker
    <2>2. CASE c[2] = 3
      <3>1. Step("bootstrap") /\ c[2] # 1
        BY <1>h, <2>2 DEF AfterMarker
      <3> QED
        BY <1>0, <2>2, <3>1, StepTypes
    <2> QED
      BY <1>h, <1>e, <1>f, <2>1, <2>2
  <1>1. CASE Stage(c)
    BY <1>0, <1>1, <1>b, EndTypes DEF Stage, TypeOK
  <1>2. CASE StageFails(c)
    BY <1>0, <1>2, <1>b, <1>c, EndTypes DEF StageFails, TypeOK
  <1>3. CASE InstallDone(c)
    BY <1>0, <1>3, EndTypes DEF InstallDone, TypeOK
  <1>4. CASE Install(c)
    <2>1. CASE Script(c[1]) = "once"
      <3>1. Step("touch") /\ c[2] # 1
        BY <1>4, <2>1 DEF Install
      <3>2. pod' \in Pod /\ AtCommand'
        BY <1>0, <2>1, <3>1, StepTypes
      <3> QED
        BY <1>0, <1>4, <2>1, <3>2, CountType DEF Install, TypeOK
    <2>2. CASE Script(c[1]) # "once"
      <3>1. pod' = [pod EXCEPT !.todo = pod.todo \ {c}, !.step = "begin", !.ok = pod.ok \cup {c}]
        BY <1>4, <2>2 DEF Install, TypeOK, Pod
      <3>2. pod' \in Pod /\ AtCommand'
        BY <1>0, <1>g, <3>1, EndTypes
      <3> QED
        BY <1>4, <2>2, <3>2 DEF Install, TypeOK
    <2> QED
      BY <2>1, <2>2
  <1>5. CASE InstallFails(c)
    BY <1>0, <1>5, <1>c, EndTypes DEF InstallFails, TypeOK
  <1>6. CASE Touch(c)
    <2>1. AfterMarker(c) => pod' \in Pod /\ AtCommand'
      BY <1>0, <1>h, <1>6 DEF Touch
    <2> QED
      BY <1>0, <1>6, <2>1 DEF Touch, TypeOK
  <1>7. CASE TouchFails(c)
    <2>1. AfterMarker(c) => pod' \in Pod /\ AtCommand'
      BY <1>0, <1>h, <1>7 DEF TouchFails
    <2> QED
      BY <1>0, <1>7, <1>c, <2>1, EndTypes, CountType DEF TouchFails, TypeOK
  <1>8. CASE NoFirstRun(c)
    <2>1. Step("bootstrap") /\ c[2] = 3 /\ c[2] # 1
      BY <1>8 DEF NoFirstRun
    <2>2. pod' \in Pod /\ AtCommand'
      BY <1>0, <2>1, StepTypes
    <2> QED
      BY <1>8, <2>2 DEF NoFirstRun, TypeOK
  <1>9. CASE FirstRun(c)
    <2>1. Step("touch") /\ c[2] # 1 /\ c[2] # 2
      BY <1>9 DEF FirstRun
    <2>2. pod' \in Pod /\ AtCommand'
      BY <1>0, <2>1, StepTypes
    <2> QED
      BY <1>0, <1>9, <2>2, CountType DEF FirstRun, TypeOK
  <1>10. CASE FirstRunFails(c)
    <2>1. CASE Again
      BY <1>10, <1>c, <2>1, EndTypes DEF FirstRunFails, TypeOK
    <2>2. CASE Step("bootstrap")
      <3>1. c[2] = 3 /\ c[2] # 1
        BY <1>10 DEF FirstRunFails
      <3>2. pod' \in Pod /\ AtCommand'
        BY <1>0, <2>2, <3>1, StepTypes
      <3> QED
        BY <1>10, <1>c, <3>2 DEF FirstRunFails, TypeOK
    <2> QED
      BY <1>10, <2>1, <2>2 DEF FirstRunFails
  <1>11. CASE Bootstrap(c)
    BY <1>0, <1>11, <1>g, EndTypes DEF Bootstrap, TypeOK
  <1>12. CASE BootstrapFails(c)
    BY <1>0, <1>12, <1>c, EndTypes DEF BootstrapFails, TypeOK
  <1> QED
    BY <1>1, <1>2, <1>3, <1>4, <1>5, <1>6, <1>7, <1>8, <1>9, <1>10, <1>11, <1>12
       DEF ContainerStep, ContainerFault

\* The container that was about to mark its script when a pod is replaced.
LEMMA ChosenCurrent ==
  ASSUME TypeInv, NEW c \in Containers, Current(c)
  PROVE  (CHOOSE d \in Containers : Current(d)) = c
  <1> DEFINE e == CHOOSE d \in Containers : Current(d)
  <1>1. e \in Containers /\ Current(e)
    OBVIOUS
  <1> HIDE DEF e
  <1>2. e = c
    BY <1>1, CurrentUnique
  <1> QED
    BY <1>2 DEF e

\* Every step of the environment keeps the types.
LEMMA EnvironmentTypeInv ==
  ASSUME TypeInv,
         Rollout \/ Kill \/ \E p \in Plugins, s \in PluginSpecs : EditPlugin(p, s)
  PROVE  TypeInv'
  <1> USE PodStartAssumption DEF TypeInv
  <1>1. ASSUME Replace PROVE /\ pod' \in Pod /\ AtCommand'
                             /\ lost' \in [Onces -> Nat]
    <2>1. pod' \in Pod /\ AtCommand'
      BY <1>1, NewPodType DEF Replace, TypeOK, AtCommand
    <2>2. CASE pod.step = "touch"
      <3>1. PICK c \in Containers : Current(c)
        BY <2>2 DEF AtCommand
      <3>2. lost' = Count(lost, Once(c))
        BY <1>1, <2>2, <3>1, ChosenCurrent DEF Replace
      <3> QED
        BY <2>1, <3>2, OnceType, CountType DEF TypeOK
    <2>3. CASE pod.step # "touch"
      BY <1>1, <2>1, <2>3 DEF Replace, TypeOK
    <2> QED
      BY <2>2, <2>3
  <1>2. CASE Rollout
    BY <1>1, <1>2 DEF Rollout, Replace, TypeOK
  <1>3. CASE Kill
    BY <1>1, <1>3 DEF Kill, Replace, Fault, TypeOK
  <1>4. ASSUME NEW p \in Plugins, NEW s \in PluginSpecs, EditPlugin(p, s) PROVE TypeInv'
    BY <1>4 DEF EditPlugin, TypeOK, AtCommand, Current, Script
  <1> QED
    BY <1>2, <1>3, <1>4

\* Every variable keeps its type, for all plugins, versions, hooks and bounds.
THEOREM TypeCorrect == Spec => []TypeOK
  <1>1. TypeInv /\ [Next]_vars => TypeInv'
    <2> SUFFICES ASSUME TypeInv, [Next]_vars PROVE TypeInv'
      OBVIOUS
    <2>1. CASE Next
      BY <2>1, ContainerTypeInv, EnvironmentTypeInv DEF Next
    <2>2. CASE UNCHANGED vars
      BY <2>2 DEF TypeInv, TypeOK, AtCommand, Current, Script, vars
    <2> QED
      BY <2>1, <2>2
  <1> QED
    BY <1>1, InitTypeInv, PTL DEF Spec, TypeInv

----------------------------------------------------------------------------
(* Run-once scripts *)

\* The script that is being marked is the current container's.
LEMMA MarkingIsCurrent ==
  ASSUME NEW c \in Containers, Current(c), NEW o
  PROVE  Marking(o) <=> pod.step = "touch" /\ Once(c) = o
  BY CurrentUnique DEF Marking

\* Steps before and after which no script waits for its marker.
LEMMA NothingToMark ==
  ASSUME RunsInv, pod.step # "touch", pod'.step # "touch", UNCHANGED <<markers, runs, lost>>
  PROVE  RunsInv'
  BY DEF RunsInv, RunsAccounted, MarkingOnce, Marking

\* A run-once script succeeds: its marker is next.
LEMMA ScriptRuns ==
  ASSUME TypeInv, RunsInv, NEW c \in Containers, Current(c), pod.step = "begin",
         Once(c) \notin markers, runs' = Count(runs, Once(c)), Step("touch"),
         UNCHANGED <<markers, lost>>
  PROVE  RunsInv'
  <1>1. pod'.todo = pod.todo /\ pod'.specs = pod.specs /\ pod'.step = "touch"
    BY DEF Step, TypeInv, TypeOK, Pod
  <1>2. Current(c)' /\ (Once(c))' = Once(c)
    BY <1>1 DEF Current, Once, Folder
  <1>3. \A o : Marking(o)' <=> Once(c) = o
    BY <1>1, <1>2, CurrentUnique DEF Marking, Current
  <1>4. \A o : ~Marking(o)
    BY DEF Marking
  <1>5. Once(c) \in Onces /\ runs \in [Onces -> Nat] /\ lost \in [Onces -> Nat]
    BY OnceType DEF TypeInv, TypeOK
  <1>6. MarkingOnce'
    BY <1>3 DEF MarkingOnce
  <1>7. RunsAccounted'
    <2> SUFFICES ASSUME NEW o \in Onces
                 PROVE  runs'[o] = lost[o] + (IF o \in markers \/ Marking(o)' THEN 1 ELSE 0)
      BY DEF RunsAccounted
    <2>1. runs[o] = lost[o] + (IF o \in markers THEN 1 ELSE 0)
      BY <1>4 DEF RunsInv, RunsAccounted
    <2>2. CASE o = Once(c)
      BY <1>3, <1>5, <2>1, <2>2 DEF Count
    <2>3. CASE o # Once(c)
      BY <1>3, <1>5, <2>1, <2>3 DEF Count
    <2> QED
      BY <2>2, <2>3
  <1> QED
    BY <1>6, <1>7 DEF RunsInv

\* The marker of a script is written, or lost.
LEMMA ScriptMarked ==
  ASSUME TypeInv, RunsInv, NEW c \in Containers, Current(c), pod.step = "touch",
         pod'.step # "touch", runs' = runs,
         \/ markers' = markers \cup {Once(c)} /\ lost' = lost
         \/ markers' = markers /\ lost' = Count(lost, Once(c))
  PROVE  RunsInv'
  <1>1. \A o : Marking(o) <=> Once(c) = o
    BY MarkingIsCurrent
  <1>2. \A o : ~Marking(o)'
    BY DEF Marking
  <1>3. Once(c) \in Onces /\ runs \in [Onces -> Nat] /\ lost \in [Onces -> Nat]
    BY OnceType DEF TypeInv, TypeOK
  <1>4. Once(c) \notin markers
    BY <1>1, <1>3 DEF RunsInv, MarkingOnce
  <1>5. RunsAccounted'
    <2> SUFFICES ASSUME NEW o \in Onces
                 PROVE  runs'[o] = lost'[o] + (IF o \in markers' THEN 1 ELSE 0)
      BY <1>2 DEF RunsAccounted
    <2>1. runs[o] = lost[o] + (IF o \in markers \/ o = Once(c) THEN 1 ELSE 0)
      BY <1>1 DEF RunsInv, RunsAccounted
    <2>2. CASE o = Once(c)
      BY <1>3, <1>4, <2>1, <2>2 DEF Count
    <2>3. CASE o # Once(c)
      BY <1>3, <2>1, <2>3 DEF Count
    <2> QED
      BY <2>2, <2>3
  <1> QED
    BY <1>2, <1>5 DEF RunsInv, MarkingOnce

\* Every command accounts for its runs.
LEMMA ContainerRunsInv ==
  ASSUME TypeInv, RunsInv, NEW c \in Containers, ContainerStep(c) \/ ContainerFault(c)
  PROVE  RunsInv'
  <1>a. pod \in Pod
    BY DEF TypeInv, TypeOK
  <1>b. /\ Finish(c) \/ Again => pod'.step = "begin"
        /\ Step("bootstrap") => pod'.step = "bootstrap"
        /\ AfterMarker(c) => pod'.step # "touch"
    BY <1>a DEF Finish, Again, Step, AfterMarker, Pod
  <1>c. Current(c) /\ (pod.step = "touch" => c[2] # 1)
    BY CurrentUnique DEF ContainerStep, ContainerFault, Stage, InstallDone, Install, Touch,
       NoFirstRun, FirstRun, Bootstrap, StageFails, InstallFails, TouchFails, FirstRunFails,
       BootstrapFails, TypeInv, AtCommand
  <1>1. CASE Stage(c)
    BY <1>1, <1>b, <1>c, NothingToMark DEF Stage
  <1>2. CASE StageFails(c)
    BY <1>2, <1>b, <1>c, NothingToMark DEF StageFails
  <1>3. CASE InstallDone(c)
    BY <1>3, <1>b, NothingToMark DEF InstallDone
  <1>4. CASE Install(c)
    <2>1. CASE Script(c[1]) = "once"
      BY <1>4, <2>1, ScriptRuns DEF Install
    <2>2. CASE Script(c[1]) # "once"
      <3>1. pod'.step = "begin"
        BY <1>4, <1>a, <2>2 DEF Install, Pod
      <3> QED
        BY <1>4, <2>2, <3>1, NothingToMark DEF Install
    <2> QED
      BY <2>1, <2>2
  <1>5. CASE InstallFails(c)
    BY <1>5, <1>b, NothingToMark DEF InstallFails
  <1>6. CASE Touch(c)
    BY <1>6, <1>b, ScriptMarked DEF Touch
  <1>7. CASE TouchFails(c)
    BY <1>7, <1>b, ScriptMarked DEF TouchFails
  <1>8. CASE NoFirstRun(c)
    BY <1>8, <1>b, NothingToMark DEF NoFirstRun
  <1>9. CASE FirstRun(c)
    BY <1>9, ScriptRuns DEF FirstRun, FirstRunDue
  <1>10. CASE FirstRunFails(c)
    BY <1>10, <1>b, NothingToMark DEF FirstRunFails
  <1>11. CASE Bootstrap(c)
    <2>1. pod'.step = "begin"
      BY <1>11, <1>a DEF Bootstrap, Pod
    <2> QED
      BY <1>11, <2>1, NothingToMark DEF Bootstrap
  <1>12. CASE BootstrapFails(c)
    BY <1>12, <1>b, NothingToMark DEF BootstrapFails
  <1> QED
    BY <1>1, <1>2, <1>3, <1>4, <1>5, <1>6, <1>7, <1>8, <1>9, <1>10, <1>11, <1>12
       DEF ContainerStep, ContainerFault

\* So does the environment: a pod that is replaced loses what it did not mark.
LEMMA EnvironmentRunsInv ==
  ASSUME TypeInv, RunsInv,
         Rollout \/ Kill \/ \E p \in Plugins, s \in PluginSpecs : EditPlugin(p, s)
  PROVE  RunsInv'
  <1>1. ASSUME Replace PROVE RunsInv'
    <2>1. pod'.step = "begin" /\ UNCHANGED <<markers, runs>>
      BY <1>1, NewPodType DEF Replace, TypeInv, TypeOK
    <2>2. CASE pod.step = "touch"
      <3>1. PICK c \in Containers : Current(c)
        BY <2>2 DEF TypeInv, AtCommand
      <3>2. lost' = Count(lost, Once(c))
        BY <1>1, <2>2, <3>1, ChosenCurrent DEF Replace
      <3> QED
        BY <2>1, <2>2, <3>1, <3>2, ScriptMarked
    <2>3. CASE pod.step # "touch"
      BY <1>1, <2>1, <2>3, NothingToMark DEF Replace
    <2> QED
      BY <2>2, <2>3
  <1>2. ASSUME NEW p \in Plugins, NEW s \in PluginSpecs, EditPlugin(p, s) PROVE RunsInv'
    BY <1>2 DEF EditPlugin, RunsInv, RunsAccounted, MarkingOnce, Marking, Current, Once, Folder
  <1> QED
    BY <1>1, <1>2 DEF Rollout, Kill

\* Both invariants hold together.
LEMMA RunsInvariant == Spec => [](TypeInv /\ RunsInv)
  <1>1. Init => TypeInv /\ RunsInv
    BY InitTypeInv, NewPodType, PodStartAssumption
       DEF Init, RunsInv, RunsAccounted, MarkingOnce, Marking, NewPod
  <1>2. TypeInv /\ RunsInv /\ [Next]_vars => TypeInv' /\ RunsInv'
    <2> SUFFICES ASSUME TypeInv, RunsInv, [Next]_vars PROVE TypeInv' /\ RunsInv'
      OBVIOUS
    <2>1. CASE Next
      BY <2>1, ContainerTypeInv, EnvironmentTypeInv, ContainerRunsInv, EnvironmentRunsInv
         DEF Next
    <2>2. CASE UNCHANGED vars
      BY <2>2 DEF TypeInv, TypeOK, AtCommand, Script, RunsInv, RunsAccounted, MarkingOnce, Marking,
         Current, Once, Folder, vars
    <2> QED
      BY <2>1, <2>2
  <1> QED
    BY <1>1, <1>2, PTL DEF Spec

\* buildInstallWrapper and buildHookWrapper: a run-once script runs again only
\* after a run whose marker was lost, whatever is edited, fails or is killed.
THEOREM RunsAreOnce == Spec => []RunsOnce
  <1>1. TypeInv /\ RunsInv => RunsOnce
    BY DEF TypeInv, TypeOK, RunsInv, RunsAccounted, RunsOnce
  <1> QED
    BY <1>1, RunsInvariant, PTL

----------------------------------------------------------------------------
(* What stands behind a running pod *)

\* Within one pod the staged files only grow: a container may end once its
\* image is staged.
LEMMA StagedKept ==
  ASSUME TypeInv, StagedInv, pod'.specs = pod.specs,
         \A f \in Folders : staged[f] \subseteq staged'[f],
         \A p \in Plugins :
           <<p, 1>> \in pod.todo \ pod'.todo => Image(p) \subseteq staged'[Folder(p)]
  PROVE  StagedInv'
  <1> SUFFICES ASSUME NEW p \in Plugins, Done(p, 1)'
               PROVE  Image(p)' \subseteq staged'[Folder(p)']
    BY DEF StagedInv
  <1>1. Image(p)' = Image(p) /\ Folder(p)' = Folder(p) /\ Folder(p) \in Folders
    BY FolderTypes DEF Image, Folder, TypeInv
  <1>2. Done(p, 1) \/ <<p, 1>> \in pod.todo \ pod'.todo
    BY DEF Done
  <1>3. CASE Done(p, 1)
    BY <1>1, <1>3 DEF StagedInv
  <1> QED
    BY <1>1, <1>2, <1>3

\* A script with a marker, or about to get one, has run.
LEMMA MarkedHasRun ==
  ASSUME TypeInv, RunsInv, NEW o \in Onces, o \in markers \/ Marking(o)
  PROVE  runs[o] > 0
  BY DEF TypeInv, TypeOK, RunsInv, RunsAccounted

\* Within one pod, a container of a strict plugin may end once its scripts have
\* run, and go on to bootstrap.sh once firstrun.sh has.
LEMMA ClosedKept ==
  ASSUME TypeInv, ClosedInv, pod'.specs = pod.specs, pod.ok \subseteq pod'.ok,
         \A o \in Onces : runs[o] > 0 => runs'[o] > 0,
         \A p \in Plugins : pod.specs[p].policy = "Fail" =>
           /\ <<p, 2>> \in pod.todo \ pod'.todo =>
                /\ Script(p) = "always" => <<p, 2>> \in pod'.ok
                /\ Script(p) = "once" => HasRun("install", p)'
           /\ <<p, 3>> \in pod.todo \ pod'.todo => <<p, 3>> \in pod'.ok /\ PastFirstRun(p)
           /\ PastFirstRun(p)' /\ "firstrun" \in Image(p) =>
                PastFirstRun(p) \/ HasRun("firstrun", p)'
  PROVE  ClosedInv'
  <1> SUFFICES ASSUME NEW p \in Plugins, pod.specs[p].policy = "Fail"
               PROVE  /\ Done(p, 2)' /\ Script(p)' = "always" => <<p, 2>> \in pod'.ok
                      /\ Done(p, 2)' /\ Script(p)' = "once" => HasRun("install", p)'
                      /\ (Done(p, 3) \/ PastFirstRun(p))' /\ "firstrun" \in Image(p)' =>
                           HasRun("firstrun", p)'
                      /\ Done(p, 3)' => <<p, 3>> \in pod'.ok
    BY DEF ClosedInv
  <1>1. Image(p)' = Image(p) /\ Script(p)' = Script(p) /\ Folder(p)' = Folder(p)
    BY DEF Image, Script, Folder
  <1>2. \A k \in {"install", "firstrun"} : HasRun(k, p) => HasRun(k, p)'
    BY <1>1, FolderTypes DEF HasRun, TypeInv
  <1>3. \A i \in 1..3 : Done(p, i)' => Done(p, i) \/ <<p, i>> \in pod.todo \ pod'.todo
    BY DEF Done
  <1>4. PastFirstRun(p) /\ "firstrun" \in Image(p) => HasRun("firstrun", p)
    BY DEF ClosedInv
  <1>5. Done(p, 2)' => /\ Script(p) = "always" => <<p, 2>> \in pod'.ok
                       /\ Script(p) = "once" => HasRun("install", p)'
    <2>1. CASE Done(p, 2)
      BY <1>2, <2>1 DEF ClosedInv
    <2> QED
      BY <1>3, <2>1
  <1>6. Done(p, 3)' => <<p, 3>> \in pod'.ok
    <2>1. CASE Done(p, 3)
      BY <2>1 DEF ClosedInv
    <2> QED
      BY <1>3, <2>1
  <1>7. (Done(p, 3)' \/ PastFirstRun(p)') /\ "firstrun" \in Image(p) => HasRun("firstrun", p)'
    <2>1. CASE Done(p, 3)
      BY <1>2, <2>1 DEF ClosedInv
    <2> QED
      BY <1>2, <1>3, <1>4, <2>1
  <1> QED
    BY <1>1, <1>5, <1>6, <1>7

\* What a command does to the pod.
LEMMA OutcomeFields ==
  ASSUME TypeInv, NEW c \in Containers
  PROVE  /\ Finish(c) => /\ pod'.specs = pod.specs /\ pod'.ok = pod.ok
                         /\ pod'.todo = pod.todo \ {c} /\ pod'.step = "begin"
         /\ Again => /\ pod'.specs = pod.specs /\ pod'.ok = pod.ok
                     /\ pod'.todo = pod.todo /\ pod'.step = "begin"
         /\ \A t \in {"touch", "bootstrap"} :
              Step(t) => /\ pod'.specs = pod.specs /\ pod'.ok = pod.ok
                         /\ pod'.todo = pod.todo /\ pod'.step = t
  BY DEF Finish, Again, Step, TypeInv, TypeOK, Pod

\* No container ends, and none goes on to bootstrap.sh.
LEMMA ClosedNoProgress ==
  ASSUME TypeInv, ClosedInv, pod'.specs = pod.specs, pod'.ok = pod.ok, pod'.todo = pod.todo,
         pod'.step # "bootstrap", \A o \in Onces : runs[o] > 0 => runs'[o] > 0
  PROVE  ClosedInv'
  BY ClosedKept DEF PastFirstRun

\* Container c ends: of a plugin that is not strict, or with its scripts run.
LEMMA ClosedFinish ==
  ASSUME TypeInv, ClosedInv, NEW p \in Plugins, NEW i \in 1..3,
         pod'.specs = pod.specs, pod.ok \subseteq pod'.ok, pod'.todo = pod.todo \ {<<p, i>>},
         pod'.step = "begin", runs' = runs,
         pod.specs[p].policy = "Fail" =>
           /\ i = 2 => /\ Script(p) = "always" => <<p, 2>> \in pod'.ok
                       /\ Script(p) = "once" => HasRun("install", p)
           /\ i = 3 => <<p, 3>> \in pod'.ok /\ PastFirstRun(p)
  PROVE  ClosedInv'
  <1>1. HasRun("install", p)' = HasRun("install", p)
    BY DEF HasRun, Folder
  <1>2. \A q \in Plugins, j \in 1..3 : <<q, j>> \in pod.todo \ pod'.todo => q = p /\ j = i
    OBVIOUS
  <1>3. \A q \in Plugins : ~PastFirstRun(q)'
    BY DEF PastFirstRun
  <1> QED
    BY <1>1, <1>2, <1>3, ClosedKept

\* Container <<p, 3>> goes on to bootstrap.sh: of a plugin that is not strict, or
\* with firstrun.sh run.
LEMMA ClosedGoesOn ==
  ASSUME TypeInv, ClosedInv, NEW p \in Plugins, Current(<<p, 3>>),
         Step("bootstrap"), runs' = runs,
         pod.specs[p].policy = "Fail" /\ "firstrun" \in Image(p) => HasRun("firstrun", p)
  PROVE  ClosedInv'
  <1>0. <<p, 3>> \in Containers
    BY DEF Containers
  <1>1. pod'.specs = pod.specs /\ pod'.ok = pod.ok /\ pod'.todo = pod.todo
    BY <1>0, OutcomeFields
  <1>2. HasRun("firstrun", p)' = HasRun("firstrun", p)
    BY <1>1 DEF HasRun, Folder
  <1>3. ASSUME NEW q \in Plugins, PastFirstRun(q)' PROVE q = p
    <2>1. <<q, 3>> \in Containers /\ Current(<<q, 3>>)
      BY <1>1, <1>3 DEF PastFirstRun, Current, Containers
    <2> QED
      BY <1>0, <2>1, CurrentUnique
  <1> QED
    BY <1>1, <1>2, <1>3, ClosedKept

\* Every command keeps both.
LEMMA ContainerBehind ==
  ASSUME TypeInv, RunsInv, StagedInv, ClosedInv,
         NEW c \in Containers, ContainerStep(c) \/ ContainerFault(c)
  PROVE  StagedInv' /\ ClosedInv'
  <1> USE DEF Strict
  <1>a. PICK p \in Plugins, i \in 1..3 : c = <<p, i>>
    BY DEF Containers
  <1>b. c[1] = p /\ c[2] = i
    BY <1>a
  <1>c. /\ Folder(p) \in Folders /\ Image(p) \subseteq Files
        /\ staged \in [Folders -> SUBSET Files]
        /\ \A k \in {"install", "firstrun"} : <<k, Folder(p)>> \in Onces
    BY FolderTypes DEF TypeInv, TypeOK
  <1>d. pod \in Pod /\ runs \in [Onces -> Nat] /\ pod.todo \subseteq InitContainers(pod.specs)
    BY DEF TypeInv, TypeOK, AtCommand
  <1>e. ASSUME pod'.specs = pod.specs, pod'.todo = pod.todo \/ (pod'.todo = pod.todo \ {c} /\ i # 1),
               staged' = staged
        PROVE  StagedInv'
    BY <1>a, <1>e, StagedKept
  <1>f. /\ i = 2 => Once(c) = <<"install", Folder(p)>>
        /\ i = 3 => Once(c) = <<"firstrun", Folder(p)>>
    BY <1>b DEF Once
  <1>g. /\ i = 2 /\ Once(c) \in markers => HasRun("install", p)
        /\ i = 3 /\ Once(c) \in markers => HasRun("firstrun", p)
    BY <1>c, <1>f, MarkedHasRun DEF HasRun
  <1>h. ASSUME Current(c), pod.step = "touch"
        PROVE  (i = 2 => HasRun("install", p)) /\ (i = 3 => HasRun("firstrun", p))
    <2>1. Marking(Once(c))
      BY <1>h DEF Marking
    <2> QED
      BY <1>c, <1>f, <2>1, MarkedHasRun DEF HasRun
  <1>i. Current(c) => /\ pod.step = "bootstrap" => i = 3
                      /\ pod.step = "touch" => i # 1
                      /\ pod.step = "touch" /\ i = 2 => Script(p) = "once"
    BY <1>b, CurrentUnique DEF TypeInv, AtCommand
  <1>j. \A o \in Onces : runs[o] > 0 => Count(runs, Once(c))[o] > 0
    BY <1>d DEF Count
  <1>o. ASSUME pod'.specs = pod.specs, pod.ok \subseteq pod'.ok, pod'.todo = pod.todo \ {c},
               pod'.step = "begin", runs' = runs,
               i = 2 => /\ Script(p) = "always" => c \in pod'.ok
                        /\ Script(p) = "once" => HasRun("install", p),
               i = 3 => c \in pod'.ok /\ PastFirstRun(p)
        PROVE  ClosedInv'
    <2>1. pod'.todo = pod.todo \ {<<p, i>>}
      BY <1>a, <1>o
    <2>2. /\ i = 2 => /\ Script(p) = "always" => <<p, 2>> \in pod'.ok
                      /\ Script(p) = "once" => HasRun("install", p)
          /\ i = 3 => <<p, 3>> \in pod'.ok /\ PastFirstRun(p)
      BY <1>a, <1>o
    <2> QED
      BY <1>o, <2>1, <2>2, ClosedFinish
  <1>1. CASE Stage(c)
    <2>1. pod'.specs = pod.specs /\ pod'.ok = pod.ok /\ pod'.todo = pod.todo \ {c}
          /\ pod'.step = "begin" /\ i = 1
      BY <1>1, <1>b, OutcomeFields DEF Stage
    <2>2. staged' = [staged EXCEPT ![Folder(p)] = staged[Folder(p)] \cup Image(p)]
      BY <1>1, <1>b DEF Stage
    <2>3. StagedInv'
      BY <1>a, <1>c, <2>1, <2>2, StagedKept
    <2>4. runs' = runs
      BY <1>1 DEF Stage
    <2>5. ClosedInv'
      BY <1>o, <2>1, <2>4
    <2> QED
      BY <2>3, <2>5
  <1>2. CASE StageFails(c)
    <2>1. /\ pod'.specs = pod.specs /\ pod'.ok = pod.ok /\ pod'.todo = pod.todo
          /\ pod'.step = "begin" /\ runs' = runs
      BY <1>2, OutcomeFields DEF StageFails
    <2>2. \A f \in Folders : staged[f] \subseteq staged'[f]
      BY <1>2, <1>b, <1>c DEF StageFails
    <2> QED
      BY <2>1, <2>2, StagedKept, ClosedNoProgress
  <1>3. CASE InstallDone(c)
    <2>1. /\ pod'.specs = pod.specs /\ pod'.ok = pod.ok /\ pod'.todo = pod.todo \ {c}
          /\ pod'.step = "begin" /\ i = 2 /\ staged' = staged /\ runs' = runs
      BY <1>3, <1>b, OutcomeFields DEF InstallDone
    <2>2. HasRun("install", p) /\ Script(p) = "once"
      BY <1>3, <1>b, <1>g DEF InstallDone
    <2> QED
      BY <1>e, <1>o, <2>1, <2>2
  <1>4. CASE Install(c)
    <2>1. CASE Script(c[1]) = "once"
      <3>1. /\ pod'.specs = pod.specs /\ pod'.ok = pod.ok /\ pod'.todo = pod.todo
            /\ pod'.step = "touch" /\ staged' = staged /\ runs' = Count(runs, Once(c))
        BY <1>4, <2>1, OutcomeFields DEF Install
      <3> QED
        BY <1>e, <1>j, <3>1, ClosedNoProgress
    <2>2. CASE Script(c[1]) # "once"
      <3>1. /\ pod'.specs = pod.specs /\ pod'.ok = pod.ok \cup {c} /\ pod'.todo = pod.todo \ {c}
            /\ pod'.step = "begin" /\ staged' = staged /\ runs' = runs /\ i = 2
        BY <1>4, <1>b, <1>d, <2>2 DEF Install, Pod
      <3>2. Script(p) # "once"
        BY <1>b, <2>2
      <3> QED
        BY <1>e, <1>o, <3>1, <3>2
    <2> QED
      BY <2>1, <2>2
  <1>k. ASSUME staged' = staged, runs' = runs, pod.specs[p].policy # "Fail", Finish(c), i # 1
        PROVE  StagedInv' /\ ClosedInv'
    <2>1. /\ pod'.specs = pod.specs /\ pod'.ok = pod.ok /\ pod'.todo = pod.todo \ {c}
          /\ pod'.step = "begin"
      BY <1>k, OutcomeFields
    <2> QED
      BY <1>a, <1>e, <1>k, <2>1, ClosedFinish
  <1>l. ASSUME staged' = staged, runs' = runs, Again
        PROVE  StagedInv' /\ ClosedInv'
    <2>1. /\ pod'.specs = pod.specs /\ pod'.ok = pod.ok /\ pod'.todo = pod.todo
          /\ pod'.step = "begin"
      BY <1>l, OutcomeFields
    <2> QED
      BY <1>e, <1>l, <2>1, ClosedNoProgress
  <1>m. ASSUME staged' = staged, runs' = runs, Step("bootstrap"), Current(c), i = 3,
               pod.specs[p].policy = "Fail" /\ "firstrun" \in Image(p) => HasRun("firstrun", p)
        PROVE  StagedInv' /\ ClosedInv'
    <2>1. pod'.specs = pod.specs /\ pod'.todo = pod.todo
      BY <1>m, OutcomeFields
    <2>2. Current(<<p, 3>>)
      BY <1>a, <1>m
    <2> QED
      BY <1>e, <1>m, <2>1, <2>2, ClosedGoesOn
  <1>5. CASE InstallFails(c)
    <2>1. staged' = staged /\ runs' = runs /\ i # 1
          /\ (Again \/ (Finish(c) /\ pod.specs[p].policy # "Fail"))
      BY <1>5, <1>b DEF InstallFails
    <2> QED
      BY <1>k, <1>l, <2>1
  <1>n. ASSUME staged' = staged, runs' = runs, AfterMarker(c), Current(c), pod.step = "touch"
        PROVE  StagedInv' /\ ClosedInv'
    <2>1. CASE i = 2
      <3>1. /\ pod'.specs = pod.specs /\ pod'.ok = pod.ok /\ pod'.todo = pod.todo \ {c}
            /\ pod'.step = "begin" /\ Script(p) # "always"
        <4>1. Finish(c)
          BY <1>b, <1>n, <2>1 DEF AfterMarker
        <4> QED
          BY <1>i, <1>n, <2>1, <4>1, OutcomeFields
      <3> QED
        BY <1>e, <1>h, <1>n, <1>o, <2>1, <3>1
    <2>2. CASE i = 3
      <3>1. Step("bootstrap")
        BY <1>b, <1>n, <2>2 DEF AfterMarker
      <3> QED
        BY <1>h, <1>m, <1>n, <2>2, <3>1
    <2> QED
      BY <1>i, <1>n, <2>1, <2>2
  <1>6. CASE Touch(c)
    BY <1>6, <1>n DEF Touch
  <1>7. CASE TouchFails(c)
    BY <1>7, <1>l, <1>n DEF TouchFails
  <1>8. CASE NoFirstRun(c)
    <2>1. i = 3 /\ Current(c) /\ Step("bootstrap") /\ staged' = staged /\ runs' = runs
          /\ ~FirstRunDue(c)
      BY <1>8, <1>b DEF NoFirstRun
    <2>2. Done(p, 1)
      <3>1. <<p, 3>> \in InitContainers(pod.specs)
        BY <1>a, <1>d, <2>1 DEF Current
      <3>2. <<p, 1>> \in InitContainers(pod.specs)
        BY <3>1 DEF InitContainers, Containers
      <3>3. <<p, 1>> \notin pod.todo
        BY <1>a, <2>1, PodStartAssumption DEF Current
      <3> QED
        BY <3>2, <3>3 DEF Done
    <2>3. "firstrun" \in Image(p) => HasRun("firstrun", p)
      BY <1>b, <1>g, <2>1, <2>2 DEF StagedInv, FirstRunDue
    <2> QED
      BY <1>m, <2>1, <2>3
  <1>9. CASE FirstRun(c)
    <2>1. /\ pod'.specs = pod.specs /\ pod'.ok = pod.ok /\ pod'.todo = pod.todo
          /\ pod'.step = "touch" /\ staged' = staged /\ runs' = Count(runs, Once(c))
      BY <1>9, OutcomeFields DEF FirstRun
    <2> QED
      BY <1>e, <1>j, <2>1, ClosedNoProgress
  <1>10. CASE FirstRunFails(c)
    <2>1. staged' = staged /\ runs' = runs /\ i = 3 /\ Current(c)
          /\ (Again \/ (Step("bootstrap") /\ pod.specs[p].policy # "Fail"))
      BY <1>10, <1>b DEF FirstRunFails
    <2> QED
      BY <1>l, <1>m, <2>1
  <1>11. CASE Bootstrap(c)
    <2>1. Current(c) /\ i = 3 /\ PastFirstRun(p) /\ staged' = staged /\ runs' = runs
      BY <1>11, <1>a, <1>i DEF Bootstrap, PastFirstRun
    <2>2. /\ pod'.specs = pod.specs /\ pod'.ok = pod.ok \cup {c} /\ pod'.todo = pod.todo \ {c}
          /\ pod'.step = "begin"
      BY <1>11, <1>d DEF Bootstrap, Pod
    <2> QED
      BY <1>e, <1>o, <2>1, <2>2
  <1>12. CASE BootstrapFails(c)
    <2>1. staged' = staged /\ runs' = runs /\ Current(c) /\ i # 1
          /\ (Again \/ (Finish(c) /\ pod.specs[p].policy # "Fail"))
      BY <1>12, <1>b, <1>i DEF BootstrapFails
    <2> QED
      BY <1>k, <1>l, <2>1
  <1> QED
    BY <1>1, <1>2, <1>3, <1>4, <1>5, <1>6, <1>7, <1>8, <1>9, <1>10, <1>11, <1>12
       DEF ContainerStep, ContainerFault

\* A new pod has done nothing yet, and an edit does not touch the pod.
LEMMA EnvironmentBehind ==
  ASSUME TypeInv, StagedInv, ClosedInv,
         Rollout \/ Kill \/ \E p \in Plugins, s \in PluginSpecs : EditPlugin(p, s)
  PROVE  StagedInv' /\ ClosedInv'
  <1>1. ASSUME Replace PROVE StagedInv' /\ ClosedInv'
    <2>1. pod'.todo = InitContainers(pod'.specs) /\ pod'.step = "begin"
      BY <1>1, NewPodType DEF Replace, TypeInv, TypeOK
    <2>2. \A p, i : ~Done(p, i)'
      BY <2>1 DEF Done
    <2>3. \A p : ~PastFirstRun(p)'
      BY <2>1 DEF PastFirstRun
    <2> QED
      BY <2>2, <2>3 DEF StagedInv, ClosedInv
  <1>2. ASSUME NEW p \in Plugins, NEW s \in PluginSpecs, EditPlugin(p, s)
        PROVE  StagedInv' /\ ClosedInv'
    BY <1>2 DEF EditPlugin, StagedInv, ClosedInv, Done, Image, Folder, Script, HasRun,
       PastFirstRun, Current
  <1> QED
    BY <1>1, <1>2 DEF Rollout, Kill

\* The whole invariant.
LEMMA PodInvariant == Spec => []PodInv
  <1>1. Init => StagedInv /\ ClosedInv
    <2> SUFFICES ASSUME Init PROVE StagedInv /\ ClosedInv
      OBVIOUS
    <2>1. pod.todo = InitContainers(pod.specs) /\ pod.step = "begin"
      <3>1. specs \in [Plugins -> PluginSpec]
        BY PodStartAssumption DEF Init
      <3> QED
        BY <3>1, NewPodType DEF Init
    <2> QED
      BY <2>1 DEF StagedInv, ClosedInv, Done, PastFirstRun
  <1>2. TypeInv /\ RunsInv /\ StagedInv /\ ClosedInv /\ [Next]_vars => StagedInv' /\ ClosedInv'
    <2> SUFFICES ASSUME TypeInv, RunsInv, StagedInv, ClosedInv, [Next]_vars
                 PROVE  StagedInv' /\ ClosedInv'
      OBVIOUS
    <2>1. CASE Next
      BY <2>1, ContainerBehind, EnvironmentBehind DEF Next
    <2>2. CASE UNCHANGED vars
      BY <2>2 DEF StagedInv, ClosedInv, Done, Image, Folder, Script, HasRun, PastFirstRun,
         Current, vars
    <2> QED
      BY <2>1, <2>2
  <1> QED
    BY <1>1, <1>2, RunsInvariant, PTL DEF Spec, PodInv

\* In a running pod every container is done.
LEMMA RunningDone ==
  ASSUME Running, NEW p, NEW i,
         <<p, i>> \in InitContainers(pod.specs)
  PROVE  Done(p, i)
  BY DEF Running, Done

\* stagingContainer: Jellyfin runs only with every copied plugin whole, however
\* often a copy was cut short.
THEOREM StagedIsWhole == Spec => []StagedWhole
  <1>1. PodInv => StagedWhole
    <2> SUFFICES ASSUME PodInv, Running, NEW p \in Plugins,
                        pod.specs[p].bound, pod.specs[p].injection = "copy"
                 PROVE  Image(p) \subseteq staged[Folder(p)]
      BY DEF StagedWhole
    <2>1. <<p, 1>> \in InitContainers(pod.specs)
      BY DEF InitContainers, Containers
    <2> QED
      BY <2>1, RunningDone DEF PodInv, StagedInv
  <1> QED
    BY <1>1, PodInvariant, PTL

\* failurePolicy Fail: Jellyfin never runs before the scripts and hooks of a
\* strict plugin have succeeded.
THEOREM FailsClosed == Spec => []FailClosed
  <1>1. PodInv => FailClosed
    <2> SUFFICES ASSUME PodInv, Running, NEW p \in Plugins,
                        pod.specs[p].bound, pod.specs[p].policy = "Fail"
                 PROVE  LET hooks == IF pod.specs[p].injection = "copy"
                                     THEN Hooks[pod.specs[p].version] ELSE {}
                        IN /\ pod.specs[p].script = "always" => <<p, 2>> \in pod.ok
                           /\ pod.specs[p].script = "once" => runs[<<"install", Folder(p)>>] > 0
                           /\ "firstrun" \in hooks => runs[<<"firstrun", Folder(p)>>] > 0
                           /\ "bootstrap" \in hooks => <<p, 3>> \in pod.ok
      BY DEF FailClosed
    <2>1. pod.specs[p].script # "none" => Done(p, 2)
      <3>1. pod.specs[p].script # "none" => <<p, 2>> \in InitContainers(pod.specs)
        BY DEF InitContainers, Containers
      <3> QED
        BY <3>1, RunningDone DEF PodInv
    <2>2. pod.specs[p].injection = "copy" => Done(p, 3)
      <3>1. pod.specs[p].injection = "copy" => <<p, 3>> \in InitContainers(pod.specs)
        BY DEF InitContainers, Containers
      <3> QED
        BY <3>1, RunningDone DEF PodInv
    <2>3. Hooks[pod.specs[p].version] \subseteq Image(p)
      BY DEF Image
    <2> QED
      BY <2>1, <2>2, <2>3 DEF PodInv, ClosedInv, HasRun, Script
  <1> QED
    BY <1>1, PodInvariant, PTL
=============================================================================
