------------------------- MODULE LibrarySyncProofs -------------------------
(***************************************************************************)
(* Proofs about the library loop for every set of libraries and paths,     *)
(* every set of spec bodies and every bound, with and without cache lag.   *)
(***************************************************************************)
EXTENDS LibrarySync, TLAPS

\* The zero-valued locals of an idle reconciler are well typed.
LEMMA IdleTypes ==
  /\ NoStatus \in Status /\ NoObject \in Object
  /\ IdlePass \in Pass /\ IdleInst \in InstPass
  BY LibSyncAssumption
  DEF Object, Status, SpecBody, NoStatus, NoObject, IdlePass, IdleInst, Pass, InstPass,
      Diff, NoDiff

\* Claiming names keeps the type of the history of origins.
LEMMA ClaimType ==
  ASSUME NEW org \in [Libs -> Origin], NEW names
  PROVE  Claim(org, names) \in [Libs -> Origin]
  BY DEF Claim, Origin

\* The initial object, passes and folders have their types.
LEMMA InitTypeOK == Init => TypeOK
  <1> SUFFICES ASSUME Init PROVE TypeOK
    OBVIOUS
  <1> USE LibSyncAssumption, IdleTypes
  <1>1. obj \in Object
    BY DEF Init, Object
  <1>2. folders \in [Libs -> Folder]
    <2>1. /\ NoFolder \in Folder
          /\ \A p \in Paths : [NewFolder(p) EXCEPT !.item = TRUE] \in Folder
      BY DEF Folder, NoFolder, NewFolder
    <2> QED
      BY <2>1 DEF Init
  <1>3. origin \in [Libs -> Origin]
    <2> DEFINE made == [n \in Libs |-> IF folders[n].exists THEN "hand" ELSE "none"]
    <2>1. made \in [Libs -> Origin]
      BY DEF Origin
    <2>2. origin = Claim(made, Declared(obj.spec))
      BY DEF Init
    <2> HIDE DEF made
    <2> QED
      BY <2>1, <2>2, ClaimType
  <1> QED
    BY <1>1, <1>2, <1>3 DEF Init, TypeOK

\* DiffLibraries of well-typed arguments is a well-typed diff.
LEMMA DiffType ==
  ASSUME NEW s \in SpecBody, NEW m \in SUBSET Libs
  PROVE  DiffLibraries(s, m) \in Diff
  BY DEF DiffLibraries, Diff, Declared, Existing

\* The error exit and the end of reconcileLibraries leave well-typed objects.
LEMMA OutcomeTypes ==
  ASSUME NEW o \in Object
  PROVE  LibrariesFailed(o) \in Object /\ LibrariesDone(o) \in Object
  <1>1. [o.status EXCEPT !.libsReady = 0] \in Status
    BY LibSyncAssumption DEF Object, Status
  <1>2. [o.status EXCEPT !.managed = Declared(o.spec), !.libsReady = o.gen] \in Status
    BY LibSyncAssumption DEF Object, Status, Declared
  <1> QED
    BY <1>1, <1>2 DEF LibrariesFailed, LibrariesDone, Object

\* The error return of reconcileLibraries leaves a well-typed pass.
LEMMA LibraryErrorType ==
  ASSUME NEW p \in Pass
  PROVE  LibraryError(p) \in Pass
  <1>1. LibrariesFailed(p.jf) \in Object
    BY OutcomeTypes DEF Pass
  <1> QED
    BY <1>1 DEF LibraryError, Pass, Diff, NoDiff

\* Whatever a call returns, the pass and the fault count stay well typed.
LEMMA ReturnsType ==
  ASSUME TypeOK, NEW after \in Pass, Returns(after)
  PROVE  pass' \in Pass /\ faults' \in 0..MaxFaults
  BY LibSyncAssumption, LibraryErrorType DEF Returns, TypeOK

\* A call on one folder leaves well-typed folders, pass and fault count.
LEMMA OnFolderType ==
  ASSUME TypeOK, NEW n \in Libs, NEW known, NEW f \in Folder, NEW after \in Pass,
         OnFolder(n, known, f, after)
  PROVE  pass' \in Pass /\ faults' \in 0..MaxFaults /\ folders' \in [Libs -> Folder]
  BY LibSyncAssumption, LibraryErrorType, ReturnsType DEF OnFolder, TypeOK

\* A status write puts a well-typed object at the API server and in the cache.
LEMMA WriteType ==
  ASSUME TypeOK, NEW o \in Object, WriteObject(WriteStatus(o))
  PROVE  obj' \in Object /\ cache' \in Object
  BY DEF WriteObject, WriteStatus, TypeOK, Object

\* Every step keeps every variable's type.
LEMMA NextTypeOK == TypeOK /\ [Next]_vars => TypeOK'
  <1> SUFFICES ASSUME TypeOK, [Next]_vars PROVE TypeOK'
    OBVIOUS
  <1> USE LibSyncAssumption
  <1>1. CASE ApiStart
    <2> PICK pc \in {"list", "write"} : pass' = [IdlePass EXCEPT !.pc = pc, !.jf = cache]
      BY <1>1 DEF ApiStart
    <2>1. pass' \in Pass
      BY IdleTypes DEF TypeOK, Pass
    <2>2. faults' \in 0..MaxFaults
      BY <1>1 DEF ApiStart, TypeOK
    <2> QED
      BY <1>1, <2>1, <2>2 DEF ApiStart, TypeOK, history
  <1>2. CASE ApiList
    <2>1. DiffLibraries(pass.jf.spec, pass.jf.status.managed) \in Diff
      BY DiffType DEF TypeOK, Pass, Object, Status
    <2>2. pass' \in Pass
      BY <1>2, <2>1
      DEF ApiList, TypeOK, Pass, OptionsToEnforce, OptionsSkipped, OptionsDue, Declared
    <2> QED
      BY <1>2, <2>2 DEF ApiList, TypeOK, history
  <1>3. ASSUME NEW n \in Libs, NEW p \in Paths, ApiCreate(n, p) PROVE TypeOK'
    <2> DEFINE d == [pass.diff EXCEPT !.create = @ \ {<<n, p>>}]
               after == [pass EXCEPT !.diff = d, !.created = TRUE]
    <2>1. d \in Diff
      BY DEF TypeOK, Pass, Diff
    <2>2. after \in Pass
      BY <2>1 DEF TypeOK, Pass
    <2>3. Returns(after)
      BY <1>3 DEF ApiCreate
    <2>4. pass' \in Pass /\ faults' \in 0..MaxFaults
      BY <2>2, <2>3, ReturnsType
    <2>5. folders' \in [Libs -> Folder] /\ origin' \in [Libs -> Origin]
      BY <1>3 DEF ApiCreate, TypeOK, Folder, NewFolder, Origin
    <2> QED
      BY <1>3, <2>4, <2>5 DEF ApiCreate, TypeOK
  <1>4. ASSUME NEW n \in Libs, NEW p \in Paths, ApiAddPath(n, p) PROVE TypeOK'
    <2> DEFINE d == [pass.diff EXCEPT !.add = @ \ {<<n, p>>}]
               after == [pass EXCEPT !.diff = d]
               f == [folders[n] EXCEPT !.locs = @ \cup {p}]
    <2>1. d \in Diff /\ f \in Folder
      BY DEF TypeOK, Pass, Diff, Folder
    <2>2. after \in Pass
      BY <2>1 DEF TypeOK, Pass
    <2>3. OnFolder(n, folders[n].exists, f, after)
      BY <1>4 DEF ApiAddPath
    <2>4. pass' \in Pass /\ faults' \in 0..MaxFaults /\ folders' \in [Libs -> Folder]
      BY <2>1, <2>2, <2>3, OnFolderType
    <2> QED
      BY <1>4, <2>4 DEF ApiAddPath, TypeOK, history
  <1>5. ASSUME NEW n \in Libs, NEW p \in Paths, ApiRemovePath(n, p) PROVE TypeOK'
    <2> DEFINE d == [pass.diff EXCEPT !.rm = @ \ {<<n, p>>}]
               after == [pass EXCEPT !.diff = d]
               f == [folders[n] EXCEPT !.locs = @ \ {p}]
    <2>1. d \in Diff /\ f \in Folder
      BY DEF TypeOK, Pass, Diff, Folder
    <2>2. after \in Pass
      BY <2>1 DEF TypeOK, Pass
    <2>3. OnFolder(n, folders[n].exists, f, after)
      BY <1>5 DEF ApiRemovePath
    <2>4. pass' \in Pass /\ faults' \in 0..MaxFaults /\ folders' \in [Libs -> Folder]
      BY <2>1, <2>2, <2>3, OnFolderType
    <2> QED
      BY <1>5, <2>4 DEF ApiRemovePath, TypeOK, history
  <1>6. ASSUME NEW n \in Libs, ApiRemove(n) PROVE TypeOK'
    <2> DEFINE d == [pass.diff EXCEPT !.remove = @ \ {n}]
               after == [pass EXCEPT !.diff = d]
    <2>1. d \in Diff /\ NoFolder \in Folder
      BY DEF TypeOK, Pass, Diff, Folder, NoFolder
    <2>2. after \in Pass
      BY <2>1 DEF TypeOK, Pass
    <2>3. OnFolder(n, folders[n].exists, NoFolder, after)
      BY <1>6 DEF ApiRemove
    <2>4. pass' \in Pass /\ faults' \in 0..MaxFaults /\ folders' \in [Libs -> Folder]
      BY <2>1, <2>2, <2>3, OnFolderType
    <2> QED
      BY <1>6, <2>4 DEF ApiRemove, TypeOK, Origin
  <1>7. CASE ApiRelist
    <2>1. pass' \in Pass
      BY <1>7
      DEF ApiRelist, TypeOK, Pass, OptionsToEnforce, OptionsSkipped, OptionsDue, Declared
    <2> QED
      BY <1>7, <2>1 DEF ApiRelist, TypeOK, history
  <1>8. ASSUME NEW n \in Libs, ApiOptions(n) PROVE TypeOK'
    <2> DEFINE after == [pass EXCEPT !.opts = @ \ {n}]
               f == [folders[n] EXCEPT !.ro = TRUE]
    <2>1. f \in Folder /\ after \in Pass
      BY DEF TypeOK, Pass, Folder
    <2>2. OnFolder(n, folders[n].item, f, after)
      BY <1>8 DEF ApiOptions
    <2>3. pass' \in Pass /\ faults' \in 0..MaxFaults /\ folders' \in [Libs -> Folder]
      BY <2>1, <2>2, OnFolderType
    <2> QED
      BY <1>8, <2>3 DEF ApiOptions, TypeOK, history
  <1>9. CASE ApiFinish
    <2>1. LibrariesDone(pass.jf) \in Object
      BY OutcomeTypes DEF TypeOK, Pass
    <2>2. pass' \in Pass
      BY <1>9, <2>1 DEF ApiFinish, TypeOK, Pass
    <2> QED
      BY <1>9, <2>2 DEF ApiFinish, TypeOK, Declared, Pass, Object
  <1>10. CASE ApiCallFails
    BY <1>10, LibraryErrorType DEF ApiCallFails, TypeOK, history
  <1>11. CASE ApiWrite
    <2>1. obj' \in Object /\ cache' \in Object
      BY <1>11, WriteType DEF ApiWrite, TypeOK, Pass
    <2> QED
      BY <1>11, <2>1, IdleTypes DEF ApiWrite, TypeOK, history
  <1>12. CASE ApiAbort
    BY <1>12, IdleTypes DEF ApiAbort, TypeOK, history
  <1>12a. CASE ApiConflict
    BY <1>12a, IdleTypes DEF ApiConflict, TypeOK, history
  <1>13. CASE InstStart
    BY <1>13 DEF InstStart, TypeOK, InstPass, history
  <1>14. CASE InstFinish
    <2> DEFINE st == [inst.jf.status EXCEPT !.ready = available]
               o == [inst.jf EXCEPT !.status = st]
    <2>1. st \in Status
      BY DEF TypeOK, InstPass, Object, Status
    <2>2. o \in Object
      BY <2>1 DEF TypeOK, InstPass, Object
    <2>3. WriteObject(WriteStatus(o))
      BY <1>14 DEF InstFinish
    <2>4. obj' \in Object /\ cache' \in Object
      BY <2>2, <2>3, WriteType
    <2> QED
      BY <1>14, <2>4, IdleTypes DEF InstFinish, TypeOK, history
  <1>15. CASE InstAbort
    BY <1>15, IdleTypes DEF InstAbort, TypeOK, history
  <1>15a. CASE InstConflict
    BY <1>15a, IdleTypes DEF InstConflict, TypeOK, history
  <1>16. CASE CacheDeliver
    BY <1>16 DEF CacheDeliver, TypeOK, history
  <1>17. CASE SpecEdit
    <2> PICK s \in Specs : /\ WriteObject([obj EXCEPT !.gen = @ + 1, !.spec = s])
                           /\ origin' = Claim(origin, Declared(s))
      BY <1>17 DEF SpecEdit
    <2>1. [obj EXCEPT !.gen = @ + 1, !.spec = s] \in Object
      <3>1. obj.gen + 1 \in 0..MaxGen /\ s \in SpecBody /\ obj \in Object
        BY <1>17 DEF SpecEdit, TypeOK, Object
      <3> QED
        BY <3>1 DEF Object
    <2>2. obj' \in Object /\ cache' \in Object
      BY <2>1 DEF WriteObject, TypeOK
    <2>3. origin' \in [Libs -> Origin]
      BY ClaimType DEF TypeOK
    <2> QED
      BY <1>17, <2>2, <2>3 DEF SpecEdit, TypeOK
  <1>18. CASE AvailabilityChange
    BY <1>18 DEF AvailabilityChange, TypeOK, history
  <1>19. ASSUME NEW n \in Libs, NEW f \in Folder, HandEdit(n, f) PROVE TypeOK'
    <2> DEFINE made == [origin EXCEPT ![n] = IF f.exists THEN "hand" ELSE "none"]
    <2>1. made \in [Libs -> Origin]
      BY DEF TypeOK, Origin
    <2>2. origin' = Claim(made, Claimed)
      BY <1>19 DEF HandEdit
    <2>3. origin' \in [Libs -> Origin]
      BY <2>1, <2>2, ClaimType
    <2>4. pass' \in Pass
      BY <1>19 DEF HandEdit, TypeOK, Pass
    <2>5. folders' \in [Libs -> Folder] /\ hand' \in 0..MaxHand
      BY <1>19 DEF HandEdit, TypeOK
    <2> QED
      BY <1>19, <2>3, <2>4, <2>5 DEF HandEdit, TypeOK
  <1>20. ASSUME NEW n \in Libs, NEW p \in Paths, HandCreate(n, p) PROVE TypeOK'
    BY <1>19, <1>20 DEF HandCreate, NewFolder, Folder
  <1>21. ASSUME NEW n \in Libs, HandDelete(n) PROVE TypeOK'
    BY <1>19, <1>21 DEF HandDelete, NoFolder, Folder
  <1>22. ASSUME NEW n \in Libs, ServerScans(n) PROVE TypeOK'
    <2>1. folders' \in [Libs -> Folder]
      BY <1>22 DEF ServerScans, TypeOK, Folder
    <2> QED
      BY <1>22, <2>1 DEF ServerScans, TypeOK, history
  <1>23. CASE UNCHANGED vars
    BY <1>23 DEF vars, TypeOK
  <1> QED
    BY <1>1, <1>2, <1>3, <1>4, <1>5, <1>6, <1>7, <1>8, <1>9, <1>10, <1>11, <1>12,
       <1>12a, <1>13, <1>14, <1>15, <1>15a, <1>16, <1>17, <1>18, <1>20, <1>21, <1>22,
       <1>23
    DEF Next, ApiStep, ApiCall, InstStep

\* The object, both reconcilers' copies of it, the cache and the server's
\* libraries keep their types: in particular no pass ever creates a library at
\* the path of a media folder that does not exist (the ToCreate of
\* DiffLibraries carries the declared path).
THEOREM TypeCorrect == Spec => []TypeOK
  BY InitTypeOK, NextTypeOK, PTL DEF Spec

----------------------------------------------------------------------------
(* What the copies of the status tell *)

\* The next object at the API server is one of the copies with the status of
\* another, so both writers keep StatusCopiesRecorded.
LEMMA NextCopies == TypeOK /\ StatusCopiesRecorded /\ [Next]_vars => StatusCopiesRecorded'
  <1> SUFFICES ASSUME TypeOK, StatusCopiesRecorded, [Next]_vars PROVE StatusCopiesRecorded'
    OBVIOUS
  <1> USE LibSyncAssumption DEF StatusCopiesRecorded
  \* Most steps keep the objects and the history, and only shrink the prune list.
  <1>a. ASSUME UNCHANGED <<obj, cache, inst, recorded, doneGens>>,
               pass'.jf \in {pass.jf, LibrariesFailed(pass.jf)},
               pass'.diff.remove \subseteq pass.diff.remove
        PROVE  StatusCopiesRecorded'
    <2>1. /\ LibrariesFailed(pass.jf).status.managed = pass.jf.status.managed
          /\ LibrariesFailed(pass.jf).status.libsReady = 0
      BY DEF TypeOK, Pass, Object, Status, LibrariesFailed
    <2> QED
      BY <1>a, <2>1
  <1>b. /\ LibraryError(pass).jf = LibrariesFailed(pass.jf)
        /\ LibraryError(pass).diff.remove = {}
    BY DEF LibraryError, TypeOK, Pass, NoDiff
  <1>c. ASSUME NEW after \in Pass, Returns(after), after.jf = pass.jf,
               after.diff.remove \subseteq pass.diff.remove
        PROVE  /\ pass'.jf \in {pass.jf, LibrariesFailed(pass.jf)}
               /\ pass'.diff.remove \subseteq pass.diff.remove
    BY <1>b, <1>c DEF Returns
  <1>d. ASSUME NEW n, NEW known, NEW f, NEW after \in Pass, OnFolder(n, known, f, after),
               after.jf = pass.jf,
               after.diff.remove \subseteq pass.diff.remove
        PROVE  /\ pass'.jf \in {pass.jf, LibrariesFailed(pass.jf)}
               /\ pass'.diff.remove \subseteq pass.diff.remove
    BY <1>b, <1>c, <1>d DEF OnFolder
  <1>1. CASE ApiStart
    <2> PICK pc \in {"list", "write"} : pass' = [IdlePass EXCEPT !.pc = pc, !.jf = cache]
      BY <1>1 DEF ApiStart
    <2>1. pass'.jf = cache /\ pass'.diff = NoDiff
      BY DEF IdlePass
    <2> QED
      BY <1>1, <2>1 DEF ApiStart, NoDiff, history
  <1>2. CASE ApiList
    <2>1. pass'.jf = pass.jf /\ pass'.diff = DiffLibraries(pass.jf.spec, pass.jf.status.managed)
      BY <1>2 DEF ApiList, TypeOK, Pass
    <2>2. pass'.diff.remove \subseteq pass.jf.status.managed
      BY <2>1 DEF DiffLibraries
    <2> QED
      BY <1>2, <2>1, <2>2 DEF ApiList, history
  <1>3. ASSUME NEW n \in Libs, NEW p \in Paths, ApiCreate(n, p) PROVE StatusCopiesRecorded'
    <2> DEFINE after == [pass EXCEPT !.diff = [pass.diff EXCEPT !.create = @ \ {<<n, p>>}],
                                     !.created = TRUE]
    <2>1. after \in Pass /\ after.jf = pass.jf /\ after.diff.remove = pass.diff.remove
      BY DEF TypeOK, Pass, Diff
    <2>2. Returns(after)
      BY <1>3 DEF ApiCreate
    <2> HIDE DEF after
    <2> QED
      BY <1>3, <2>1, <2>2, <1>a, <1>c DEF ApiCreate
  <1>4. ASSUME NEW n \in Libs, NEW p \in Paths, ApiAddPath(n, p) PROVE StatusCopiesRecorded'
    <2> DEFINE after == [pass EXCEPT !.diff = [pass.diff EXCEPT !.add = @ \ {<<n, p>>}]]
               f == [folders[n] EXCEPT !.locs = @ \cup {p}]
    <2>1. after \in Pass /\ after.jf = pass.jf /\ after.diff.remove = pass.diff.remove
      BY DEF TypeOK, Pass, Diff
    <2>2. OnFolder(n, folders[n].exists, f, after)
      BY <1>4 DEF ApiAddPath
    <2> HIDE DEF after, f
    <2> QED
      BY <1>4, <2>1, <2>2, <1>a, <1>d DEF ApiAddPath, history
  <1>5. ASSUME NEW n \in Libs, NEW p \in Paths, ApiRemovePath(n, p) PROVE StatusCopiesRecorded'
    <2> DEFINE after == [pass EXCEPT !.diff = [pass.diff EXCEPT !.rm = @ \ {<<n, p>>}]]
               f == [folders[n] EXCEPT !.locs = @ \ {p}]
    <2>1. after \in Pass /\ after.jf = pass.jf /\ after.diff.remove = pass.diff.remove
      BY DEF TypeOK, Pass, Diff
    <2>2. OnFolder(n, folders[n].exists, f, after)
      BY <1>5 DEF ApiRemovePath
    <2> HIDE DEF after, f
    <2> QED
      BY <1>5, <2>1, <2>2, <1>a, <1>d DEF ApiRemovePath, history
  <1>6. ASSUME NEW n \in Libs, ApiRemove(n) PROVE StatusCopiesRecorded'
    <2> DEFINE after == [pass EXCEPT !.diff = [pass.diff EXCEPT !.remove = @ \ {n}]]
    <2>1. /\ after \in Pass /\ after.jf = pass.jf
          /\ after.diff.remove \subseteq pass.diff.remove
      BY DEF TypeOK, Pass, Diff
    <2>2. OnFolder(n, folders[n].exists, NoFolder, after)
      BY <1>6 DEF ApiRemove
    <2> HIDE DEF after
    <2> QED
      BY <1>6, <2>1, <2>2, <1>a, <1>d DEF ApiRemove
  <1>7. CASE ApiRelist
    <2>1. pass'.jf = pass.jf /\ pass'.diff = pass.diff
      BY <1>7 DEF ApiRelist, TypeOK, Pass
    <2> QED
      BY <1>7, <2>1, <1>a DEF ApiRelist, history
  <1>8. ASSUME NEW n \in Libs, ApiOptions(n) PROVE StatusCopiesRecorded'
    <2> DEFINE after == [pass EXCEPT !.opts = @ \ {n}]
               f == [folders[n] EXCEPT !.ro = TRUE]
    <2>1. after \in Pass /\ after.jf = pass.jf /\ after.diff = pass.diff
      BY DEF TypeOK, Pass
    <2>2. OnFolder(n, folders[n].item, f, after)
      BY <1>8 DEF ApiOptions
    <2> HIDE DEF after, f
    <2> QED
      BY <1>8, <2>1, <2>2, <1>a, <1>d DEF ApiOptions, history
  <1>9. CASE ApiFinish
    <2>1. pass'.jf = LibrariesDone(pass.jf) /\ pass'.diff = pass.diff
      BY <1>9 DEF ApiFinish, TypeOK, Pass
    <2>2. /\ pass'.jf.status.managed = Declared(pass.jf.spec)
          /\ pass'.jf.status.libsReady = pass.jf.gen
      <3>1. pass.jf \in Object /\ pass.jf.status \in Status
        BY DEF TypeOK, Pass, Object
      <3>2. pass'.jf.status =
              [pass.jf.status EXCEPT !.managed = Declared(pass.jf.spec), !.libsReady = pass.jf.gen]
        BY <2>1, <3>1 DEF LibrariesDone, Object
      <3> QED
        BY <3>1, <3>2 DEF Status
    <2> QED
      BY <1>9, <2>1, <2>2 DEF ApiFinish
  <1>10. CASE ApiCallFails
    BY <1>10, <1>a, <1>b DEF ApiCallFails, history
  <1>11. CASE ApiWrite
    <2>1. obj'.status = pass.jf.status /\ cache' \in {cache, obj'}
      BY <1>11 DEF ApiWrite, WriteObject, WriteStatus, TypeOK, Object
    <2>2. pass'.jf.status = NoStatus /\ pass'.diff = NoDiff
      BY <1>11 DEF ApiWrite, IdlePass, NoObject
    <2> QED
      BY <1>11, <2>1, <2>2 DEF ApiWrite, NoStatus, NoDiff, history
  <1>12. CASE ApiAbort
    <2>1. pass'.jf.status = NoStatus /\ pass'.diff = NoDiff
      BY <1>12 DEF ApiAbort, IdlePass, NoObject
    <2> QED
      BY <1>12, <2>1 DEF ApiAbort, NoStatus, NoDiff, history
  <1>12a. CASE ApiConflict
    <2>1. pass'.jf.status = NoStatus /\ pass'.diff = NoDiff
      BY <1>12a DEF ApiConflict, IdlePass, NoObject
    <2> QED
      BY <1>12a, <2>1 DEF ApiConflict, NoStatus, NoDiff, history
  <1>13. CASE InstStart
    BY <1>13 DEF InstStart, history
  <1>14. CASE InstFinish
    <2>1. obj'.status = [inst.jf.status EXCEPT !.ready = available] /\ cache' \in {cache, obj'}
      <3> DEFINE st == [inst.jf.status EXCEPT !.ready = available]
                 o == [inst.jf EXCEPT !.status = st]
      <3>1. o.status = st
        BY DEF TypeOK, Object, InstPass
      <3>2. WriteObject(WriteStatus(o))
        BY <1>14 DEF InstFinish
      <3>3. obj'.status = o.status /\ cache' \in {cache, obj'}
        BY <3>2 DEF WriteObject, WriteStatus, TypeOK, Object
      <3> QED
        BY <3>1, <3>3
    <2>2. /\ obj'.status.managed = inst.jf.status.managed
          /\ obj'.status.libsReady = inst.jf.status.libsReady
      BY <2>1 DEF TypeOK, InstPass, Object, Status
    <2>3. inst'.jf.status = NoStatus
      BY <1>14 DEF InstFinish, IdleInst, NoObject
    <2>4. UNCHANGED <<pass, recorded, doneGens>>
      BY <1>14 DEF InstFinish, history
    <2>5. cache' \in {cache, obj'}
      BY <2>1
    <2>6. /\ obj'.status.managed \subseteq recorded /\ obj'.status.libsReady \in doneGens \cup {0}
          /\ inst'.jf.status.managed \subseteq recorded
          /\ inst'.jf.status.libsReady \in doneGens \cup {0}
      BY <2>2, <2>3 DEF NoStatus
    <2> QED
      BY <2>4, <2>5, <2>6
  <1>15. CASE InstAbort
    <2>1. inst'.jf.status = NoStatus
      BY <1>15 DEF InstAbort, IdleInst, NoObject
    <2> QED
      BY <1>15, <2>1 DEF InstAbort, NoStatus, history
  <1>15a. CASE InstConflict
    <2>1. inst'.jf.status = NoStatus
      BY <1>15a DEF InstConflict, IdleInst, NoObject
    <2> QED
      BY <1>15a, <2>1 DEF InstConflict, NoStatus, history
  <1>16. CASE CacheDeliver
    BY <1>16 DEF CacheDeliver, history
  <1>17. CASE SpecEdit
    <2>1. obj'.status = obj.status /\ cache' \in {cache, obj'}
      BY <1>17 DEF SpecEdit, WriteObject, TypeOK, Object
    <2> QED
      BY <1>17, <2>1 DEF SpecEdit
  <1>18. CASE AvailabilityChange
    BY <1>18 DEF AvailabilityChange, history
  <1>19. ASSUME NEW n \in Libs, NEW f, HandEdit(n, f) PROVE StatusCopiesRecorded'
    <2>1. pass'.jf = pass.jf /\ pass'.diff = pass.diff
      BY <1>19 DEF HandEdit, TypeOK, Pass
    <2> QED
      BY <1>19, <2>1, <1>a DEF HandEdit
  <1>20. ASSUME NEW n \in Libs, ServerScans(n) PROVE StatusCopiesRecorded'
    BY <1>20 DEF ServerScans, history
  <1>21. CASE UNCHANGED vars
    BY <1>21 DEF vars
  <1> QED
    BY <1>1, <1>2, <1>3, <1>4, <1>5, <1>6, <1>7, <1>8, <1>9, <1>10, <1>11, <1>12,
       <1>12a, <1>13, <1>14, <1>15, <1>15a, <1>16, <1>17, <1>18, <1>19, <1>20,
       <1>21
    DEF Next, ApiStep, ApiCall, InstStep, HandCreate, HandDelete

\* At first nothing is recorded and every copy of the status is empty.
LEMMA InitCopies == Init => StatusCopiesRecorded
  BY DEF Init, StatusCopiesRecorded, NoStatus, NoObject, IdlePass, IdleInst, NoDiff

\* The types and StatusCopiesRecorded hold throughout.
LEMMA CopiesInvariant == Spec => [](TypeOK /\ StatusCopiesRecorded)
  BY InitTypeOK, NextTypeOK, InitCopies, NextCopies, PTL DEF Spec

\* Whichever reconciler wrote the status last, and from however stale a copy,
\* LibrariesReady=True names a generation whose library pass ran to its end.
THEOREM ReadyIsHonest == Spec => []LibrariesReadyHonest
  <1>1. StatusCopiesRecorded => LibrariesReadyHonest
    BY DEF StatusCopiesRecorded, LibrariesReadyHonest
  <1> QED
    BY <1>1, CopiesInvariant, PTL

\* The prune never deletes a library that no completed pass declared.
THEOREM PruneIsRecorded == Spec => PruneOnlyRecorded
  <1>1. TypeOK /\ StatusCopiesRecorded /\ [Next]_vars =>
          [\A n \in Libs : ApiRemove(n) /\ folders[n].exists => n \in recorded]_vars
    BY DEF StatusCopiesRecorded, ApiRemove
  <1> QED
    BY <1>1, CopiesInvariant, PTL DEF Spec, PruneOnlyRecorded

----------------------------------------------------------------------------
(* A moved library keeps its declared path *)

\* A library still to be created will have the declared path, so that its
\* creation, where somebody else removed and the server recreates it, brings
\* that path and no other.
CreatesDeclared == \A np \in pass.diff.create : np[2] = pass.jf.spec.media[np[1]]

PathInv == DeclaredPathKept /\ CreatesDeclared

\* Without anything to do there is nothing to show.
LEMMA NothingToDo == pass.diff = NoDiff => PathInv
  BY DEF PathInv, DeclaredPathKept, CreatesDeclared, NoDiff

\* A call that fails, or finds its library gone, ends the diff.
LEMMA ErrorEnds ==
  ASSUME TypeOK, pass' = LibraryError(pass)
  PROVE  PathInv'
  <1>1. pass'.diff = NoDiff
    BY DEF LibraryError, TypeOK, Pass
  <1> QED
    BY <1>1 DEF PathInv, DeclaredPathKept, CreatesDeclared, NoDiff

\* Additions come before removals and a declared path is never removed.
LEMMA NextPaths == TypeOK /\ PathInv /\ [Next]_vars => PathInv'
  <1> SUFFICES ASSUME TypeOK, PathInv, [Next]_vars PROVE PathInv'
    OBVIOUS
  <1>t. pass \in Pass /\ pass.diff \in Diff /\ pass.jf \in Object
        /\ pass.jf.spec.media \in [Libs -> Paths \cup {NoPath}] /\ folders \in [Libs -> Folder]
    BY DEF TypeOK, Pass, Object, SpecBody
  <1>i. ASSUME pass' = IdlePass PROVE PathInv'
    BY <1>i DEF IdlePass, NoDiff, PathInv, DeclaredPathKept, CreatesDeclared
  <1>k. ASSUME UNCHANGED folders, pass'.jf.spec = pass.jf.spec, pass'.diff = pass.diff,
               pass'.quiet = pass.quiet
        PROVE  PathInv'
    BY <1>k DEF PathInv, DeclaredPathKept, CreatesDeclared
  <1>1. CASE ApiStart
    <2>1. pass'.diff = NoDiff
      BY <1>1 DEF ApiStart, IdlePass
    <2> QED
      BY <2>1 DEF NoDiff, PathInv, DeclaredPathKept, CreatesDeclared
  <1>2. CASE ApiList
    <2>1. pass'.jf = pass.jf /\ pass'.diff = DiffLibraries(pass.jf.spec, pass.jf.status.managed)
          /\ folders' = folders
      BY <1>2, <1>t DEF ApiList, Pass
    <2>2. CreatesDeclared'
      BY <2>1 DEF CreatesDeclared, DiffLibraries
    <2>3. ASSUME NEW n \in Libs, NEW p \in Paths, <<n, p>> \in pass'.diff.rm
          PROVE  LET w == pass.jf.spec.media[n] IN
                 /\ w \in Paths /\ p # w
                 /\ w \in folders[n].locs \/ <<n, w>> \in pass'.diff.add
      <3>1. n \in Declared(pass.jf.spec) /\ n \in Existing /\ p # pass.jf.spec.media[n]
        BY <2>1, <2>3 DEF DiffLibraries
      <3>2. pass.jf.spec.media[n] \in Paths
        BY <3>1, <1>t DEF Declared
      <3>3. pass.jf.spec.media[n] \notin folders[n].locs =>
              <<n, pass.jf.spec.media[n]>> \in pass'.diff.add
        BY <2>1, <3>1, <3>2 DEF DiffLibraries
      <3> QED
        BY <3>1, <3>2, <3>3
    <2> QED
      BY <2>1, <2>2, <2>3 DEF PathInv, DeclaredPathKept
  <1>3. ASSUME NEW n \in Libs, NEW p \in Paths, ApiCreate(n, p) PROVE PathInv'
    <2> DEFINE d == [pass.diff EXCEPT !.create = @ \ {<<n, p>>}]
               after == [pass EXCEPT !.diff = d, !.created = TRUE]
    <2>1. /\ after.jf = pass.jf /\ after.quiet = pass.quiet
          /\ after.diff.create \subseteq pass.diff.create
          /\ after.diff.rm = pass.diff.rm /\ after.diff.add = pass.diff.add
      BY <1>t DEF Pass, Diff
    <2>2. p = pass.jf.spec.media[n]
      BY <1>3 DEF ApiCreate, PathInv, CreatesDeclared
    <2>3. \A m \in Libs : m # n => folders'[m] = folders[m]
      BY <1>3, <1>t DEF ApiCreate
    <2>4. folders'[n] = folders[n] \/ p \in folders'[n].locs
      BY <1>3, <1>t DEF ApiCreate, NewFolder
    <2>5. Returns(after)
      BY <1>3 DEF ApiCreate
    <2> HIDE DEF after, d
    <2>6. CASE pass' = after
      BY <2>1, <2>2, <2>3, <2>4, <2>6 DEF PathInv, DeclaredPathKept, CreatesDeclared
    <2> QED
      BY <2>5, <2>6, ErrorEnds DEF Returns
  <1>4. ASSUME NEW n \in Libs, NEW p \in Paths, ApiAddPath(n, p) PROVE PathInv'
    <2> DEFINE d == [pass.diff EXCEPT !.add = @ \ {<<n, p>>}]
               after == [pass EXCEPT !.diff = d]
               f == [folders[n] EXCEPT !.locs = @ \cup {p}]
    <2>1. /\ after.jf = pass.jf /\ after.quiet = pass.quiet
          /\ after.diff.create = pass.diff.create
          /\ after.diff.rm = pass.diff.rm /\ after.diff.add = pass.diff.add \ {<<n, p>>}
      BY <1>t DEF Pass, Diff
    <2>2. f.locs = folders[n].locs \cup {p}
      BY <1>t DEF Folder
    <2>3. OnFolder(n, folders[n].exists, f, after)
      BY <1>4 DEF ApiAddPath
    <2> HIDE DEF after, d, f
    <2>4. CASE folders[n].exists /\ pass' = after
      <3>1. folders' = [folders EXCEPT ![n] = f]
        BY <2>3, <2>4 DEF OnFolder
      <3>2. \A m \in Libs : folders'[m] = IF m = n THEN f ELSE folders[m]
        BY <3>1, <1>t
      <3> QED
        BY <2>1, <2>2, <2>4, <3>2 DEF PathInv, DeclaredPathKept, CreatesDeclared
    <2> QED
      BY <2>3, <2>4, ErrorEnds DEF OnFolder, Returns
  <1>5. ASSUME NEW n \in Libs, NEW p \in Paths, ApiRemovePath(n, p) PROVE PathInv'
    <2> DEFINE d == [pass.diff EXCEPT !.rm = @ \ {<<n, p>>}]
               after == [pass EXCEPT !.diff = d]
               f == [folders[n] EXCEPT !.locs = @ \ {p}]
    <2>1. /\ after.jf = pass.jf /\ after.quiet = pass.quiet
          /\ after.diff.create = pass.diff.create
          /\ after.diff.rm \subseteq pass.diff.rm /\ after.diff.add = pass.diff.add
      BY <1>t DEF Pass, Diff
    <2>2. f.locs = folders[n].locs \ {p}
      BY <1>t DEF Folder
    <2>3. OnFolder(n, folders[n].exists, f, after) /\ <<n, p>> \in pass.diff.rm
      BY <1>5 DEF ApiRemovePath
    <2> HIDE DEF after, d, f
    <2>4. CASE folders[n].exists /\ pass' = after
      <3>1. folders' = [folders EXCEPT ![n] = f]
        BY <2>3, <2>4 DEF OnFolder
      <3>2. \A m \in Libs : folders'[m] = IF m = n THEN f ELSE folders[m]
        BY <3>1, <1>t
      <3>3. pass.quiet => p # pass.jf.spec.media[n]
        BY <2>3 DEF PathInv, DeclaredPathKept
      <3> QED
        BY <2>1, <2>2, <2>4, <3>2, <3>3 DEF PathInv, DeclaredPathKept, CreatesDeclared
    <2> QED
      BY <2>3, <2>4, ErrorEnds DEF OnFolder, Returns
  <1>6. ASSUME NEW n \in Libs, ApiRemove(n) PROVE PathInv'
    <2> DEFINE d == [pass.diff EXCEPT !.remove = @ \ {n}]
               after == [pass EXCEPT !.diff = d]
    <2>1. after.diff.rm = {} /\ after.diff.create = {}
      BY <1>6, <1>t DEF ApiRemove, Pass, Diff
    <2>2. OnFolder(n, folders[n].exists, NoFolder, after)
      BY <1>6 DEF ApiRemove
    <2> HIDE DEF after, d
    <2>3. CASE pass' = after
      BY <2>1, <2>3 DEF PathInv, DeclaredPathKept, CreatesDeclared
    <2> QED
      BY <2>2, <2>3, ErrorEnds DEF OnFolder, Returns
  <1>7. CASE ApiRelist
    BY <1>7, <1>t, <1>k DEF ApiRelist, Pass
  <1>8. ASSUME NEW n \in Libs, ApiOptions(n) PROVE PathInv'
    <2> DEFINE after == [pass EXCEPT !.opts = @ \ {n}]
               f == [folders[n] EXCEPT !.ro = TRUE]
    <2>1. after.jf = pass.jf /\ after.diff = pass.diff /\ after.quiet = pass.quiet
      BY <1>t DEF Pass
    <2>2. f.locs = folders[n].locs
      BY <1>t DEF Folder
    <2>3. OnFolder(n, folders[n].item, f, after)
      BY <1>8 DEF ApiOptions
    <2> HIDE DEF after, f
    <2>4. CASE folders[n].item /\ pass' = after
      <3>1. folders' = [folders EXCEPT ![n] = f]
        BY <2>3, <2>4 DEF OnFolder
      <3>2. \A m \in Libs : folders'[m].locs = folders[m].locs
        BY <2>2, <3>1, <1>t
      <3> QED
        BY <2>1, <2>4, <3>2 DEF PathInv, DeclaredPathKept, CreatesDeclared
    <2> QED
      BY <2>3, <2>4, ErrorEnds DEF OnFolder, Returns
  <1>9. CASE ApiFinish
    <2>1. LibrariesDone(pass.jf).spec = pass.jf.spec
      BY <1>t DEF LibrariesDone, Object
    <2>2. pass'.jf = LibrariesDone(pass.jf) /\ pass'.diff = pass.diff /\ pass'.quiet = pass.quiet
      BY <1>9, <1>t DEF ApiFinish, Pass
    <2> QED
      BY <1>9, <2>1, <2>2, <1>k DEF ApiFinish
  <1>10. CASE ApiCallFails
    BY <1>10, ErrorEnds DEF ApiCallFails
  <1>11. CASE ApiWrite \/ ApiConflict \/ ApiAbort
    BY <1>11, <1>i DEF ApiWrite, ApiConflict, ApiAbort
  <1>12. CASE InstStep \/ InstAbort \/ CacheDeliver \/ SpecEdit \/ AvailabilityChange
    BY <1>12, <1>k DEF InstStep, InstStart, InstFinish, InstConflict, InstAbort, CacheDeliver,
       SpecEdit, AvailabilityChange
  <1>13. ASSUME NEW n \in Libs, NEW f, HandEdit(n, f) PROVE PathInv'
    <2>1. pass'.jf = pass.jf /\ pass'.diff = pass.diff /\ ~pass'.quiet
      BY <1>13, <1>t DEF HandEdit, Pass
    <2> QED
      BY <2>1 DEF PathInv, DeclaredPathKept, CreatesDeclared
  <1>14. ASSUME NEW n \in Libs, ServerScans(n) PROVE PathInv'
    <2>1. pass' = pass /\ \A m \in Libs : folders'[m].locs = folders[m].locs
      BY <1>14, <1>t DEF ServerScans, Folder
    <2> QED
      BY <2>1 DEF PathInv, DeclaredPathKept, CreatesDeclared
  <1>15. CASE UNCHANGED vars
    BY <1>15, <1>k DEF vars
  <1> QED
    BY <1>1, <1>2, <1>3, <1>4, <1>5, <1>6, <1>7, <1>8, <1>9, <1>10, <1>11, <1>12, <1>13,
       <1>14, <1>15
    DEF Next, ApiStep, ApiCall, HandCreate, HandDelete

\* No call of a pass leaves a declared library without a path (unless somebody
\* edits libraries by hand meanwhile), for all libraries, paths and specs.
THEOREM LibrariesKeepAPath == Spec => NeverEmptiesALibrary
  <1>1. Init => PathInv
    BY NothingToDo DEF Init, IdlePass
  <1>2. TypeOK /\ PathInv /\ [Next]_vars =>
          [\A n \in Libs, p \in Paths :
             ApiRemovePath(n, p) /\ folders[n].exists /\ pass.quiet => folders'[n].locs # {}]_vars
    <2> SUFFICES ASSUME TypeOK, PathInv, NEW n \in Libs, NEW p \in Paths,
                        ApiRemovePath(n, p), folders[n].exists, pass.quiet
                 PROVE  folders'[n].locs # {}
      OBVIOUS
    <2>1. <<n, p>> \in pass.diff.rm /\ pass.diff.add = {}
      BY DEF ApiRemovePath
    <2>2. pass.jf.spec.media[n] \in folders[n].locs /\ p # pass.jf.spec.media[n]
      BY <2>1 DEF PathInv, DeclaredPathKept
    <2>3. folders' = [folders EXCEPT ![n] = [folders[n] EXCEPT !.locs = @ \ {p}]]
      BY DEF ApiRemovePath, OnFolder
    <2>4. folders'[n].locs = folders[n].locs \ {p}
      BY <2>3 DEF TypeOK, Folder
    <2> QED
      BY <2>2, <2>4
  <1> QED
    BY <1>1, <1>2, InitTypeOK, NextTypeOK, NextPaths, PTL DEF Spec, NeverEmptiesALibrary

----------------------------------------------------------------------------
(* A completed pass has applied what it read *)

\* The diff asks for what is declared and against nothing that is.
DiffSound ==
  LET s == pass.jf.spec IN
  /\ \A np \in pass.diff.create \cup pass.diff.add :
       np[1] \in Declared(s) /\ np[2] = s.media[np[1]]
  /\ \A np \in pass.diff.rm : np[2] # s.media[np[1]]
  /\ pass.diff.remove \cap Declared(s) = {}

\* What is not as declared is still to do: library by library, in the diff and in
\* the options to enforce or to pass over, or in those that a second list will
\* show.
LeftFor(n, f) ==
  LET w == pass.jf.spec.media[n] IN
  /\ ~f.exists => <<n, w>> \in pass.diff.create
  /\ f.exists =>
       /\ w \in f.locs \/ <<n, w>> \in pass.diff.add
       /\ \A l \in f.locs \ {w} : <<n, l>> \in pass.diff.rm
       /\ w \in ReadOnly /\ ~f.ro =>
            n \in pass.opts \/ n \in pass.skipped \/ (pass.pc = "apply" /\ pass.created)
PruneLeft(n, f) == pass.jf.spec.prune /\ f.exists => n \in pass.diff.remove
Working == pass.pc \in {"apply", "options"} /\ pass.quiet
AllLeft ==
  Working =>
    /\ \A n \in Declared(pass.jf.spec) : LeftFor(n, folders[n])
    /\ \A n \in pass.jf.status.managed \ Declared(pass.jf.spec) : PruneLeft(n, folders[n])
OptionsLast == pass.pc = "options" => pass.diff = NoDiff

LeftInv == DiffSound /\ AllLeft /\ OptionsLast

\* Outside the loop there is nothing to show.
LEMMA NotWorking ==
  ASSUME pass.diff = NoDiff, pass.pc \notin {"apply", "options"}
  PROVE  LeftInv
  BY DEF LeftInv, DiffSound, AllLeft, OptionsLast, Working, NoDiff

\* Neither is there after a failed call.
LEMMA ErrorLeaves ==
  ASSUME TypeOK, pass' = LibraryError(pass)
  PROVE  LeftInv'
  <1>1. pass'.diff = NoDiff /\ pass'.pc = "write"
    BY DEF LibraryError, TypeOK, Pass
  <1> QED
    BY <1>1 DEF LeftInv, DiffSound, AllLeft, OptionsLast, Working, NoDiff

\* The list leaves all that differs to do.
LEMMA ListLeaves ==
  ASSUME TypeOK, ApiList
  PROVE  LeftInv'
  <1>t. /\ pass \in Pass /\ pass.jf \in Object /\ folders \in [Libs -> Folder]
        /\ pass.jf.spec \in SpecBody /\ pass.jf.status.managed \subseteq Libs
        /\ pass.jf.spec.media \in [Libs -> Paths \cup {NoPath}]
    BY DEF TypeOK, Pass, Object, SpecBody, Status
  <1> DEFINE s == pass.jf.spec
             d == DiffLibraries(s, pass.jf.status.managed)
  <1>1. /\ pass'.jf = pass.jf /\ pass'.pc = "apply" /\ pass'.diff = d
        /\ pass'.opts = OptionsToEnforce(s) /\ pass'.skipped = OptionsSkipped(s)
        /\ UNCHANGED folders
    BY <1>t DEF ApiList, Pass
  <1>2. /\ \A np \in d.create \cup d.add : np[1] \in Declared(s) /\ np[2] = s.media[np[1]]
        /\ \A np \in d.rm : np[2] # s.media[np[1]]
        /\ d.remove \cap Declared(s) = {}
    BY DEF DiffLibraries
  <1>3. DiffSound'
    BY <1>1, <1>2 DEF DiffSound
  <1>4. ASSUME NEW n \in Declared(s) PROVE LeftFor(n, folders[n])'
    <2>1. n \in Libs /\ s.media[n] \in Paths /\ folders[n] \in Folder
      BY <1>t DEF Declared
    <2>2. folders[n].exists <=> n \in Existing
      BY <2>1 DEF Existing
    <2>3. ~folders[n].exists => <<n, s.media[n]>> \in d.create
      BY <2>1, <2>2 DEF DiffLibraries
    <2>4. folders[n].exists /\ s.media[n] \notin folders[n].locs => <<n, s.media[n]>> \in d.add
      BY <2>1, <2>2 DEF DiffLibraries
    <2>5. folders[n].exists => \A l \in folders[n].locs \ {s.media[n]} : <<n, l>> \in d.rm
      BY <2>1, <2>2 DEF DiffLibraries, Folder
    <2>6. folders[n].exists /\ s.media[n] \in ReadOnly /\ ~folders[n].ro
            => n \in OptionsToEnforce(s) \/ n \in OptionsSkipped(s)
      BY <2>1, <2>2 DEF OptionsToEnforce, OptionsSkipped, OptionsDue
    <2> HIDE DEF d, s
    <2> QED
      BY <1>1, <2>3, <2>4, <2>5, <2>6 DEF LeftFor, s
  <1>5. ASSUME NEW n \in pass.jf.status.managed \ Declared(s) PROVE PruneLeft(n, folders[n])'
    <2>1. n \in Libs /\ (folders[n].exists => n \in Existing)
      BY <1>t DEF Existing
    <2>2. s.prune /\ folders[n].exists => n \in d.remove
      BY <2>1 DEF DiffLibraries
    <2> QED
      BY <1>1, <2>2 DEF PruneLeft
  <1> QED
    BY <1>1, <1>3, <1>4, <1>5 DEF LeftInv, AllLeft, OptionsLast

\* A call about library n that does its part for n, and takes nothing off the
\* lists for another library, leaves the rest to do.
LEMMA CallLeaves ==
  ASSUME TypeOK, LeftInv, NEW n \in Libs, NEW f \in Folder,
         pass.pc \in {"apply", "options"}, UNCHANGED pass.pc,
         UNCHANGED pass.jf, UNCHANGED pass.quiet,
         folders' = [folders EXCEPT ![n] = f],
         pass.created => pass'.created, UNCHANGED pass.skipped,
         pass'.diff.create \subseteq pass.diff.create, pass'.diff.add \subseteq pass.diff.add,
         pass'.diff.rm \subseteq pass.diff.rm, pass'.diff.remove \subseteq pass.diff.remove,
         \A m \in Libs \ {n} :
           /\ \A l \in Paths :
                /\ <<m, l>> \in pass.diff.create => <<m, l>> \in pass'.diff.create
                /\ <<m, l>> \in pass.diff.add => <<m, l>> \in pass'.diff.add
                /\ <<m, l>> \in pass.diff.rm => <<m, l>> \in pass'.diff.rm
           /\ m \in pass.opts => m \in pass'.opts
           /\ m \in pass.diff.remove => m \in pass'.diff.remove,
         pass.pc = "options" => UNCHANGED pass.diff,
         pass.quiet /\ n \in Declared(pass.jf.spec) => LeftFor(n, f)',
         pass.quiet /\ n \in pass.jf.status.managed \ Declared(pass.jf.spec)
           => PruneLeft(n, f)'
  PROVE  LeftInv'
  <1>t. /\ folders \in [Libs -> Folder] /\ pass.jf.status.managed \subseteq Libs
        /\ pass.jf.spec.media \in [Libs -> Paths \cup {NoPath}]
    BY DEF TypeOK, Pass, Object, SpecBody, Status
  <1>1. DiffSound' /\ OptionsLast'
    BY DEF LeftInv, DiffSound, OptionsLast
  <1>2. folders'[n] = f /\ \A m \in Libs \ {n} : folders'[m] = folders[m]
    BY <1>t
  <1>3. ASSUME Working', NEW m \in Declared(pass.jf.spec) PROVE LeftFor(m, folders[m])'
    <2>1. m \in Libs /\ pass.jf.spec.media[m] \in Paths /\ folders[m] \in Folder
      BY <1>t DEF Declared
    <2>2. CASE m = n
      BY <1>2, <1>3, <2>2 DEF Working, LeftFor
    <2>3. CASE m # n
      <3>1. LeftFor(m, folders[m]) /\ folders[m].locs \subseteq Paths /\ folders'[m] = folders[m]
        BY <1>2, <1>3, <2>1, <2>3 DEF LeftInv, AllLeft, Working, Folder
      <3> QED
        BY <2>1, <2>3, <3>1 DEF LeftFor
    <2> QED
      BY <2>2, <2>3
  <1>4. ASSUME Working', NEW m \in pass.jf.status.managed \ Declared(pass.jf.spec)
        PROVE  PruneLeft(m, folders[m])'
    BY <1>t, <1>2, <1>4 DEF LeftInv, AllLeft, Working, PruneLeft
  <1> QED
    BY <1>1, <1>3, <1>4 DEF LeftInv, AllLeft

\* Every step leaves to do what is not as declared.
LEMMA NextLeft == TypeOK /\ LeftInv /\ [Next]_vars => LeftInv'
  <1> SUFFICES ASSUME TypeOK, LeftInv, [Next]_vars PROVE LeftInv'
    OBVIOUS
  <1>t. /\ pass \in Pass /\ pass.diff \in Diff /\ pass.jf \in Object
        /\ pass.jf.spec.media \in [Libs -> Paths \cup {NoPath}] /\ folders \in [Libs -> Folder]
        /\ pass.jf.status.managed \subseteq Libs
    BY DEF TypeOK, Pass, Object, SpecBody, Status
  <1>i. ASSUME pass' = IdlePass PROVE LeftInv'
    BY <1>i DEF IdlePass, NoDiff, LeftInv, DiffSound, AllLeft, OptionsLast, Working
  <1>k. ASSUME UNCHANGED <<folders, pass>> PROVE LeftInv'
    BY <1>k
    DEF LeftInv, DiffSound, AllLeft, OptionsLast, Working, LeftFor, PruneLeft
  <1>1. CASE ApiStart
    <2>1. pass'.diff = NoDiff /\ pass'.pc \notin {"apply", "options"}
      BY <1>1 DEF ApiStart, IdlePass
    <2> QED
      BY <2>1 DEF NoDiff, LeftInv, DiffSound, AllLeft, OptionsLast, Working
  <1>2. CASE ApiList
    BY <1>2, ListLeaves
  <1>3. ASSUME NEW n \in Libs, NEW p \in Paths, ApiCreate(n, p) PROVE LeftInv'
    <2> DEFINE d == [pass.diff EXCEPT !.create = @ \ {<<n, p>>}]
               after == [pass EXCEPT !.diff = d, !.created = TRUE]
    <2>0. PICK f \in Folder : f = IF folders[n].exists THEN folders[n] ELSE NewFolder(p)
      BY <1>t DEF Folder, NewFolder
    <2>1. /\ after.pc = pass.pc /\ after.jf = pass.jf /\ after.quiet = pass.quiet
          /\ after.created /\ after.opts = pass.opts /\ after.skipped = pass.skipped
          /\ after.diff.create = pass.diff.create \ {<<n, p>>}
          /\ after.diff.add = pass.diff.add /\ after.diff.rm = pass.diff.rm
          /\ after.diff.remove = pass.diff.remove
      BY <1>t DEF Pass, Diff
    <2>2. /\ pass.pc = "apply" /\ n \in Declared(pass.jf.spec) /\ p = pass.jf.spec.media[n]
      BY <1>3 DEF ApiCreate, LeftInv, DiffSound
    <2>3. folders' = [folders EXCEPT ![n] = f]
      BY <1>3, <1>t, <2>0 DEF ApiCreate
    <2>4. \/ f = folders[n] /\ f.exists
          \/ ~folders[n].exists /\ f.exists /\ f.locs = {p} /\ ~f.ro
      BY <2>0 DEF NewFolder
    <2>5. Returns(after)
      BY <1>3 DEF ApiCreate
    <2> HIDE DEF after, d
    <2>6. CASE pass' = after
      <3>1. pass.quiet => LeftFor(n, f)'
        BY <2>1, <2>2, <2>4, <2>6 DEF LeftInv, AllLeft, Working, LeftFor
      <3> QED
        BY <2>1, <2>2, <2>3, <2>6, <3>1, CallLeaves
    <2> QED
      BY <2>5, <2>6, ErrorLeaves DEF Returns
  <1>4. ASSUME NEW n \in Libs, NEW p \in Paths, ApiAddPath(n, p) PROVE LeftInv'
    <2> DEFINE d == [pass.diff EXCEPT !.add = @ \ {<<n, p>>}]
               after == [pass EXCEPT !.diff = d]
    <2>0. PICK f \in Folder : f = [folders[n] EXCEPT !.locs = @ \cup {p}]
      BY <1>t DEF Folder, NewFolder
    <2>1. /\ after.pc = pass.pc /\ after.jf = pass.jf /\ after.quiet = pass.quiet
          /\ after.created = pass.created /\ after.opts = pass.opts
          /\ after.skipped = pass.skipped
          /\ after.diff.add = pass.diff.add \ {<<n, p>>}
          /\ after.diff.create = pass.diff.create /\ after.diff.rm = pass.diff.rm
          /\ after.diff.remove = pass.diff.remove
      BY <1>t DEF Pass, Diff
    <2>2. /\ pass.pc = "apply" /\ n \in Declared(pass.jf.spec) /\ p = pass.jf.spec.media[n]
      BY <1>4 DEF ApiAddPath, LeftInv, DiffSound
    <2>3. /\ f.locs = folders[n].locs \cup {p} /\ f.exists = folders[n].exists
          /\ f.ro = folders[n].ro
      BY <1>t, <2>0 DEF Folder
    <2>4. OnFolder(n, folders[n].exists, f, after)
      BY <1>4, <2>0 DEF ApiAddPath, OnFolder
    <2> HIDE DEF after, d
    <2>5. CASE folders[n].exists /\ pass' = after
      <3>1. folders' = [folders EXCEPT ![n] = f]
        BY <2>4, <2>5 DEF OnFolder
      <3>2. pass.quiet => LeftFor(n, f)'
        BY <2>1, <2>2, <2>3, <2>5 DEF LeftInv, AllLeft, Working, LeftFor
      <3> QED
        BY <2>1, <2>2, <2>3, <2>5, <3>1, <3>2, CallLeaves
    <2> QED
      BY <2>4, <2>5, ErrorLeaves DEF OnFolder, Returns
  <1>5. ASSUME NEW n \in Libs, NEW p \in Paths, ApiRemovePath(n, p) PROVE LeftInv'
    <2> DEFINE d == [pass.diff EXCEPT !.rm = @ \ {<<n, p>>}]
               after == [pass EXCEPT !.diff = d]
    <2>0. PICK f \in Folder : f = [folders[n] EXCEPT !.locs = @ \ {p}]
      BY <1>t DEF Folder, NewFolder
    <2>1. /\ after.pc = pass.pc /\ after.jf = pass.jf /\ after.quiet = pass.quiet
          /\ after.created = pass.created /\ after.opts = pass.opts
          /\ after.skipped = pass.skipped
          /\ after.diff.rm = pass.diff.rm \ {<<n, p>>}
          /\ after.diff.create = pass.diff.create /\ after.diff.add = pass.diff.add
          /\ after.diff.remove = pass.diff.remove
      BY <1>t DEF Pass, Diff
    <2>2. pass.pc = "apply" /\ p # pass.jf.spec.media[n]
      BY <1>5 DEF ApiRemovePath, LeftInv, DiffSound
    <2>3. /\ f.locs = folders[n].locs \ {p} /\ f.exists = folders[n].exists
          /\ f.ro = folders[n].ro
      BY <1>t, <2>0 DEF Folder
    <2>4. OnFolder(n, folders[n].exists, f, after)
      BY <1>5, <2>0 DEF ApiRemovePath, OnFolder
    <2> HIDE DEF after, d
    <2>5. CASE folders[n].exists /\ pass' = after
      <3>1. folders' = [folders EXCEPT ![n] = f]
        BY <2>4, <2>5 DEF OnFolder
      <3>2. pass.quiet /\ n \in Declared(pass.jf.spec) => LeftFor(n, f)'
        BY <2>1, <2>2, <2>3, <2>5 DEF LeftInv, AllLeft, Working, LeftFor
      <3>3. pass.quiet /\ n \in pass.jf.status.managed \ Declared(pass.jf.spec)
              => PruneLeft(n, f)'
        BY <2>1, <2>2, <2>3, <2>5 DEF LeftInv, AllLeft, Working, PruneLeft
      <3> QED
        BY <2>1, <2>2, <2>3, <2>5, <3>1, <3>2, <3>3, CallLeaves
    <2> QED
      BY <2>4, <2>5, ErrorLeaves DEF OnFolder, Returns
  <1>6. ASSUME NEW n \in Libs, ApiRemove(n) PROVE LeftInv'
    <2> DEFINE d == [pass.diff EXCEPT !.remove = @ \ {n}]
               after == [pass EXCEPT !.diff = d]
    <2>1. /\ after.pc = pass.pc /\ after.jf = pass.jf /\ after.quiet = pass.quiet
          /\ after.created = pass.created /\ after.opts = pass.opts
          /\ after.skipped = pass.skipped
          /\ after.diff.remove = pass.diff.remove \ {n}
          /\ after.diff.create = pass.diff.create /\ after.diff.add = pass.diff.add
          /\ after.diff.rm = pass.diff.rm
      BY <1>t DEF Pass, Diff
    <2>2. pass.pc = "apply" /\ n \notin Declared(pass.jf.spec)
      BY <1>6 DEF ApiRemove, LeftInv, DiffSound
    <2>3. ~NoFolder.exists /\ NoFolder \in Folder
      BY DEF NoFolder, Folder
    <2>4. OnFolder(n, folders[n].exists, NoFolder, after)
      BY <1>6 DEF ApiRemove
    <2> HIDE DEF after, d
    <2>5. CASE folders[n].exists /\ pass' = after
      <3>1. folders' = [folders EXCEPT ![n] = NoFolder]
        BY <2>4, <2>5 DEF OnFolder
      <3>2. PruneLeft(n, NoFolder)'
        BY <2>3 DEF PruneLeft, NoFolder
      <3> QED
        BY <2>1, <2>2, <2>3, <2>5, <3>1, <3>2, CallLeaves
    <2> QED
      BY <2>4, <2>5, ErrorLeaves DEF OnFolder, Returns
  <1>7. CASE ApiRelist
    <2>1. /\ pass.pc = "apply" /\ pass.diff = NoDiff /\ UNCHANGED folders
          /\ pass'.pc = "options" /\ pass'.jf = pass.jf /\ pass'.diff = NoDiff
          /\ pass'.quiet = pass.quiet
          /\ pass'.opts = IF pass.created THEN OptionsToEnforce(pass.jf.spec) ELSE pass.opts
          /\ pass'.skipped = IF pass.created THEN OptionsSkipped(pass.jf.spec) ELSE pass.skipped
      BY <1>7, <1>t DEF ApiRelist, Pass
    <2>2. ASSUME pass.quiet, NEW n \in Declared(pass.jf.spec) PROVE LeftFor(n, folders[n])'
      <3>1. n \in Libs /\ LeftFor(n, folders[n])
        BY <2>1, <2>2 DEF LeftInv, AllLeft, Working, Declared
      <3>2. folders[n].exists /\ pass.jf.spec.media[n] \in ReadOnly /\ ~folders[n].ro
              => n \in pass'.opts \/ n \in pass'.skipped
        BY <2>1, <2>2, <3>1 DEF LeftFor, OptionsToEnforce, OptionsSkipped, OptionsDue, Existing
      <3> QED
        BY <2>1, <3>1, <3>2 DEF LeftFor
    <2>3. ASSUME pass.quiet, NEW n \in pass.jf.status.managed \ Declared(pass.jf.spec)
          PROVE  PruneLeft(n, folders[n])'
      BY <2>1, <2>3 DEF LeftInv, AllLeft, Working, PruneLeft
    <2> QED
      BY <2>1, <2>2, <2>3 DEF LeftInv, DiffSound, AllLeft, OptionsLast, Working, NoDiff
  <1>8. ASSUME NEW n \in Libs, ApiOptions(n) PROVE LeftInv'
    <2> DEFINE after == [pass EXCEPT !.opts = @ \ {n}]
    <2>0. PICK f \in Folder : f = [folders[n] EXCEPT !.ro = TRUE]
      BY <1>t DEF Folder, NewFolder
    <2>1. /\ after.pc = pass.pc /\ after.jf = pass.jf /\ after.quiet = pass.quiet
          /\ after.created = pass.created /\ after.opts = pass.opts \ {n}
          /\ after.skipped = pass.skipped
          /\ after.diff = pass.diff
      BY <1>t DEF Pass
    <2>2. pass.pc = "options"
      BY <1>8 DEF ApiOptions
    <2>3. /\ f.locs = folders[n].locs /\ f.exists = folders[n].exists /\ f.ro
      BY <1>t, <2>0 DEF Folder
    <2>4. OnFolder(n, folders[n].item, f, after)
      BY <1>8, <2>0 DEF ApiOptions, OnFolder
    <2> HIDE DEF after
    <2>5. CASE folders[n].item /\ pass' = after
      <3>1. folders' = [folders EXCEPT ![n] = f]
        BY <2>4, <2>5 DEF OnFolder
      <3>2. pass.quiet /\ n \in Declared(pass.jf.spec) => LeftFor(n, f)'
        BY <2>1, <2>2, <2>3, <2>5 DEF LeftInv, AllLeft, Working, LeftFor
      <3>3. pass.quiet /\ n \in pass.jf.status.managed \ Declared(pass.jf.spec)
              => PruneLeft(n, f)'
        BY <2>1, <2>2, <2>3, <2>5 DEF LeftInv, AllLeft, Working, PruneLeft
      <3> QED
        BY <2>1, <2>2, <2>3, <2>5, <3>1, <3>2, <3>3, CallLeaves
    <2> QED
      BY <2>4, <2>5, ErrorLeaves DEF OnFolder, Returns
  <1>9. CASE ApiFinish
    <2>1. pass.diff = NoDiff
      BY <1>9 DEF ApiFinish, LeftInv, OptionsLast
    <2>2. pass'.pc = "write" /\ pass'.diff = NoDiff
      BY <1>9, <1>t, <2>1 DEF ApiFinish, Pass
    <2> QED
      BY <2>2 DEF LeftInv, DiffSound, AllLeft, OptionsLast, Working, NoDiff
  <1>10. CASE ApiCallFails
    BY <1>10, ErrorLeaves DEF ApiCallFails
  <1>11. CASE ApiWrite \/ ApiConflict \/ ApiAbort
    BY <1>11, <1>i DEF ApiWrite, ApiConflict, ApiAbort
  <1>12. CASE InstStep \/ InstAbort \/ CacheDeliver \/ SpecEdit \/ AvailabilityChange
    BY <1>12, <1>k DEF InstStep, InstStart, InstFinish, InstConflict, InstAbort, CacheDeliver,
       SpecEdit, AvailabilityChange
  <1>13. ASSUME NEW n \in Libs, NEW f, HandEdit(n, f) PROVE LeftInv'
    <2>1. pass'.jf = pass.jf /\ pass'.diff = pass.diff /\ ~pass'.quiet /\ pass'.pc = pass.pc
      BY <1>13, <1>t DEF HandEdit, Pass
    <2> QED
      BY <2>1 DEF LeftInv, DiffSound, AllLeft, OptionsLast, Working
  <1>14. ASSUME NEW n \in Libs, ServerScans(n) PROVE LeftInv'
    <2>1. /\ pass' = pass
          /\ \A m \in Libs : /\ folders'[m].exists = folders[m].exists
                            /\ folders'[m].locs = folders[m].locs
                            /\ folders'[m].ro = folders[m].ro
      BY <1>14, <1>t DEF ServerScans, Folder
    <2>2. \A m \in Declared(pass.jf.spec) : LeftFor(m, folders[m]) => LeftFor(m, folders[m])'
      BY <2>1 DEF Declared, LeftFor
    <2>3. \A m \in pass.jf.status.managed : PruneLeft(m, folders[m]) => PruneLeft(m, folders[m])'
      BY <2>1, <1>t DEF PruneLeft
    <2> QED
      BY <2>1, <2>2, <2>3 DEF LeftInv, DiffSound, AllLeft, OptionsLast, Working
  <1>15. CASE UNCHANGED vars
    BY <1>15, <1>k DEF vars
  <1> QED
    BY <1>1, <1>2, <1>3, <1>4, <1>5, <1>6, <1>7, <1>8, <1>9, <1>10, <1>11, <1>12, <1>13,
       <1>14, <1>15
    DEF Next, ApiStep, ApiCall, HandCreate, HandDelete

\* A library pass that reports success has brought every declared library to its
\* path, pruned what it was to prune and enforced the options of every library
\* that its last list showed with an ItemId; the options of the others, which
\* jellyfinapi_controller.go:317 passes over, are all that it may leave undone
\* (unless somebody edited libraries by hand meanwhile). For all libraries, paths
\* and specs.
THEOREM SuccessIsApplied == Spec => CompletedPassApplied
  <1> DEFINE Applied ==
        /\ PathsAsDeclared(pass.jf.spec)
        /\ \A n \in Declared(pass.jf.spec) \ pass.skipped : OptionsAsDeclared(pass.jf.spec, n)
        /\ pass.jf.spec.prune =>
             \A n \in pass.jf.status.managed \ Declared(pass.jf.spec) : ~folders[n].exists
  <1>1. Init => LeftInv
    BY NotWorking DEF Init, IdlePass
  <1>2. TypeOK /\ LeftInv /\ [Next]_vars => [ApiFinish /\ pass.quiet => Applied]_vars
    <2> SUFFICES ASSUME TypeOK, LeftInv, ApiFinish, pass.quiet
                 PROVE  Applied
      OBVIOUS
    <2>1. Working /\ pass.pc = "options" /\ pass.opts = {} /\ pass.diff = NoDiff
      BY DEF ApiFinish, LeftInv, OptionsLast, Working
    <2>2. ASSUME NEW n \in Declared(pass.jf.spec)
          PROVE  /\ folders[n].exists /\ folders[n].locs = {pass.jf.spec.media[n]}
                 /\ n \notin pass.skipped => OptionsAsDeclared(pass.jf.spec, n)
      BY <2>1 DEF LeftInv, AllLeft, LeftFor, NoDiff, OptionsAsDeclared
    <2>3. ASSUME pass.jf.spec.prune, NEW n \in pass.jf.status.managed \ Declared(pass.jf.spec)
          PROVE  ~folders[n].exists
      BY <2>1, <2>3 DEF LeftInv, AllLeft, PruneLeft, NoDiff
    <2> QED
      BY <2>2, <2>3 DEF PathsAsDeclared
  <1> QED
    BY <1>1, <1>2, InitTypeOK, NextTypeOK, NextLeft, PTL DEF Spec, CompletedPassApplied
=============================================================================
