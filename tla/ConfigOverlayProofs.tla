------------------------ MODULE ConfigOverlayProofs ------------------------
(***************************************************************************)
(* Proofs about the settings stages: types, that a condition claims no     *)
(* more than what is in force, and that a POST of a whole document changes *)
(* only what the spec declares.                                            *)
(***************************************************************************)
EXTENDS ConfigOverlay, TLAPS

\* Applied, of any document.
AppliedTo(doc, s, d) ==
  /\ \A k \in Managed(s, d) : doc[k] = s.want[k]
  /\ d = 1 /\ "library" \in s.blocks /\ s.readOnly =>
       \A k \in ROKeys \ Managed(s, d) : doc[k] = ROValue

\* The keys a stage may change.
Owned(s, d) == Managed(s, d) \cup (IF d = 1 /\ s.readOnly THEN ROKeys ELSE {})

\* What is posted is applied, and apart from what the stage owns and what was
\* touched since, it is what the server has.
BodyApplied == pass.pc = "post" => AppliedTo(pass.body, pass.jf.spec, pass.stage)
Tracks(s, rec) ==
  \A k \in KeysOf(rec.stage) :
    k \in Owned(s, rec.stage) \cup rec.touched \/ rec.body[k] = server[k]
BodiesTrack ==
  /\ pass.pc = "post" => Tracks(pass.jf.spec, pass)
  /\ late.pending => Tracks(late.spec, late)

\* Generations count from 1, so that 0 is no generation of an object.
GenPositive == obj.gen > 0 /\ cache.gen > 0

ConfigInv == TypeOK /\ GenPositive /\ CopiesHonest /\ BodyApplied

----------------------------------------------------------------------------
(* Documents *)

\* The values that stand for nothing.
LEMMA ValueTypes ==
  /\ NoDoc \in Document /\ NoSpec \in SpecBody /\ NoConds \in Conds /\ NoObject \in Object
  /\ IdlePass \in Pass /\ NoLate \in Late /\ IdleInst \in InstPass
  <1> USE ConfigAssumption
  <1>1. NoDoc \in Document
    BY DEF NoDoc, Document
  <1>2. NoSpec \in SpecBody
    BY <1>1 DEF NoSpec, SpecBody
  <1>3. NoConds \in Conds
    BY DEF NoConds, Conds, Stages
  <1>4. NoObject \in Object
    BY <1>2, <1>3 DEF NoObject, Object
  <1>5. IdlePass \in Pass
    BY <1>1, <1>4 DEF IdlePass, Pass, Stages
  <1>6. NoLate \in Late
    BY <1>1, <1>2 DEF NoLate, Late, Stages
  <1>7. IdleInst \in InstPass
    BY <1>3 DEF IdleInst, InstPass
  <1> QED
    BY <1>1, <1>2, <1>3, <1>4, <1>5, <1>6, <1>7

\* Hardening and overlay yield documents.
LEMMA OverlayType ==
  ASSUME NEW s \in SpecBody, NEW d \in Stages, NEW doc \in Document
  PROVE  Hardened(s, d, doc) \in Document /\ Overlay(s, d, doc) \in Document
  <1> USE ConfigAssumption
  <1>1. Hardened(s, d, doc) \in Document
    BY DEF Hardened, Document
  <1>2. s.want \in Document
    BY DEF SpecBody
  <1>3. Overlay(s, d, doc) \in Document
    BY <1>1, <1>2 DEF Overlay, Document
  <1> QED
    BY <1>1, <1>3

\* EnforceReadOnlyOptions comes before the declared options, so that the
\* outcome of the two has the declared values and, elsewhere, the hardened ones.
LEMMA OverlayApplies ==
  ASSUME NEW s \in SpecBody, NEW d \in Stages, NEW doc \in Document
  PROVE  /\ AppliedTo(Overlay(s, d, doc), s, d)
         /\ \A k \in Keys : k \in Owned(s, d) \/ Overlay(s, d, doc)[k] = doc[k]
         /\ ~Changed(s, d, doc) => doc = Overlay(s, d, doc)
  <1>1. \A k \in Keys : Overlay(s, d, doc)[k] =
          IF k \in Managed(s, d) THEN s.want[k]
          ELSE IF d = 1 /\ s.readOnly /\ k \in ROKeys THEN ROValue ELSE doc[k]
    BY DEF Overlay, Hardened
  <1>2. Managed(s, d) \subseteq Keys /\ ROKeys \subseteq Keys
    BY ConfigAssumption DEF Managed, KeysOf
  <1>3. AppliedTo(Overlay(s, d, doc), s, d)
    BY <1>1, <1>2 DEF AppliedTo
  <1>4. \A k \in Keys : k \in Owned(s, d) \/ Overlay(s, d, doc)[k] = doc[k]
    BY <1>1 DEF Owned
  <1>5. ~Changed(s, d, doc) => doc = Overlay(s, d, doc)
    BY DEF Changed
  <1> QED
    BY <1>3, <1>4, <1>5

\* The hardened options belong to the first document.
LEMMA OwnedKeys ==
  /\ ROKeys \subseteq KeysOf(1)
  /\ \A s, d : Managed(s, d) \subseteq KeysOf(d) /\ Owned(s, d) \subseteq KeysOf(d)
  <1>1. DocOf["library"] = 1
    BY DEF DocOf
  <1>2. ROKeys \subseteq KeysOf(1)
    BY <1>1, ConfigAssumption DEF KeysOf
  <1> QED
    BY <1>2 DEF Managed, Owned

\* Whether a stage is applied depends on its own document alone.
LEMMA AppliedAgree ==
  ASSUME NEW s, NEW d, NEW a, NEW b, \A k \in KeysOf(d) : a[k] = b[k], AppliedTo(a, s, d)
  PROVE  AppliedTo(b, s, d)
  BY OwnedKeys DEF AppliedTo

\* A POST applies its own stage and leaves the others as they were.
LEMMA PostedDocument ==
  ASSUME server \in Document, NEW d \in Stages, NEW body \in Document
  PROVE  /\ Posted(d, body) \in Document
         /\ \A k \in KeysOf(d) : Posted(d, body)[k] = body[k]
         /\ \A k \in Keys : k \in KeysOf(d) \/ Posted(d, body)[k] = server[k]
         /\ \A e \in Stages : e # d => \A k \in KeysOf(e) : Posted(d, body)[k] = server[k]
  <1>1. \A e : KeysOf(e) \subseteq Keys
    BY DEF KeysOf
  <1>2. \A k \in Keys : Posted(d, body)[k] = IF k \in KeysOf(d) THEN body[k] ELSE server[k]
    BY DEF Posted
  <1>3. Posted(d, body) \in Document
    BY DEF Posted, Document
  <1>4. \A e \in Stages : e # d => \A k \in KeysOf(e) : k \notin KeysOf(d)
    BY DEF KeysOf
  <1> QED
    BY <1>1, <1>2, <1>3, <1>4

----------------------------------------------------------------------------
(* Passes *)

\* The stages that are passed over: they ask nothing, and their condition is
\* set all the same.
LEMMA OnwardFields ==
  ASSUME NEW o \in Object, NEW d \in 0..4
  PROVE  /\ Onward(o, d) \in Pass
         /\ Onward(o, d).pc \in {"get", "write"}
         /\ Onward(o, d).jf.gen = o.gen /\ Onward(o, d).jf.spec = o.spec
         /\ \A e \in Stages : \/ Onward(o, d).jf.cond[e] = o.cond[e]
                              \/ Onward(o, d).jf.cond[e] = o.gen /\ e # 1
                                 /\ Managed(o.spec, e) = {}
  <1> DEFINE asking == {e \in Stages : e > d /\ Asks(o.spec, e)}
             next == IF asking = {} THEN 5
                     ELSE CHOOSE e \in asking : \A f \in asking : e <= f
             conds == [e \in Stages |->
                         IF d < e /\ e < next /\ Present(o.spec, e) THEN o.gen ELSE o.cond[e]]
             passed == [o EXCEPT !.cond = conds]
  <1>1. asking # {} => next \in asking /\ \A f \in asking : next <= f
    <2> SUFFICES ASSUME asking # {} PROVE \E e \in asking : \A f \in asking : e <= f
      OBVIOUS
    <2>1. asking \subseteq 1..4
      BY DEF Stages
    <2> HIDE DEF asking
    <2>2. \A f \in asking : f = 1 \/ f = 2 \/ f = 3 \/ f = 4
      BY <2>1
    <2>3. CASE 1 \in asking
      BY <2>2, <2>3
    <2>4. CASE 1 \notin asking /\ 2 \in asking
      BY <2>2, <2>4
    <2>5. CASE 1 \notin asking /\ 2 \notin asking /\ 3 \in asking
      BY <2>2, <2>5
    <2>6. CASE 1 \notin asking /\ 2 \notin asking /\ 3 \notin asking
      BY <2>2, <2>6
    <2> QED
      BY <2>3, <2>4, <2>5, <2>6
  <1>2. asking = {} => next = 5
    OBVIOUS
  <1>3. \A e \in Stages : d < e /\ e < next => e \notin asking
    <2>1. \A e \in Stages : e \in Nat
      BY DEF Stages
    <2>2. asking # {} => next \in Nat
      BY <1>1, <2>1
    <2> HIDE DEF next
    <2> QED
      BY <1>1, <1>2, <2>1, <2>2
  <1>4. \A e \in Stages : d < e /\ e < next /\ Present(o.spec, e) =>
                            e # 1 /\ Managed(o.spec, e) = {}
    BY <1>3 DEF Asks
  <1>5. asking # {} => next \in Stages /\ next # 5
    BY <1>1 DEF Stages
  <1> HIDE DEF next
  <1>6. o.gen \in 0..MaxGen /\ o.cond \in [Stages -> 0..MaxGen] /\ o.spec \in SpecBody
    BY DEF Object, Conds
  <1>7. conds \in Conds
    BY <1>6 DEF Conds
  <1>8. passed \in Object /\ passed.gen = o.gen /\ passed.spec = o.spec /\ passed.cond = conds
    BY <1>7 DEF Object
  <1>9. \A e \in Stages : \/ passed.cond[e] = o.cond[e]
                          \/ passed.cond[e] = o.gen /\ e # 1 /\ Managed(o.spec, e) = {}
    BY <1>4, <1>8
  <1>10. Onward(o, d) = IF next = 5 THEN Ended(passed) ELSE Reading(passed, next)
    BY DEF Onward, next
  <1> HIDE DEF passed
  <1>11. /\ Ended(passed) \in Pass /\ Ended(passed).pc = "write" /\ Ended(passed).jf = passed
    BY <1>8, ValueTypes DEF Ended, Pass
  <1>12. next # 5 => /\ Reading(passed, next) \in Pass /\ Reading(passed, next).pc = "get"
                     /\ Reading(passed, next).jf = passed
    BY <1>2, <1>5, <1>8, ValueTypes DEF Reading, Pass
  <1> QED
    BY <1>8, <1>9, <1>10, <1>11, <1>12

\* The condition of the stage that just ended.
LEMMA CondFields ==
  ASSUME NEW o \in Object, NEW d \in Stages, NEW g \in {0, o.gen}
  PROVE  LET n == [o EXCEPT !.cond = [o.cond EXCEPT ![d] = g]] IN
         /\ n \in Object /\ n.gen = o.gen /\ n.spec = o.spec /\ n.cond[d] = g
         /\ \A e \in Stages : e # d => n.cond[e] = o.cond[e]
  <1> DEFINE n == [o EXCEPT !.cond = [o.cond EXCEPT ![d] = g]]
             c == [o.cond EXCEPT ![d] = g]
  <1>1. o.gen \in 0..MaxGen /\ o.cond \in [Stages -> 0..MaxGen] /\ 0 \in 0..MaxGen
    BY ConfigAssumption DEF Object, Conds
  <1>2. c \in Conds /\ c[d] = g /\ \A e \in Stages : e # d => c[e] = o.cond[e]
    BY <1>1 DEF Conds
  <1> HIDE DEF c
  <1>3. n \in Object /\ n.gen = o.gen /\ n.spec = o.spec /\ n.cond = c
    BY <1>2 DEF Object, c
  <1> QED
    BY <1>2, <1>3

\* What the end of a stage does to the pass: a success stamps the generation,
\* also on stages passed over; a failure clears.
LEMMA StageEnds ==
  ASSUME TypeOK
  PROVE  /\ StageDone => /\ pass' \in Pass /\ pass'.pc \in {"get", "write"}
                         /\ pass'.jf.gen = pass.jf.gen /\ pass'.jf.spec = pass.jf.spec
                         /\ \A e \in Stages :
                              \/ pass'.jf.cond[e] = pass.jf.cond[e]
                              \/ /\ pass'.jf.cond[e] = pass.jf.gen
                                 /\ e = pass.stage \/ (e # 1 /\ Managed(pass.jf.spec, e) = {})
         /\ StageError => /\ pass' \in Pass /\ pass'.pc = "write"
                          /\ pass'.jf.gen = pass.jf.gen /\ pass'.jf.spec = pass.jf.spec
                          /\ \A e \in Stages : \/ pass'.jf.cond[e] = pass.jf.cond[e]
                                                 \/ pass'.jf.cond[e] = 0
  <1>1. pass.jf \in Object /\ pass.stage \in Stages /\ pass.stage \in 0..4
    BY DEF TypeOK, Pass, Stages
  <1> DEFINE o == CondTrue(pass.jf, pass.stage)
             z == CondFalse(pass.jf, pass.stage)
  <1>2. /\ o \in Object /\ o.gen = pass.jf.gen /\ o.spec = pass.jf.spec
        /\ o.cond[pass.stage] = pass.jf.gen
        /\ \A e \in Stages : e # pass.stage => o.cond[e] = pass.jf.cond[e]
    BY <1>1, CondFields DEF CondTrue
  <1>3. /\ z \in Object /\ z.gen = pass.jf.gen /\ z.spec = pass.jf.spec
        /\ z.cond[pass.stage] = 0
        /\ \A e \in Stages : e # pass.stage => z.cond[e] = pass.jf.cond[e]
    BY <1>1, CondFields DEF CondFalse
  <1> HIDE DEF o, z
  <1>4. /\ Onward(o, pass.stage) \in Pass /\ Onward(o, pass.stage).pc \in {"get", "write"}
        /\ Onward(o, pass.stage).jf.gen = o.gen /\ Onward(o, pass.stage).jf.spec = o.spec
        /\ \A e \in Stages : \/ Onward(o, pass.stage).jf.cond[e] = o.cond[e]
                             \/ Onward(o, pass.stage).jf.cond[e] = o.gen /\ e # 1
                                /\ Managed(o.spec, e) = {}
    BY <1>1, <1>2, OnwardFields
  <1>5. Ended(z) \in Pass /\ Ended(z).pc = "write" /\ Ended(z).jf = z
    BY <1>3, ValueTypes DEF Ended, Pass
  <1>6. StageDone => pass' = Onward(o, pass.stage)
    BY DEF StageDone, o
  <1>7. StageError => pass' = Ended(z)
    BY DEF StageError, z
  <1>8. ASSUME StageDone
        PROVE  \A e \in Stages :
                 \/ pass'.jf.cond[e] = pass.jf.cond[e]
                 \/ /\ pass'.jf.cond[e] = pass.jf.gen
                    /\ e = pass.stage \/ (e # 1 /\ Managed(pass.jf.spec, e) = {})
    BY <1>2, <1>4, <1>6, <1>8
  <1>9. ASSUME StageError
        PROVE  \A e \in Stages : pass'.jf.cond[e] = pass.jf.cond[e] \/ pass'.jf.cond[e] = 0
    BY <1>3, <1>5, <1>7, <1>9
  <1> QED
    BY <1>2, <1>3, <1>4, <1>5, <1>6, <1>7, <1>8, <1>9

\* Recording what others changed keeps a pass, and a POST under way, as it is.
LEMMA TouchFields ==
  ASSUME TypeOK, NEW new, NEW on \in BOOLEAN
  PROVE  /\ Touch(pass, on, new) \in Pass
         /\ Touch(pass, on, new).jf = pass.jf /\ Touch(pass, on, new).pc = pass.pc
         /\ Touch(pass, on, new).stage = pass.stage /\ Touch(pass, on, new).body = pass.body
         /\ on => Touch(pass, on, new).touched =
                    pass.touched \cup {k \in Keys : new[k] # server[k]}
         /\ Touch(late, on, new) \in Late
         /\ Touch(late, on, new).pending = late.pending
         /\ Touch(late, on, new).spec = late.spec
         /\ Touch(late, on, new).stage = late.stage /\ Touch(late, on, new).body = late.body
         /\ on => Touch(late, on, new).touched =
                    late.touched \cup {k \in Keys : new[k] # server[k]}
  <1>1. pass \in Pass /\ late \in Late
    BY DEF TypeOK
  <1> QED
    BY <1>1 DEF Touch, Pass, Late

----------------------------------------------------------------------------
(* Types *)

\* The initial states are well typed.
LEMMA InitTypeOK == Init => TypeOK
  <1> SUFFICES ASSUME Init PROVE TypeOK
    OBVIOUS
  <1> USE ConfigAssumption
  <1>1. obj \in Object
    BY ValueTypes DEF Init, Object
  <1> QED
    BY <1>1, ValueTypes DEF Init, TypeOK

\* Writing conditions onto the object keeps it an object.
LEMMA WriteType ==
  ASSUME NEW cond \in Conds, obj \in Object
  PROVE  WriteStatus(cond) \in Object
  BY DEF WriteStatus, Object

\* Every step of the API reconciler keeps the types.
LEMMA PassTypeOK ==
  ASSUME TypeOK, PassStep \/ PostTimesOut \/ CallFails \/ Abort
  PROVE  TypeOK'
  <1> USE ConfigAssumption
  <1>a. Fault => faults' \in 0..MaxFaults
    BY DEF Fault, TypeOK
  <1>b. pass.jf \in Object /\ pass.stage \in Stages /\ pass.body \in Document
        /\ pass.touched \in SUBSET Keys /\ pass.jf.spec \in SpecBody /\ pass.jf.cond \in Conds
    BY DEF TypeOK, Pass, Object
  <1>c. cache \in Object /\ obj \in Object /\ server \in Document
    BY DEF TypeOK
  <1>1. CASE Start
    <2>1. Onward(cache, 0) \in Pass
      BY <1>c, OnwardFields
    <2>2. Ended(cache) \in Pass
      BY <1>c, ValueTypes DEF Ended, Pass
    <2>3. pass' \in Pass /\ faults' \in 0..MaxFaults
      BY <1>1, <1>a, <2>1, <2>2 DEF Start, TypeOK
    <2> QED
      BY <1>1, <2>3 DEF Start, TypeOK
  <1>2. CASE GetConfig
    <2>1. CASE Changed(pass.jf.spec, pass.stage, server) /\ ~PassedOver(pass.stage)
      <3>1. Overlay(pass.jf.spec, pass.stage, server) \in Document
        BY <1>b, <1>c, OverlayType
      <3>2. pass' \in Pass /\ clean' = clean
        <4>1. /\ pass' = [pass EXCEPT !.pc = "post",
                                      !.body = Overlay(pass.jf.spec, pass.stage, server)]
              /\ clean' = clean
          BY <1>2, <2>1 DEF GetConfig
        <4> QED
          BY <3>1, <4>1 DEF TypeOK, Pass
      <3> QED
        BY <1>2, <3>2 DEF GetConfig, TypeOK
    <2>2. CASE ~Changed(pass.jf.spec, pass.stage, server) \/ PassedOver(pass.stage)
      <3>1. pass' \in Pass /\ clean' \subseteq Stages
        BY <1>2, <1>b, <2>2, StageEnds DEF GetConfig, TypeOK
      <3> QED
        BY <1>2, <3>1 DEF GetConfig, TypeOK
    <2> QED
      BY <2>1, <2>2
  <1>3. CASE PostConfig
    <2>1. server' \in Document
      BY <1>3, <1>b, <1>c, PostedDocument DEF PostConfig
    <2>2. late.pending \in BOOLEAN
      BY DEF TypeOK, Late
    <2>3. late' \in Late
      BY <1>3, <2>2, TouchFields DEF PostConfig
    <2>4. pass' \in Pass /\ clean' \subseteq Stages /\ faults' \in 0..MaxFaults
      BY <1>3, <1>a, <1>b, StageEnds DEF PostConfig, TypeOK
    <2> QED
      BY <1>3, <2>1, <2>3, <2>4 DEF PostConfig, TypeOK
  <1>4. CASE Write
    <2>1. obj' \in Object
      BY <1>4, <1>b, <1>c, WriteType DEF Write
    <2> QED
      BY <1>4, <2>1, ValueTypes DEF Write, TypeOK
  <1>5. CASE PostTimesOut
    <2>1. late' \in Late
      BY <1>5, <1>b DEF PostTimesOut, Late
    <2> QED
      BY <1>5, <1>a, <2>1, StageEnds DEF PostTimesOut, TypeOK
  <1>6. CASE CallFails
    BY <1>6, <1>a, StageEnds DEF CallFails, TypeOK
  <1>7. CASE Abort
    BY <1>7, <1>a, ValueTypes DEF Abort, TypeOK
  <1> QED
    BY <1>1, <1>2, <1>3, <1>4, <1>5, <1>6, <1>7 DEF PassStep

\* So does every other step.
LEMMA OthersTypeOK ==
  ASSUME TypeOK,
         \/ InstStep \/ CacheDeliver \/ SpecEdit \/ LatePost \/ ServerScans
         \/ \E k \in Keys, v \in HandValues : HandEdit(k, v)
  PROVE  TypeOK'
  <1> USE ConfigAssumption
  <1>a. cache \in Object /\ obj \in Object /\ server \in Document /\ cache.cond \in Conds
    BY DEF TypeOK, Object
  <1>b. late.pending \in BOOLEAN /\ late.stage \in Stages /\ late.body \in Document
    BY DEF TypeOK, Late
  <1>1. CASE InstStart
    <2>1. inst' \in InstPass
      BY <1>1, <1>a DEF InstStart, InstPass
    <2> QED
      BY <1>1, <2>1 DEF InstStart, TypeOK
  <1>2. CASE InstWrite
    <2>1. obj' \in Object
      <3>1. inst.cond \in Conds
        BY DEF TypeOK, InstPass
      <3> QED
        BY <1>2, <1>a, <3>1, WriteType DEF InstWrite
    <2> QED
      BY <1>2, <2>1, ValueTypes DEF InstWrite, TypeOK
  <1>3. CASE CacheDeliver
    BY <1>3 DEF CacheDeliver, TypeOK
  <1>4. CASE SpecEdit
    <2>1. PICK sp \in SpecBody : obj' = [obj EXCEPT !.gen = obj.gen + 1, !.spec = sp]
      BY <1>4 DEF SpecEdit
    <2>2. obj.gen + 1 \in 0..MaxGen
      <3>1. obj.gen < MaxGen /\ obj.gen \in 0..MaxGen
        BY <1>4, <1>a DEF SpecEdit, Object
      <3> QED
        BY <3>1
    <2>3. obj' \in Object
      BY <1>a, <2>1, <2>2 DEF Object
    <2> QED
      BY <1>4, <2>3 DEF SpecEdit, TypeOK
  <1>5. CASE LatePost
    <2>1. server' \in Document
      BY <1>5, <1>a, <1>b, PostedDocument DEF LatePost
    <2>2. pass' \in Pass
      BY <1>5, TouchFields DEF LatePost
    <2> QED
      BY <1>5, <2>1, <2>2, ValueTypes DEF LatePost, TypeOK
  <1>6. ASSUME NEW k \in Keys, NEW v \in HandValues, HandEdit(k, v) PROVE TypeOK'
    <2>1. server' \in Document
      BY <1>6, <1>a DEF HandEdit, Document
    <2>2. pass' \in Pass /\ late' \in Late
      BY <1>6, <1>b, TouchFields DEF HandEdit
    <2>3. hand' \in 0..MaxHand
      BY <1>6 DEF HandEdit, TypeOK
    <2> QED
      BY <1>6, <2>1, <2>2, <2>3 DEF HandEdit, TypeOK
  <1>7. CASE ServerScans
    BY <1>7 DEF ServerScans, TypeOK
  <1> QED
    BY <1>1, <1>2, <1>3, <1>4, <1>5, <1>6, <1>7 DEF InstStep

\* Every variable keeps its type, for all settings, spec bodies and bounds.
THEOREM TypeCorrect == Spec => []TypeOK
  <1>1. TypeOK /\ [Next]_vars => TypeOK'
    <2> SUFFICES ASSUME TypeOK, [Next]_vars PROVE TypeOK'
      OBVIOUS
    <2>1. CASE Next
      BY <2>1, PassTypeOK, OthersTypeOK DEF Next
    <2>2. CASE UNCHANGED vars
      BY <2>2 DEF TypeOK, vars
    <2> QED
      BY <2>1, <2>2
  <1> QED
    BY <1>1, InitTypeOK, PTL DEF Spec

----------------------------------------------------------------------------
(* What the conditions claim *)

\* The generations that are compared are numbers.
LEMMA Generations ==
  ASSUME TypeOK
  PROVE  /\ obj.gen \in Nat /\ cache.gen \in Nat /\ pass.jf.gen \in Nat
         /\ \A c \in ConditionCopies, e \in Stages : c[e] \in Nat
  <1>1. obj \in Object /\ cache \in Object /\ pass.jf \in Object /\ inst.cond \in Conds
    BY DEF TypeOK, Pass, InstPass
  <1>2. obj.gen \in 0..MaxGen /\ cache.gen \in 0..MaxGen /\ pass.jf.gen \in 0..MaxGen
    BY <1>1 DEF Object
  <1>3. \A c \in ConditionCopies : c \in [Stages -> 0..MaxGen]
    BY <1>1 DEF ConditionCopies, Object, Conds
  <1> QED
    BY <1>2, <1>3, ConfigAssumption

\* Applied is AppliedTo of the server's settings.
LEMMA AppliedIs == \A s, d : Applied(s, d) <=> AppliedTo(server, s, d)
  BY DEF Applied, AppliedTo

\* A step of a pass, or of anything that leaves cache and generation alone, is
\* honest if what it newly calls clean is applied by a pass under way, and if
\* every condition is copied, cleared, or stamped by a pass that applied it or
\* left its stage out of the clean ones.
LEMMA HonestStep ==
  ASSUME TypeOK, TypeOK', GenPositive, CopiesHonest,
         cache' = cache, obj'.gen = obj.gen, obj'.spec = obj.spec,
         \/ pass'.pc = "idle" /\ pass'.jf.gen = 0
         \/ pass'.jf.gen = cache.gen /\ pass'.jf.spec = cache.spec
         \/ /\ pass'.jf.gen = pass.jf.gen /\ pass'.jf.spec = pass.jf.spec
            /\ pass'.pc # "idle" => pass.pc # "idle",
         \A e \in clean' :
           \/ e \in clean /\ (Applied(obj.spec, e) => Applied(obj.spec, e)')
           \/ pass.pc # "idle" /\ (pass.jf.spec = obj.spec => Applied(obj.spec, e)'),
         \A c \in ConditionCopies', e \in Stages :
           \/ c[e] = 0
           \/ \E b \in ConditionCopies : c[e] = b[e]
           \/ /\ c[e] = pass'.jf.gen /\ pass'.pc # "idle"
              /\ e \in clean' => Applied(pass.jf.spec, e)'
  PROVE  GenPositive' /\ CopiesHonest'
  <1> USE Generations
  <1>1. Older(cache)' /\ Older(pass.jf)' /\ pass'.jf.gen <= cache'.gen
    BY DEF Older, CopiesHonest, GenPositive
  <1>2. GenPositive'
    BY DEF GenPositive
  <1>3. ASSUME NEW c \in ConditionCopies', NEW e \in Stages
        PROVE  /\ c[e] <= cache'.gen
               /\ pass'.pc # "idle" => c[e] <= pass'.jf.gen
               /\ c[e] = obj'.gen /\ e \in clean' => Applied(obj.spec, e)'
    <2>1. CASE c[e] = 0
      BY <1>2, <2>1 DEF GenPositive
    <2>2. ASSUME NEW b \in ConditionCopies, c[e] = b[e]
          PROVE  /\ c[e] <= cache'.gen
                 /\ pass'.pc # "idle" => c[e] <= pass'.jf.gen
                 /\ c[e] = obj'.gen /\ e \in clean' => Applied(obj.spec, e)'
      <3>1. /\ b[e] <= cache.gen
            /\ pass.pc # "idle" => b[e] <= pass.jf.gen
            /\ b[e] = obj.gen /\ e \in clean => Applied(obj.spec, e)
        BY DEF CopiesHonest
      <3>2. b[e] = obj.gen /\ pass.pc # "idle" => pass.jf.spec = obj.spec
        BY <3>1 DEF CopiesHonest, Older
      <3>3. c[e] = obj.gen /\ e \in clean' => Applied(obj.spec, e)'
        BY <2>2, <3>1, <3>2
      <3>4. pass'.pc # "idle" => c[e] <= pass'.jf.gen
        BY <2>2, <3>1
      <3> QED
        BY <2>2, <3>1, <3>3, <3>4
    <2>3. CASE /\ c[e] = pass'.jf.gen /\ pass'.pc # "idle"
               /\ e \in clean' => Applied(pass.jf.spec, e)'
      BY <1>1, <2>3 DEF Older
    <2> QED
      BY <2>1, <2>2, <2>3
  <1>4. \A c \in ConditionCopies', e \in Stages :
          /\ c[e] <= cache'.gen
          /\ pass'.pc # "idle" => c[e] <= pass'.jf.gen
          /\ c[e] = obj'.gen /\ e \in clean' => Applied(obj.spec, e)'
    BY <1>3
  <1> QED
    BY <1>1, <1>2, <1>4 DEF CopiesHonest

\* A stage that declares nothing is applied as it is, except the libraries.
LEMMA NothingDeclared ==
  ASSUME NEW s, NEW e \in Stages, e # 1, Managed(s, e) = {}
  PROVE  \A doc : AppliedTo(doc, s, e)
  BY DEF AppliedTo

\* The steps of a pass keep the conditions honest.
LEMMA PassHonest ==
  ASSUME ConfigInv, TypeOK', PassStep \/ PostTimesOut \/ CallFails \/ Abort
  PROVE  GenPositive' /\ CopiesHonest' /\ BodyApplied'
  <1> USE DEF ConfigInv
  <1>b. pass.jf \in Object /\ pass.stage \in Stages /\ pass.body \in Document
        /\ pass.jf.spec \in SpecBody /\ cache \in Object /\ server \in Document
    BY DEF TypeOK, Pass, Object
  <1>c. NoObject.gen = 0 /\ \A e \in Stages : NoObject.cond[e] = 0
    BY DEF NoObject, NoConds
  <1>d. IdlePass.pc = "idle" /\ IdlePass.jf = NoObject
    BY DEF IdlePass
  <1>1. CASE Start
    <2>1. /\ pass'.pc \in {"get", "write"}
          /\ pass'.jf.gen = cache.gen /\ pass'.jf.spec = cache.spec
          /\ \A e \in Stages : \/ pass'.jf.cond[e] = cache.cond[e]
                               \/ pass'.jf.cond[e] = cache.gen /\ e # 1
                                  /\ Managed(cache.spec, e) = {}
      <3>0. 0 \in 0..4
        OBVIOUS
      <3>1. CASE pass' = Onward(cache, 0)
        BY <1>b, <3>0, <3>1, OnwardFields, Zenon
      <3>2. CASE pass' = Ended(cache)
        BY <1>b, <3>2 DEF Ended, IdlePass
      <3> QED
        BY <1>1, <3>1, <3>2 DEF Start
    <2>2. UNCHANGED <<obj, cache, server, inst, clean>>
      BY <1>1 DEF Start
    <2>3. \A e \in Stages : e # 1 /\ Managed(cache.spec, e) = {} => Applied(pass.jf.spec, e)'
      BY <2>1, NothingDeclared DEF Applied, AppliedTo
    <2>4. \A c \in ConditionCopies', e \in Stages :
            \/ \E b \in ConditionCopies : c[e] = b[e]
            \/ c[e] = pass'.jf.gen /\ pass'.pc # "idle" /\ Applied(pass.jf.spec, e)'
      BY <2>1, <2>2, <2>3 DEF ConditionCopies
    <2>5. \A e \in clean' : e \in clean /\ (Applied(obj.spec, e) => Applied(obj.spec, e)')
      BY <2>2 DEF Applied
    <2>6. GenPositive' /\ CopiesHonest'
      BY <2>1, <2>2, <2>4, <2>5, HonestStep
    <2> QED
      BY <2>1, <2>6 DEF BodyApplied
  \* A stage that ends after the settings were found or put in force, or after the
  \* library was passed over.
  <1>2. ASSUME StageDone, pass.pc # "idle",
               \A e \in Stages : e # pass.stage => \A k \in KeysOf(e) : server'[k] = server[k],
               \/ /\ AppliedTo(server', pass.jf.spec, pass.stage)
                  /\ clean' = clean \cup {pass.stage}
               \/ clean' = clean \ {pass.stage},
               UNCHANGED <<obj, cache, inst>>
        PROVE  GenPositive' /\ CopiesHonest' /\ BodyApplied'
    <2>1. /\ pass'.pc \in {"get", "write"}
          /\ pass'.jf.gen = pass.jf.gen /\ pass'.jf.spec = pass.jf.spec
          /\ \A e \in Stages :
               \/ pass'.jf.cond[e] = pass.jf.cond[e]
               \/ /\ pass'.jf.cond[e] = pass.jf.gen
                  /\ e = pass.stage \/ (e # 1 /\ Managed(pass.jf.spec, e) = {})
      BY <1>2, StageEnds
    <2>2. \A e \in Stages : e = pass.stage \/ (e # 1 /\ Managed(pass.jf.spec, e) = {}) =>
                              (e \in clean' => Applied(pass.jf.spec, e)')
      BY <1>2, <2>1, NothingDeclared DEF Applied, AppliedTo
    <2>3. \A c \in ConditionCopies', e \in Stages :
            \/ \E b \in ConditionCopies : c[e] = b[e]
            \/ /\ c[e] = pass'.jf.gen /\ pass'.pc # "idle"
               /\ e \in clean' => Applied(pass.jf.spec, e)'
      BY <1>2, <2>1, <2>2 DEF ConditionCopies
    <2>4. \A e \in clean' :
            \/ e \in clean /\ (Applied(obj.spec, e) => Applied(obj.spec, e)')
            \/ pass.pc # "idle" /\ (pass.jf.spec = obj.spec => Applied(obj.spec, e)')
      <3> SUFFICES ASSUME NEW e \in clean, e # pass.stage, Applied(obj.spec, e)
                   PROVE  Applied(obj.spec, e)'
        BY <1>2 DEF Applied, AppliedTo
      <3>1. e \in Stages
        BY DEF TypeOK
      <3>2. AppliedTo(server', obj.spec, e)
        BY <1>2, <3>1, AppliedAgree, AppliedIs
      <3> QED
        BY <1>2, <3>2 DEF Applied, AppliedTo
    <2>5. GenPositive' /\ CopiesHonest'
      BY <1>2, <2>1, <2>3, <2>4, HonestStep
    <2> QED
      BY <2>1, <2>5 DEF BodyApplied
  \* A stage that fails, whether its POST took effect or not.
  <1>3. ASSUME StageError, pass.pc # "idle", UNCHANGED <<obj, cache, inst, clean>>,
               \/ server' = server
               \/ /\ AppliedTo(server', pass.jf.spec, pass.stage)
                  /\ \A e \in Stages : e # pass.stage => \A k \in KeysOf(e) : server'[k] = server[k]
        PROVE  GenPositive' /\ CopiesHonest' /\ BodyApplied'
    <2>1. /\ pass'.pc = "write"
          /\ pass'.jf.gen = pass.jf.gen /\ pass'.jf.spec = pass.jf.spec
          /\ \A e \in Stages : \/ pass'.jf.cond[e] = pass.jf.cond[e]
                               \/ pass'.jf.cond[e] = 0
      BY <1>3, StageEnds
    <2>2. \A c \in ConditionCopies', e \in Stages :
            c[e] = 0 \/ \E b \in ConditionCopies : c[e] = b[e]
      BY <1>3, <2>1 DEF ConditionCopies
    <2>3. \A e \in clean' :
            \/ e \in clean /\ (Applied(obj.spec, e) => Applied(obj.spec, e)')
            \/ pass.pc # "idle" /\ (pass.jf.spec = obj.spec => Applied(obj.spec, e)')
      <3>1. CASE server' = server
        BY <1>3, <3>1 DEF Applied
      <3>2. CASE server' # server
        <4> SUFFICES ASSUME NEW e \in clean, e # pass.stage, Applied(obj.spec, e)
                     PROVE  Applied(obj.spec, e)'
          BY <1>3, <3>2 DEF Applied, AppliedTo
        <4>1. e \in Stages
          BY DEF TypeOK
        <4>2. AppliedTo(server', obj.spec, e)
          BY <1>3, <3>2, <4>1, AppliedAgree, AppliedIs
        <4> QED
          BY <1>3, <4>2 DEF Applied, AppliedTo
      <3> QED
        BY <3>1, <3>2
    <2>4. GenPositive' /\ CopiesHonest'
      BY <1>3, <2>1, <2>2, <2>3, HonestStep
    <2> QED
      BY <2>1, <2>4 DEF BodyApplied
  <1>4. CASE GetConfig
    <2>1. CASE Changed(pass.jf.spec, pass.stage, server) /\ ~PassedOver(pass.stage)
      <3>1. /\ pass'.pc = "post" /\ pass'.jf = pass.jf /\ pass'.stage = pass.stage
            /\ pass'.body = Overlay(pass.jf.spec, pass.stage, server)
        <4>1. pass' = [pass EXCEPT !.pc = "post",
                                   !.body = Overlay(pass.jf.spec, pass.stage, server)]
          BY <1>4, <2>1 DEF GetConfig
        <4> QED
          BY <4>1 DEF TypeOK, Pass
      <3>2. UNCHANGED <<obj, cache, server, inst, clean>> /\ pass.pc # "idle"
        BY <1>4, <2>1 DEF GetConfig
      <3>3. BodyApplied'
        <4>1. AppliedTo(Overlay(pass.jf.spec, pass.stage, server), pass.jf.spec, pass.stage)
          BY <1>b, OverlayApplies
        <4>2. AppliedTo(pass'.body, pass'.jf.spec, pass'.stage)
          BY <3>1, <4>1
        <4> QED
          BY <4>2 DEF BodyApplied, AppliedTo
      <3>4. \A c \in ConditionCopies', e \in Stages : \E b \in ConditionCopies : c[e] = b[e]
        BY <3>1, <3>2 DEF ConditionCopies
      <3>5. \A e \in clean' : e \in clean /\ (Applied(obj.spec, e) => Applied(obj.spec, e)')
        BY <3>2 DEF Applied
      <3>6. GenPositive' /\ CopiesHonest'
        BY <3>1, <3>2, <3>4, <3>5, HonestStep
      <3> QED
        BY <3>3, <3>6
    <2>2. CASE ~Changed(pass.jf.spec, pass.stage, server)
      <3>1. AppliedTo(server, pass.jf.spec, pass.stage)
        <4>1. server = Overlay(pass.jf.spec, pass.stage, server)
          BY <1>b, <2>2, OverlayApplies
        <4> QED
          BY <1>b, <4>1, OverlayApplies
      <3>2. StageDone /\ clean' = clean \cup {pass.stage} /\ pass.pc # "idle"
            /\ UNCHANGED <<obj, cache, inst, server>>
        BY <1>4, <2>2 DEF GetConfig
      <3> QED
        BY <1>2, <3>1, <3>2
    <2>3. CASE Changed(pass.jf.spec, pass.stage, server) /\ PassedOver(pass.stage)
      <3>1. StageDone /\ clean' = clean \ {pass.stage} /\ pass.pc # "idle"
            /\ UNCHANGED <<obj, cache, inst, server>>
        BY <1>4, <2>3 DEF GetConfig
      <3> QED
        BY <1>2, <3>1
    <2> QED
      BY <2>1, <2>2, <2>3
  <1>5. CASE PostConfig
    <2>1. /\ AppliedTo(server', pass.jf.spec, pass.stage)
          /\ \A e \in Stages : e # pass.stage => \A k \in KeysOf(e) : server'[k] = server[k]
      <3>1. AppliedTo(pass.body, pass.jf.spec, pass.stage) /\ server' = Posted(pass.stage, pass.body)
        BY <1>5 DEF PostConfig, BodyApplied
      <3>2. \A k \in KeysOf(pass.stage) : server'[k] = pass.body[k]
        BY <1>b, <3>1, PostedDocument
      <3>3. AppliedTo(server', pass.jf.spec, pass.stage)
        BY <3>1, <3>2, AppliedAgree
      <3> QED
        BY <1>b, <3>1, <3>3, PostedDocument
    <2>2. UNCHANGED <<obj, cache, inst>> /\ pass.pc # "idle"
      BY <1>5 DEF PostConfig
    <2>3. \/ StageDone /\ clean' = clean \cup {pass.stage}
          \/ StageError /\ clean' = clean
      BY <1>5 DEF PostConfig
    <2> QED
      BY <1>2, <1>3, <2>1, <2>2, <2>3
  <1>6. CASE PostTimesOut
    BY <1>3, <1>6 DEF PostTimesOut
  <1>7. CASE CallFails
    BY <1>3, <1>7 DEF CallFails
  <1>8. CASE Write \/ Abort
    <2>1. pass' = IdlePass /\ UNCHANGED <<cache, server, inst, clean>>
      BY <1>8 DEF Write, Abort
    <2>2. obj'.gen = obj.gen /\ obj'.spec = obj.spec /\ obj'.cond \in {obj.cond, pass.jf.cond}
      BY <1>8 DEF Write, Abort, WriteStatus, TypeOK, Object
    <2>3. \A c \in ConditionCopies', e \in Stages :
            c[e] = 0 \/ \E b \in ConditionCopies : c[e] = b[e]
      BY <1>c, <1>d, <2>1, <2>2 DEF ConditionCopies
    <2>4. \A e \in clean' : e \in clean /\ (Applied(obj.spec, e) => Applied(obj.spec, e)')
      BY <2>1, <2>2 DEF Applied
    <2>5. GenPositive' /\ CopiesHonest'
      BY <1>c, <1>d, <2>1, <2>2, <2>3, <2>4, HonestStep
    <2> QED
      BY <1>d, <2>1, <2>5 DEF BodyApplied
  <1> QED
    BY <1>1, <1>4, <1>5, <1>6, <1>7, <1>8 DEF PassStep

\* So do the other reconciler, the cache, the users and a late POST.
LEMMA OthersHonest ==
  ASSUME ConfigInv, TypeOK',
         \/ InstStep \/ CacheDeliver \/ SpecEdit \/ LatePost \/ ServerScans
         \/ \E k \in Keys, v \in HandValues : HandEdit(k, v)
  PROVE  GenPositive' /\ CopiesHonest' /\ BodyApplied'
  <1> USE DEF ConfigInv
  <1>a. /\ server \in Document /\ late.stage \in Stages /\ late.body \in Document
        /\ late.pending \in BOOLEAN /\ clean \subseteq Stages
    BY DEF TypeOK, Late
  <1>b. NoConds \in Conds /\ \A e \in Stages : NoConds[e] = 0
    BY ValueTypes DEF NoConds
  \* Settings of one stage change, which is no longer clean.
  <1>1. ASSUME NEW d, clean' = clean \ {d}, UNCHANGED <<obj, cache, inst>>,
               pass' = Touch(pass, pass.pc = "post", server'),
               \A e \in Stages : e # d => \A k \in KeysOf(e) : server'[k] = server[k]
        PROVE  GenPositive' /\ CopiesHonest' /\ BodyApplied'
    <2>1. /\ pass'.pc = pass.pc /\ pass'.jf = pass.jf
          /\ pass'.stage = pass.stage /\ pass'.body = pass.body
      BY <1>1, TouchFields
    <2>2. \A c \in ConditionCopies', e \in Stages : \E b \in ConditionCopies : c[e] = b[e]
      BY <1>1, <2>1 DEF ConditionCopies
    <2>3. ASSUME NEW e \in clean', Applied(obj.spec, e) PROVE Applied(obj.spec, e)'
      <3>1. AppliedTo(server', obj.spec, e)
        BY <1>1, <1>a, <2>3, AppliedAgree, AppliedIs
      <3> QED
        BY <1>1, <3>1 DEF Applied, AppliedTo
    <2>4. GenPositive' /\ CopiesHonest'
      BY <1>1, <2>1, <2>2, <2>3, HonestStep
    <2> QED
      BY <2>1, <2>4 DEF BodyApplied, AppliedTo
  <1>2. ASSUME NEW k \in Keys, NEW v \in HandValues, HandEdit(k, v)
        PROVE  GenPositive' /\ CopiesHonest' /\ BodyApplied'
    <2>1. \A e \in Stages : e # DocOf[BlockOf[k]] => \A j \in KeysOf(e) : server'[j] = server[j]
      BY <1>2, <1>a DEF HandEdit, KeysOf, Document
    <2> QED
      BY <1>1, <1>2, <2>1 DEF HandEdit
  <1>3. CASE LatePost
    <2>1. \A e \in Stages : e # late.stage => \A k \in KeysOf(e) : server'[k] = server[k]
      BY <1>3, <1>a, PostedDocument DEF LatePost
    <2> QED
      BY <1>1, <1>3, <2>1 DEF LatePost
  <1>4. CASE InstStep
    <2>1. UNCHANGED <<cache, server, pass, clean>>
      BY <1>4 DEF InstStep, InstStart, InstWrite
    <2>2. obj'.gen = obj.gen /\ obj'.spec = obj.spec
      BY <1>4 DEF InstStep, InstStart, InstWrite, WriteStatus, TypeOK, Object
    <2>3. obj'.cond \in ConditionCopies /\ inst'.cond \in ConditionCopies \cup {NoConds}
      <3>1. CASE InstStart
        BY <3>1 DEF InstStart, ConditionCopies
      <3>2. CASE InstWrite
        BY <3>2 DEF InstWrite, WriteStatus, TypeOK, Object, ConditionCopies, IdleInst
      <3> QED
        BY <1>4, <3>1, <3>2 DEF InstStep
    <2>4. \A c \in ConditionCopies', e \in Stages :
            c[e] = 0 \/ \E b \in ConditionCopies : c[e] = b[e]
      BY <1>b, <2>1, <2>3 DEF ConditionCopies
    <2>5. \A e \in clean' : e \in clean /\ (Applied(obj.spec, e) => Applied(obj.spec, e)')
      BY <2>1, <2>2 DEF Applied
    <2>6. GenPositive' /\ CopiesHonest'
      BY <2>1, <2>2, <2>4, <2>5, HonestStep
    <2> QED
      BY <2>1, <2>6 DEF BodyApplied, AppliedTo
  <1>5. CASE CacheDeliver
    <2>1. cache' = obj /\ UNCHANGED <<obj, server, pass, inst, clean>>
      BY <1>5 DEF CacheDeliver
    <2>2. ConditionCopies' \subseteq ConditionCopies
      BY <2>1 DEF ConditionCopies
    <2>3. \A d \in Stages : Applied(obj.spec, d)' <=> Applied(obj.spec, d)
      BY <2>1 DEF Applied
    <2>4. /\ obj.gen \in Nat /\ cache.gen \in Nat /\ pass.jf.gen \in Nat
          /\ \A c \in ConditionCopies, e \in Stages : c[e] \in Nat
      BY Generations
    <2>5. GenPositive' /\ Older(cache)' /\ Older(pass.jf)' /\ pass'.jf.gen <= cache'.gen
      BY <2>1, <2>4 DEF GenPositive, CopiesHonest, Older
    <2>6. \A c \in ConditionCopies, e \in Stages :
            /\ c[e] <= obj.gen
            /\ pass.pc # "idle" => c[e] <= pass.jf.gen
            /\ c[e] = obj.gen /\ e \in clean => Applied(obj.spec, e)
      BY <2>4 DEF CopiesHonest, Older
    <2>7. CopiesHonest'
      BY <2>1, <2>2, <2>3, <2>5, <2>6 DEF CopiesHonest
    <2> QED
      BY <2>1, <2>5, <2>7 DEF BodyApplied, AppliedTo
  <1>6. CASE SpecEdit
    <2>1. UNCHANGED <<cache, server, pass, inst, clean>>
      BY <1>6 DEF SpecEdit
    <2>2. obj'.gen = obj.gen + 1 /\ obj'.cond = obj.cond
      BY <1>6 DEF SpecEdit, TypeOK, Object
    <2>3. ConditionCopies' = ConditionCopies
      BY <2>1, <2>2 DEF ConditionCopies
    <2>4. /\ obj.gen \in Nat /\ cache.gen \in Nat /\ pass.jf.gen \in Nat
          /\ \A c \in ConditionCopies, e \in Stages : c[e] \in Nat
      BY Generations
    <2>5. GenPositive' /\ Older(cache)' /\ Older(pass.jf)' /\ pass'.jf.gen <= cache'.gen
      BY <2>1, <2>2, <2>4 DEF GenPositive, CopiesHonest, Older
    <2>6. \A c \in ConditionCopies, e \in Stages :
            c[e] <= cache.gen /\ (pass.pc # "idle" => c[e] <= pass.jf.gen) /\ c[e] # obj'.gen
      BY <2>2, <2>4 DEF CopiesHonest, Older
    <2>7. CopiesHonest'
      BY <2>1, <2>3, <2>5, <2>6 DEF CopiesHonest
    <2> QED
      BY <2>1, <2>5, <2>7 DEF BodyApplied, AppliedTo
  <1>7. CASE ServerScans
    BY <1>7
    DEF ServerScans, GenPositive, CopiesHonest, ConditionCopies, Older, Applied, BodyApplied,
        AppliedTo
  <1> QED
    BY <1>2, <1>3, <1>4, <1>5, <1>6, <1>7

\* The inductive invariant.
LEMMA ConfigInvariant == Spec => []ConfigInv
  <1>1. Init => ConfigInv
    <2> SUFFICES ASSUME Init PROVE ConfigInv
      OBVIOUS
    <2>1. TypeOK
      BY InitTypeOK
    <2>2. /\ obj.gen = 1 /\ cache = obj /\ obj.cond = NoConds /\ pass.jf = NoObject
          /\ inst.cond = NoConds /\ pass.pc = "idle" /\ clean = {}
      BY DEF Init, IdlePass, IdleInst
    <2>3. NoObject.gen = 0 /\ NoObject.cond = NoConds /\ \A e \in Stages : NoConds[e] = 0
      BY DEF NoObject, NoConds
    <2>4. \A c \in ConditionCopies, e \in Stages : c[e] = 0
      BY <2>2, <2>3 DEF ConditionCopies
    <2> QED
      BY <2>1, <2>2, <2>3, <2>4 DEF ConfigInv, GenPositive, CopiesHonest, Older, BodyApplied
  <1>2. ConfigInv /\ [Next]_vars => ConfigInv'
    <2> SUFFICES ASSUME ConfigInv, [Next]_vars PROVE ConfigInv'
      OBVIOUS
    <2>1. CASE Next
      <3>1. TypeOK'
        BY <2>1, PassTypeOK, OthersTypeOK DEF Next, ConfigInv
      <3> QED
        BY <2>1, <3>1, PassHonest, OthersHonest DEF Next, ConfigInv
    <2>2. CASE UNCHANGED vars
      BY <2>2 DEF ConfigInv, TypeOK, GenPositive, CopiesHonest, ConditionCopies, Older, Applied,
         BodyApplied, AppliedTo, vars
    <2> QED
      BY <2>1, <2>2
  <1> QED
    BY <1>1, <1>2, PTL DEF Spec

\* A stage's condition that is True for the current generation means that its
\* settings are in force, unless somebody else touched them since or the stage
\* passed over a library without an ItemId (jellyfinapi_controller.go:317):
\* whatever is stale, lost, late, aborted or written back by the other reconciler.
THEOREM ConditionsAreHonest == Spec => []ReadyMeansApplied
  <1>1. ConfigInv => ReadyMeansApplied
    BY DEF ConfigInv, CopiesHonest, ConditionCopies, ReadyMeansApplied
  <1> QED
    BY <1>1, ConfigInvariant, PTL

----------------------------------------------------------------------------
(* What a POST changes *)

\* A document that tracked the server still does when what others changed was
\* added to the touched keys.
LEMMA TouchTracks ==
  ASSUME NEW s, NEW rec, NEW new, Tracks(s, rec), new.stage = rec.stage, new.body = rec.body,
         new.touched = rec.touched \cup {k \in Keys : server'[k] # server[k]}
  PROVE  \A k \in KeysOf(new.stage) :
           k \in Owned(s, new.stage) \cup new.touched \/ new.body[k] = server'[k]
  <1>1. \A e : KeysOf(e) \subseteq Keys
    BY DEF KeysOf
  <1> QED
    BY <1>1 DEF Tracks

\* Every step keeps the documents that are, or may still be, posted in track
\* with the server.
LEMMA TrackingKept == TypeOK /\ BodiesTrack /\ [Next]_vars => BodiesTrack'
  <1> SUFFICES ASSUME TypeOK, BodiesTrack, [Next]_vars PROVE BodiesTrack'
    OBVIOUS
  <1>a. /\ pass.jf.spec \in SpecBody /\ pass.stage \in Stages /\ server \in Document
        /\ late.pending \in BOOLEAN
    BY DEF TypeOK, Pass, Object, Late
  <1>b. (StageDone => pass'.pc # "post") /\ (StageError => pass'.pc # "post")
    BY StageEnds
  <1>1. ASSUME UNCHANGED <<server, late>>, pass'.pc # "post" \/ pass' = pass PROVE BodiesTrack'
    BY <1>1 DEF BodiesTrack, Tracks
  <1>2. ASSUME late' = Touch(late, late.pending, server') PROVE late'.pending => Tracks(late.spec, late)'
    <2>1. /\ late'.pending = late.pending /\ late'.spec = late.spec
          /\ late'.stage = late.stage /\ late'.body = late.body
          /\ late.pending => late'.touched = late.touched \cup {k \in Keys : server'[k] # server[k]}
      BY <1>2, <1>a, TouchFields
    <2> SUFFICES ASSUME late.pending PROVE Tracks(late.spec, late)'
      BY <2>1
    <2>2. \A k \in KeysOf(late'.stage) :
            k \in Owned(late.spec, late'.stage) \cup late'.touched \/ late'.body[k] = server'[k]
      BY <2>1, TouchTracks DEF BodiesTrack
    <2> QED
      BY <2>1, <2>2 DEF Tracks
  <1>3. ASSUME pass' = Touch(pass, pass.pc = "post", server')
        PROVE  pass'.pc = "post" => Tracks(pass.jf.spec, pass)'
    <2>1. /\ pass'.pc = pass.pc /\ pass'.jf = pass.jf
          /\ pass'.stage = pass.stage /\ pass'.body = pass.body
          /\ pass.pc = "post" =>
               pass'.touched = pass.touched \cup {k \in Keys : server'[k] # server[k]}
      BY <1>3, TouchFields
    <2> SUFFICES ASSUME pass.pc = "post" PROVE Tracks(pass.jf.spec, pass)'
      BY <2>1
    <2>2. \A k \in KeysOf(pass'.stage) :
            k \in Owned(pass.jf.spec, pass'.stage) \cup pass'.touched \/ pass'.body[k] = server'[k]
      <3>1. Tracks(pass.jf.spec, pass)
        BY DEF BodiesTrack
      <3>2. pass'.touched = pass.touched \cup {k \in Keys : server'[k] # server[k]}
        BY <2>1
      <3> QED
        BY <2>1, <3>1, <3>2, TouchTracks
    <2> QED
      BY <2>1, <2>2 DEF Tracks
  <1>4. CASE Start
    <2>1. pass'.pc # "post"
      <3>0. 0 \in 0..4 /\ cache \in Object
        BY DEF TypeOK
      <3>1. Onward(cache, 0).pc # "post"
        BY <3>0, OnwardFields
      <3>2. Ended(cache).pc # "post"
        BY DEF Ended, IdlePass
      <3> QED
        BY <1>4, <3>1, <3>2 DEF Start
    <2> QED
      BY <1>1, <1>4, <2>1 DEF Start
  <1>5. CASE GetConfig
    <2>1. CASE Changed(pass.jf.spec, pass.stage, server) /\ ~PassedOver(pass.stage)
      <3>1. /\ pass'.jf = pass.jf /\ pass'.stage = pass.stage
            /\ pass'.body = Overlay(pass.jf.spec, pass.stage, server)
        <4>1. pass' = [pass EXCEPT !.pc = "post",
                                   !.body = Overlay(pass.jf.spec, pass.stage, server)]
          BY <1>5, <2>1 DEF GetConfig
        <4> QED
          BY <4>1 DEF TypeOK, Pass
      <3>2. \A k \in Keys : k \in Owned(pass.jf.spec, pass.stage) \/ pass'.body[k] = server[k]
        BY <1>a, <3>1, OverlayApplies
      <3>3. UNCHANGED <<server, late>>
        BY <1>5 DEF GetConfig
      <3> QED
        BY <3>1, <3>2, <3>3 DEF BodiesTrack, Tracks, KeysOf, Owned, Managed
    <2>2. CASE ~Changed(pass.jf.spec, pass.stage, server) \/ PassedOver(pass.stage)
      BY <1>1, <1>5, <1>b, <2>2 DEF GetConfig
    <2> QED
      BY <2>1, <2>2
  <1>6. CASE PostConfig
    BY <1>2, <1>6, <1>b DEF PostConfig, BodiesTrack
  <1>7. CASE PostTimesOut
    <2>1. pass'.pc # "post" /\ server' = server
      BY <1>7, <1>b DEF PostTimesOut
    <2>2. /\ late'.spec = pass.jf.spec /\ late'.stage = pass.stage
          /\ late'.body = pass.body /\ late'.touched = pass.touched /\ pass.pc = "post"
      BY <1>7 DEF PostTimesOut
    <2> QED
      BY <2>1, <2>2 DEF BodiesTrack, Tracks
  <1>8. CASE CallFails
    BY <1>1, <1>8, <1>b DEF CallFails
  <1>9. CASE Write \/ Abort
    BY <1>1, <1>9 DEF Write, Abort, IdlePass
  <1>10. CASE InstStep \/ CacheDeliver \/ SpecEdit \/ ServerScans \/ UNCHANGED vars
    BY <1>1, <1>10 DEF InstStep, InstStart, InstWrite, CacheDeliver, SpecEdit, ServerScans, vars
  <1>11. CASE LatePost
    <2>1. ~late'.pending
      BY <1>11 DEF LatePost, NoLate
    <2> QED
      BY <1>3, <1>11, <2>1 DEF LatePost, BodiesTrack
  <1>12. ASSUME NEW k \in Keys, NEW v \in HandValues, HandEdit(k, v) PROVE BodiesTrack'
    BY <1>2, <1>3, <1>12 DEF HandEdit, BodiesTrack
  <1> QED
    BY <1>4, <1>5, <1>6, <1>7, <1>8, <1>9, <1>10, <1>11, <1>12 DEF Next, PassStep

\* A POST of a document that is in track with the server.
LEMMA PostChangesOnly ==
  ASSUME TypeOK, NEW s, NEW rec, rec.stage \in Stages, rec.body \in Document, Tracks(s, rec),
         server' = Posted(rec.stage, rec.body)
  PROVE  ChangesOnly(s, rec.stage, rec.touched)
  <1>1. /\ \A k \in KeysOf(rec.stage) : server'[k] = rec.body[k]
        /\ \A k \in Keys : k \in KeysOf(rec.stage) \/ server'[k] = server[k]
    BY PostedDocument DEF TypeOK
  <1>2. \A k \in Keys : server'[k] # server[k] => k \in Owned(s, rec.stage) \cup rec.touched
    BY <1>1 DEF Tracks
  <1> QED
    BY <1>2 DEF ChangesOnly, Owned

\* overlayConfig and MergeLibraryOptions never clobber: a POST of the whole
\* document, on time or late, changes only what the spec declares or hardens, or
\* what somebody else changed after it was read.
THEOREM PostsPreserve == Spec => OverlayPreserves
  <1>1. Init => BodiesTrack
    BY DEF Init, BodiesTrack, IdlePass, NoLate
  <1>2. TypeOK /\ BodiesTrack =>
          /\ PostConfig => ChangesOnly(pass.jf.spec, pass.stage, pass.touched)
          /\ LatePost => ChangesOnly(late.spec, late.stage, late.touched)
    <2> SUFFICES ASSUME TypeOK, BodiesTrack
                 PROVE  /\ PostConfig => ChangesOnly(pass.jf.spec, pass.stage, pass.touched)
                        /\ LatePost => ChangesOnly(late.spec, late.stage, late.touched)
      OBVIOUS
    <2>1. /\ pass.stage \in Stages /\ pass.body \in Document
          /\ late.stage \in Stages /\ late.body \in Document
      BY DEF TypeOK, Pass, Late
    <2>2. PostConfig => Tracks(pass.jf.spec, pass) /\ server' = Posted(pass.stage, pass.body)
      BY DEF PostConfig, BodiesTrack
    <2>3. LatePost => Tracks(late.spec, late) /\ server' = Posted(late.stage, late.body)
      BY DEF LatePost, BodiesTrack
    <2> QED
      BY <2>1, <2>2, <2>3, PostChangesOnly
  <1> QED
    BY <1>1, <1>2, TypeCorrect, TrackingKept, PTL DEF Spec, OverlayPreserves

----------------------------------------------------------------------------
(* The overlay is idempotent *)

\* After its own POST, and with nobody else about, a stage has nothing left to
\* post; the one exception is a read-only library whose declared options undo the
\* hardening, where every pass posts again (EnforceReadOnlyOptions, then
\* MergeLibraryOptions, each judged by itself).
THEOREM PostIsIdempotent ==
  ASSUME NEW s \in SpecBody, NEW d \in Stages, server \in Document
  PROVE  Changed(s, d, Posted(d, Overlay(s, d, server))) <=> d = 1 /\ Contradicted(s)
  <1> DEFINE doc == Posted(d, Overlay(s, d, server))
             hard(k) == d = 1 /\ s.readOnly /\ k \in ROKeys
  <1>0. Managed(s, d) \subseteq KeysOf(d) /\ ROKeys \subseteq KeysOf(1) /\ KeysOf(d) \subseteq Keys
    BY OwnedKeys DEF KeysOf
  <1>1. \A k \in Keys : doc[k] = IF k \in Managed(s, d) THEN s.want[k]
                                 ELSE IF hard(k) THEN ROValue ELSE server[k]
    BY <1>0 DEF Posted, Overlay, Hardened
  <1>2. \A k \in Keys : Hardened(s, d, doc)[k] = IF hard(k) THEN ROValue ELSE doc[k]
    BY DEF Hardened
  <1>3. \A k \in Keys : Overlay(s, d, doc)[k] = IF k \in Managed(s, d) THEN s.want[k]
                                                ELSE Hardened(s, d, doc)[k]
    BY DEF Overlay
  <1>4. /\ doc = [k \in Keys |-> doc[k]]
        /\ Hardened(s, d, doc) = [k \in Keys |-> Hardened(s, d, doc)[k]]
        /\ Overlay(s, d, doc) = [k \in Keys |-> Overlay(s, d, doc)[k]]
    BY DEF Posted, Hardened, Overlay
  <1> HIDE DEF doc
  <1>5. ASSUME d = 1, Contradicted(s) PROVE Changed(s, d, doc)
    <2>1. PICK k \in ROKeys \cap Managed(s, 1) : s.want[k] # ROValue
      BY <1>5 DEF Contradicted
    <2>2. k \in Keys /\ hard(k) /\ doc[k] # Hardened(s, d, doc)[k]
      BY <1>0, <1>1, <1>2, <1>5, <2>1 DEF Contradicted
    <2> QED
      BY <2>2 DEF Changed
  <1>6. ASSUME ~(d = 1 /\ Contradicted(s)) PROVE ~Changed(s, d, doc)
    <2>1. \A k \in Keys : Hardened(s, d, doc)[k] = doc[k]
      BY <1>0, <1>1, <1>2, <1>6 DEF Contradicted
    <2>2. Hardened(s, d, doc) = doc
      BY <1>4, <2>1
    <2>3. \A k \in Keys : Overlay(s, d, doc)[k] = Hardened(s, d, doc)[k]
      BY <1>0, <1>1, <1>3, <2>1
    <2>4. Overlay(s, d, doc) = Hardened(s, d, doc)
      BY <1>4, <2>3
    <2> QED
      BY <2>2, <2>4 DEF Changed
  <1> QED
    BY <1>5, <1>6 DEF doc
=============================================================================
