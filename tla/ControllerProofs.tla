----------------------------- MODULE ControllerProofs -----------------------------
(***************************************************************************)
(* Proofs about the CounterMeasure reconciler, for every set of specs and   *)
(* any number of edits and restarts.                                        *)
(***************************************************************************)
EXTENDS CounterMeasureController, FiniteSetTheorems, TLAPS

(* Uids and generations are never ahead of the edits.                       *)
EditsOK == server.uid <= edits /\ server.gen <= edits

(* What Validate lets through is valid until Add has installed it.          *)
ValidOK ==
    /\ pc = "add" => ValidateSpec(cm.spec)
    /\ installed # Nothing => ValidateSpec(installed.spec)

(* Reconcile only reports success on what the manager has.                  *)
SuccessOK == pc = "success" => Exists

ControllerInv == TypeOK /\ EditsOK /\ ValidOK /\ SuccessOK

-------------------------------------------------------------------------------
(* An action that ValidateSpec accepts defines one field, and the registry  *)
(* makes the type of that field of it.                                      *)
LEMMA ValidActionCreates ==
  ASSUME NEW a \in Actions, ValidateAction(a)
  PROVE  a.defines = {RegistryCreate(a)} /\ RegistryCreate(a) # Misconfigured
<1>1. a.defines \subseteq Kinds
  BY DEF Actions
<1>2. /\ DOMAIN PointerFields = 1 .. 4 /\ PointerFields[1] = "delete"
      /\ PointerFields[2] = "patch" /\ PointerFields[3] = "debug"
      /\ PointerFields[4] = "restart"
  BY DEF PointerFields
<1>3. Kinds = {"delete", "patch", "debug", "restart"}
  BY <1>2 DEF Kinds
<1>4. PICK k : a.defines = {k}
  <2>1. IsFiniteSet({"delete", "patch", "debug", "restart"})
    <3>1. IsFiniteSet({}) /\ IsFiniteSet({} \union {"delete"})
      BY FS_EmptySet, FS_AddElement
    <3>2. IsFiniteSet(({} \union {"delete"}) \union {"patch"})
      BY <3>1, FS_AddElement
    <3>3. IsFiniteSet((({} \union {"delete"}) \union {"patch"}) \union {"debug"})
      BY <3>2, FS_AddElement
    <3>4. IsFiniteSet(((({} \union {"delete"}) \union {"patch"}) \union {"debug"})
                      \union {"restart"})
      BY <3>3, FS_AddElement
    <3>5. {"delete", "patch", "debug", "restart"} =
          ((({} \union {"delete"}) \union {"patch"}) \union {"debug"}) \union {"restart"}
      OBVIOUS
    <3> QED
      BY <3>4, <3>5
  <2>2. IsFiniteSet(a.defines) /\ Cardinality(a.defines) = 1
    BY <1>1, <1>3, <2>1, FS_Subset DEF ValidateAction
  <2> QED
    BY <2>2, FS_Singleton
<1>5. k \in Kinds
  BY <1>1, <1>4
<1> DEFINE set == {i \in DOMAIN PointerFields : PointerFields[i] \in a.defines}
<1>6. PICK i \in 1 .. 4 : PointerFields[i] = k
  BY <1>2, <1>3, <1>5
<1>7. set = {i}
  BY <1>2, <1>4, <1>6
<1>8. (CHOOSE j \in set : \A l \in set : j <= l) = i
  BY <1>6, <1>7
<1>9. RegistryCreate(a) = k
  BY <1>6, <1>7, <1>8 DEF RegistryCreate
<1> QED
  BY <1>3, <1>4, <1>5, <1>9 DEF Misconfigured

(* A runner for a valid spec has an action for each entry, and it is all    *)
(* that the entry defines.                                                  *)
LEMMA ValidSpecRuns ==
  ASSUME NEW spec, spec.actions \in Seq(Actions), ValidateSpec(spec)
  PROVE  /\ Len(NewRunner(spec)) = Len(spec.actions) /\ spec.actions # <<>>
         /\ \A i \in DOMAIN spec.actions :
                spec.actions[i].defines = {NewRunner(spec)[i]}
<1> DEFINE acts == spec.actions
           impls == [i \in DOMAIN acts |-> RegistryCreate(acts[i])]
<1>1. \A i \in DOMAIN acts : acts[i] \in Actions /\ ValidateAction(acts[i])
  BY DEF ValidateSpec
<1>2. \A i \in DOMAIN acts : /\ acts[i].defines = {RegistryCreate(acts[i])}
                             /\ RegistryCreate(acts[i]) # Misconfigured
  BY <1>1, ValidActionCreates
<1>3. NewRunner(spec) = impls
  BY <1>2 DEF NewRunner
<1>4. DOMAIN acts = 1 .. Len(acts) /\ Len(acts) \in Nat
  OBVIOUS
<1>5. DOMAIN impls = 1 .. Len(acts)
  BY <1>4
<1>6. Len(impls) = Len(acts)
  <2>1. impls \in Seq({RegistryCreate(acts[i]) : i \in DOMAIN acts})
    BY <1>4
  <2> HIDE DEF impls, acts
  <2> QED
    BY <1>4, <1>5, <2>1
<1> QED
  BY <1>2, <1>3, <1>6 DEF ValidateSpec

-------------------------------------------------------------------------------
(* The reconciler starts with nothing installed and no resource.            *)
LEMMA InitInv == Init => ControllerInv
<1> SUFFICES ASSUME Init PROVE ControllerInv
  OBVIOUS
<1> USE ControllerAssumption
<1>1. 0 \in 0 .. MaxEdits
  OBVIOUS
<1>2. Nothing \in Copies /\ Absent \in Objects
  BY <1>1 DEF Nothing, Absent, Copies, Objects, Statuses, Times
<1> QED
  <2>1. server.uid = 0 /\ server.gen = 0
    BY DEF Init, Absent
  <2>2. TypeOK
    <3>1. webhooks \in BOOLEAN /\ queued \in BOOLEAN
      BY Zenon DEF Init
    <3>2. rounds \in 0 .. 2 /\ edits \in 0 .. MaxEdits
      BY DEF Init
    <3> QED
      BY <1>2, <3>1, <3>2, Zenon DEF Init, TypeOK
  <2>3. EditsOK
    BY <2>1 DEF Init, EditsOK
  <2>4. ValidOK /\ SuccessOK
    BY DEF Init, ValidOK, SuccessOK
  <2> QED
    BY <2>2, <2>3, <2>4 DEF ControllerInv

(* Every step, of the users, the cluster and the reconciler, preserves it.  *)
LEMMA StepInv == ControllerInv /\ [Next]_vars => ControllerInv'
<1> SUFFICES ASSUME ControllerInv, [Next]_vars PROVE ControllerInv'
  OBVIOUS
<1> USE ControllerAssumption DEF ControllerInv, Exists
<1>0. Nothing \in Copies /\ Absent \in Objects /\ EmptySpec.event = FALSE
  BY DEF Nothing, Absent, Copies, Objects, Statuses, Times, EmptySpec
<1>a. \A obj \in Objects : Copy(obj) \in Copies
  BY DEF Objects, Copies, Copy
<1>1. ASSUME NEW spec \in Specs, Create(spec) \/ UpdateSpec(spec)
      PROVE  ControllerInv'
  <2>1. Stored(spec) \in Specs \union {EmptySpec}
    BY DEF Stored, DefaultCounterMeasure
  <2>2. server' \in Objects /\ EditsOK' /\ edits' \in 0 .. MaxEdits
    <3>1. CASE Create(spec)
      <4>1. edits + 1 \in 1 .. MaxEdits /\ edits' = edits + 1
        BY <3>1 DEF Create, Edit, TypeOK
      <4>2. server' = [uid |-> edits + 1, gen |-> 1, spec |-> Stored(spec),
                       status |-> "none", observed |-> 0, time |-> "past"]
        BY <3>1 DEF Create, Edit, Absent
      <4> HIDE DEF ControllerInv
      <4>3. server' \in Objects /\ server'.uid = edits + 1 /\ server'.gen = 1
        BY <4>1, <4>2, <2>1 DEF Objects, Statuses, Times
      <4> QED
        BY <4>1, <4>3 DEF EditsOK
    <3>2. CASE UpdateSpec(spec)
      <4>1. /\ edits \in Nat /\ edits + 1 \in 1 .. MaxEdits /\ edits' = edits + 1
            /\ server.uid \in 0 .. edits /\ server.gen \in 0 .. edits
        BY <3>2 DEF UpdateSpec, Edit, TypeOK, EditsOK, Objects
      <4>2. server' = [server EXCEPT !.gen = server.gen + 1, !.spec = Stored(spec)]
        BY <3>2 DEF UpdateSpec, Edit
      <4>3. server.gen + 1 \in 0 .. MaxEdits /\ server \in Objects
        BY <4>1 DEF TypeOK
      <4>4. server' \in Objects /\ server'.uid = server.uid
            /\ server'.gen = server.gen + 1
        BY <4>2, <4>3, <2>1 DEF Objects
      <4>5. edits' \in 0 .. MaxEdits /\ server.gen + 1 <= edits'
            /\ server.uid <= edits'
        BY <4>1
      <4> HIDE DEF ControllerInv
      <4>6. server'.uid <= edits' /\ server'.gen <= edits'
        BY <4>4, <4>5, Zenon
      <4> QED
        BY <4>4, <4>5, <4>6, Zenon DEF EditsOK
    <3> QED
      BY <1>1, <3>1, <3>2
  <2>3. UNCHANGED <<webhooks, cache, queued, pc, cm, installed, rounds>>
    BY <1>1 DEF Create, UpdateSpec, Edit
  <2> QED
    BY <2>2, <2>3 DEF TypeOK, ValidOK, SuccessOK
<1>2. ASSUME Delete PROVE ControllerInv'
  BY <1>2, <1>0 DEF Delete, Edit, TypeOK, EditsOK, ValidOK, SuccessOK, Absent
<1>3. ASSUME Restart PROVE ControllerInv'
  <2>1. TypeOK'
    BY <1>3, <1>0 DEF Restart, TypeOK
  <2>2. EditsOK'
    BY <1>3 DEF Restart, TypeOK, EditsOK, Objects
  <2> QED
    BY <1>3, <2>1, <2>2 DEF Restart, ValidOK, SuccessOK
<1>4. ASSUME Watch \/ Resync PROVE ControllerInv'
  BY <1>4 DEF Watch, Resync, TypeOK, EditsOK, ValidOK, SuccessOK
<1>5. ASSUME Tick PROVE ControllerInv'
  <2>1. server' \in Objects /\ cache' \in Objects /\ EditsOK'
    BY <1>5 DEF Tick, TypeOK, Objects, Times, EditsOK
  <2> QED
    BY <1>5, <2>1 DEF Tick, TypeOK, ValidOK, SuccessOK
<1>6. ASSUME NotFound PROVE ControllerInv'
  BY <1>6, <1>0 DEF NotFound, TypeOK, EditsOK, ValidOK, SuccessOK
<1>7. ASSUME Found PROVE ControllerInv'
  BY <1>7, <1>a DEF Found, TypeOK, EditsOK, ValidOK, SuccessOK
<1>8. ASSUME NEW status \in Statuses, NEW observed \in 0 .. MaxEdits,
             NEW next \in {"idle", "validate"},
             UpdateStatus(status, observed, "now", next), cm' \in Copies
      PROVE  ControllerInv'
  <2>1. server' \in Objects /\ EditsOK'
    BY <1>8 DEF UpdateStatus, TypeOK, Objects, Times, EditsOK
  <2> QED
    BY <1>8, <2>1 DEF UpdateStatus, TypeOK, ValidOK, SuccessOK
<1>9. ASSUME MarkInitializing PROVE ControllerInv'
  <2>1. cache.gen \in 0 .. MaxEdits /\ cm' \in Copies
    BY <1>9, <1>a DEF MarkInitializing, TypeOK, Objects
  <2> QED
    BY <1>9, <2>1, <1>8 DEF MarkInitializing, Statuses
<1>10. ASSUME HandleSuccess \/ HandleError PROVE ControllerInv'
  <2>1. cm.gen \in 0 .. MaxEdits /\ cm' \in Copies
    BY <1>10 DEF HandleSuccess, HandleError, TypeOK, Copies
  <2> QED
    BY <1>10, <2>1, <1>8 DEF HandleSuccess, HandleError, Statuses
<1>11. ASSUME Validate PROVE ControllerInv'
  BY <1>11 DEF Validate, TypeOK, EditsOK, ValidOK, SuccessOK
<1>12. ASSUME Add PROVE ControllerInv'
  <2>1. cm # Nothing
    BY <1>12, <1>0 DEF Add, ValidOK, ValidateSpec, ValidateOnEvent, Nothing
  <2> QED
    BY <1>12, <2>1 DEF Add, TypeOK, EditsOK, ValidOK, SuccessOK
<1>13. ASSUME AddFails \/ UpdateFails PROVE ControllerInv'
  BY <1>13 DEF AddFails, UpdateFails, Requeue, TypeOK, EditsOK, ValidOK, SuccessOK
<1>14. ASSUME UNCHANGED vars PROVE ControllerInv'
  BY <1>14 DEF vars, TypeOK, EditsOK, ValidOK, SuccessOK
<1> QED
  BY <1>1, <1>2, <1>3, <1>4, <1>5, <1>6, <1>7, <1>9, <1>10, <1>11, <1>12,
     <1>13, <1>14 DEF Next, Cluster, Reconcile

(* It holds throughout.                                                     *)
LEMMA Invariance == Spec => []ControllerInv
  BY InitInv, StepInv, PTL DEF Spec

-------------------------------------------------------------------------------
(* The resource, the cache and what Reconcile keeps of them have their      *)
(* types: no generation or uid outgrows the edits.                          *)
THEOREM TypeCorrect == Spec => []TypeOK
  BY Invariance, PTL DEF ControllerInv

(* Whatever Reconcile installs, from a cache that lags and with edits       *)
(* between isValid and Manager.Add, is something NewRunner makes a complete *)
(* runner of.                                                               *)
THEOREM InstalledAreRunnable == Spec => []InstalledRuns
<1>1. ControllerInv => InstalledRuns
  <2> SUFFICES ASSUME ControllerInv, Exists
               PROVE  /\ Len(NewRunner(installed.spec)) = Len(installed.spec.actions)
                      /\ installed.spec.actions # <<>>
                      /\ \A i \in DOMAIN installed.spec.actions :
                            installed.spec.actions[i].defines
                                = {NewRunner(installed.spec)[i]}
    BY DEF InstalledRuns
  <2>1. ValidateSpec(installed.spec)
    BY DEF ControllerInv, ValidOK, Exists
  <2>2. installed.spec \in Specs
    BY <2>1 DEF ControllerInv, TypeOK, Copies, ValidateSpec, ValidateOnEvent, EmptySpec
  <2>3. installed.spec.actions \in Seq(Actions)
    BY <2>2, ControllerAssumption
  <2> QED
    BY <2>1, <2>3, ValidSpecRuns
<1> QED
  BY <1>1, Invariance, PTL

(* No status turns to Monitoring unless the manager has the countermeasure, *)
(* whatever HandleSuccess, edits, deletions and restarts do in between.     *)
THEOREM MonitoringIsTrue == Spec => MonitoringMeansInstalled
<1>1. ControllerInv /\ [Next]_vars =>
        [server'.status = "Monitoring" /\ server.status # "Monitoring" => Exists]_vars
  <2> SUFFICES ASSUME ControllerInv, Next, server'.status = "Monitoring",
                      server.status # "Monitoring"
               PROVE  Exists
    OBVIOUS
  <2> USE DEF ControllerInv
  <2>1. ASSUME NEW spec \in Specs, Create(spec) PROVE FALSE
    BY <2>1 DEF Create, Edit, Absent
  <2>2. ASSUME NEW spec \in Specs, UpdateSpec(spec) PROVE FALSE
    BY <2>2 DEF UpdateSpec, Edit, TypeOK, Objects
  <2>3. ASSUME Delete PROVE FALSE
    BY <2>3 DEF Delete, Edit, Absent
  <2>4. ASSUME Tick PROVE FALSE
    BY <2>4 DEF Tick, TypeOK, Objects
  <2>5. ASSUME MarkInitializing \/ HandleError PROVE FALSE
    BY <2>5 DEF MarkInitializing, HandleError, UpdateStatus, TypeOK, Objects
  <2>6. ASSUME HandleSuccess PROVE Exists
    BY <2>6 DEF HandleSuccess, SuccessOK
  <2>7. ASSUME \/ Restart \/ Watch \/ Resync \/ NotFound \/ Found \/ Validate
               \/ Add \/ AddFails \/ UpdateFails
        PROVE  FALSE
    BY <2>7 DEF Restart, Watch, Resync, NotFound, Found, Validate, Add, AddFails,
                UpdateFails, Requeue
  <2> QED
    BY <2>1, <2>2, <2>3, <2>4, <2>5, <2>6, <2>7 DEF Next, Cluster, Reconcile
<1> QED
  BY <1>1, Invariance, PTL DEF Spec, MonitoringMeansInstalled
===============================================================================
