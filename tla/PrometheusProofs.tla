----------------------------- MODULE PrometheusProofs -----------------------------
(***************************************************************************)
(* Proofs about the Prometheus reconciler, for any specs and any number of  *)
(* edits and restarts.                                                      *)
(***************************************************************************)
EXTENDS PrometheusController, TLAPS

(* Uids are those of past edits, and what was read exists.                  *)
Dated(o) == o.uid <= edits /\ (o.uid = 0 <=> o = Absent) /\ (o.uid # 0 => o.gen # 0)

UidsOK ==
    /\ Dated(server) /\ Dated(cache) /\ server.gen <= edits
    /\ es.uid <= edits
    /\ pc \in {"lookup", "add", "success"} => es.uid # 0 /\ es.gen # 0
    /\ \A g \in Edits : producers[g].uid <= edits
    /\ \A u, g \in Edits : launched[<<u, g>>] > 0 => u <= edits

(* A copy of the resource with its uid is of its generation or an earlier   *)
(* one, and has the generation's spec.                                      *)
Follows(uid, gen, pending) ==
    uid = server.uid => /\ gen <= server.gen
                        /\ gen = server.gen => pending = server.spec.pending

SpecsOK ==
    /\ Follows(cache.uid, cache.gen, cache.spec.pending)
    /\ es.uid # 0 => Follows(es.uid, es.gen, es.spec.pending)
    /\ \A g \in Edits : producers[g].uid # 0 =>
           Follows(producers[g].uid, g, producers[g].pending)

(* The cache shows what the reconciler knows of, if it still exists, and    *)
(* what was launched for what the cache shows is registered.                *)
LaunchOK ==
    /\ server.uid # 0 /\ es.uid = server.uid => cache.uid = es.uid
    /\ \A u, g \in Edits : launched[<<u, g>>] > 0 =>
          /\ u = server.uid => u = cache.uid
          /\ u = cache.uid => producers[g].uid # 0
    /\ pc \in {"lookup", "add"} => launched[<<es.uid, es.gen>>] = 0

(* Reconcile reports success only for a generation that is registered.      *)
SuccessOK == pc = "success" => producers[es.gen].uid # 0

PrometheusInv ==
    TypeOK /\ UidsOK /\ SpecsOK /\ LaunchOK /\ SuccessOK /\ LaunchedOnce

-------------------------------------------------------------------------------
(* The constants are what the type invariant takes them for.                *)
LEMMA Constants ==
  /\ MaxEdits \in Nat /\ Absent \in Objects /\ Nothing \in Copies
  /\ NoProducer \in [Edits -> [uid : 0 .. MaxEdits, pending : BOOLEAN]]
  /\ \A g \in Edits : NoProducer[g].uid = 0
  /\ Absent.uid = 0 /\ Absent.gen = 0 /\ Nothing.uid = 0 /\ Nothing.gen = 0
  /\ Absent.status = "none"
<1>1. MaxEdits \in Nat /\ 0 \in 0 .. MaxEdits
  BY PrometheusAssumption
<1>2. NoSpec \in AllSpecs
  BY DEF NoSpec, AllSpecs
<1>3. Absent \in Objects /\ Nothing \in Copies
  BY <1>1, <1>2 DEF Absent, Nothing, Objects, Copies
<1>4. [uid |-> 0, pending |-> FALSE] \in [uid : 0 .. MaxEdits, pending : BOOLEAN]
  BY <1>1
<1>5. NoProducer \in [Edits -> [uid : 0 .. MaxEdits, pending : BOOLEAN]]
      /\ \A g \in Edits : NoProducer[g].uid = 0
  BY <1>4 DEF NoProducer
<1> QED
  BY <1>1, <1>3, <1>5 DEF Absent, Nothing

(* The fields of what is well typed.                                        *)
LEMMA Fields ==
  ASSUME TypeOK
  PROVE  /\ MaxEdits \in Nat /\ edits \in Nat /\ edits <= MaxEdits
         /\ \A o \in Objects : /\ o.uid \in 0 .. MaxEdits /\ o.gen \in 0 .. MaxEdits
                               /\ o.observed \in 0 .. MaxEdits
                               /\ o.spec \in AllSpecs
         /\ es.uid \in 0 .. MaxEdits /\ es.gen \in 0 .. MaxEdits /\ es.spec \in AllSpecs
         /\ \A g \in Edits : producers[g].uid \in 0 .. MaxEdits
         /\ \A u, g \in Edits : launched[<<u, g>>] \in Nat
<1>1. MaxEdits \in Nat /\ edits \in 0 .. MaxEdits
  BY Constants DEF TypeOK
<1>2. \A o \in Objects : /\ o.uid \in 0 .. MaxEdits /\ o.gen \in 0 .. MaxEdits
                         /\ o.observed \in 0 .. MaxEdits /\ o.spec \in AllSpecs
  BY DEF Objects
<1>3. es.uid \in 0 .. MaxEdits /\ es.gen \in 0 .. MaxEdits /\ es.spec \in AllSpecs
  BY DEF TypeOK, Copies
<1>4. \A g \in Edits : producers[g].uid \in 0 .. MaxEdits
  BY DEF TypeOK
<1>5. \A u, g \in Edits : launched[<<u, g>>] \in Nat
  BY DEF TypeOK
<1> QED
  BY <1>1, <1>2, <1>3, <1>4, <1>5

(* The process and the cluster start empty.                                 *)
LEMMA InitInv == Init => PrometheusInv
<1> SUFFICES ASSUME Init PROVE PrometheusInv
  OBVIOUS
<1>1. /\ server = Absent /\ cache = Absent /\ es = Nothing /\ pc = "idle"
      /\ edits = 0 /\ producers = NoProducer
      /\ launched = [o \in Edits \X Edits |-> 0]
      /\ \A u, g \in Edits : launched[<<u, g>>] = 0
  BY DEF Init
<1>2. TypeOK
  <2>1. webhooks \in BOOLEAN
        /\ queued \in BOOLEAN /\ delayed \in BOOLEAN
    BY Zenon DEF Init
  <2>2. launched \in [Edits \X Edits -> Nat] /\ edits \in 0 .. MaxEdits
    BY <1>1, Constants
  <2> QED
    BY <1>1, <2>1, <2>2, Constants DEF TypeOK, Init
<1>3. UidsOK
  BY <1>1, Constants DEF UidsOK, Dated
<1>4. SpecsOK
  BY <1>1, Constants DEF SpecsOK, Follows
<1>5. LaunchOK /\ SuccessOK
  BY <1>1, Constants DEF LaunchOK, SuccessOK
<1>6. LaunchedOnce
  BY <1>1 DEF LaunchedOnce
<1> QED
  BY <1>2, <1>3, <1>4, <1>5, <1>6 DEF PrometheusInv

-------------------------------------------------------------------------------
(* A user's edit: a resource with a uid nobody knows, with a generation     *)
(* nobody knows, or none.                                                   *)
LEMMA StepEdit ==
  ASSUME PrometheusInv,
         \/ \E spec \in Specs : Create(spec) \/ UpdateSpec(spec)
         \/ Delete
  PROVE  PrometheusInv'
<1> USE DEF PrometheusInv
<1>1. /\ edits' = edits + 1 /\ edits < MaxEdits
      /\ UNCHANGED <<webhooks, service, secret>>
      /\ UNCHANGED <<cache, queued, delayed, pc, es, producers, launched>>
  BY DEF Create, UpdateSpec, Delete, Edit, process
<1>2. \A spec \in Specs : Stored(spec) \in AllSpecs
  BY PrometheusAssumption DEF Stored, DefaultPrometheus, AllSpecs
<1>3. /\ server' \in Objects
      /\ (server'.uid = 0 <=> server' = Absent) /\ server'.uid <= edits'
      /\ (server'.uid # 0 => server'.gen # 0) /\ server'.gen <= edits'
      /\ \/ server'.uid = 0
         \/ server'.uid > edits
         \/ server'.uid = server.uid /\ server'.uid # 0 /\ server'.gen > server.gen
  <2>1. CASE Delete
    <3>1. server' = Absent
      BY <2>1 DEF Delete, Edit
    <3>2. edits' \in Nat /\ 0 <= edits'
      BY <1>1, Fields
    <3> QED
      BY <3>1, <3>2, Constants
  <2>2. ASSUME NEW spec \in Specs, Create(spec)
        PROVE  <1>3!:
    <3>1. server' = [uid |-> edits + 1, gen |-> 1, spec |-> Stored(spec),
                     status |-> "none", observed |-> 0]
      BY <2>2 DEF Create, Edit, Absent
    <3>2. edits + 1 \in 1 .. MaxEdits /\ edits \in Nat /\ 1 \in 0 .. MaxEdits
          /\ 0 \in 0 .. MaxEdits
      BY <1>1, Fields
    <3>3. server' \in Objects /\ server'.uid = edits + 1 /\ server'.gen = 1
          /\ server'.spec = Stored(spec)
      BY <1>2, <3>1, <3>2 DEF Objects
    <3> QED
      BY <1>1, <3>2, <3>3, Constants
  <2>3. ASSUME NEW spec \in Specs, UpdateSpec(spec)
        PROVE  <1>3!:
    <3>1. /\ server' = [server EXCEPT !.gen = server.gen + 1, !.spec = Stored(spec)]
          /\ server # Absent
      BY <2>3 DEF UpdateSpec, Edit
    <3>2. /\ server \in Objects /\ server.uid \in 1 .. edits /\ edits \in Nat
          /\ server.gen \in 0 .. edits /\ server.gen + 1 \in 0 .. MaxEdits
      BY <1>1, <3>1, Fields DEF UidsOK, Dated, TypeOK
    <3>3. server' \in Objects /\ server'.uid = server.uid /\ server'.gen = server.gen + 1
          /\ server'.spec = Stored(spec)
      BY <1>2, <3>1, <3>2 DEF Objects
    <3> QED
      BY <1>1, <3>2, <3>3, Constants
  <2> QED
    BY <2>1, <2>2, <2>3
<1>4. TypeOK'
  <2>1. edits' \in 0 .. MaxEdits
    BY <1>1, Fields
  <2> QED
    BY <1>1, <1>3, <2>1 DEF TypeOK
<1>5. UidsOK'
  <2>1. \A n \in Nat : n <= edits => n <= edits'
    BY <1>1, Fields
  <2>2. Dated(server)' /\ server'.gen <= edits'
    BY <1>3 DEF Dated
  <2>3. Dated(cache)'
    <3>1. cache.uid \in Nat
      BY Fields DEF TypeOK
    <3> QED
      BY <1>1, <2>1, <3>1 DEF UidsOK, Dated
  <2>4. es.uid \in Nat /\ \A g \in Edits : producers[g].uid \in Nat
    BY Fields
  <2> QED
    BY <1>1, <2>1, <2>2, <2>3, <2>4 DEF UidsOK, Edits
<1>6. SpecsOK'
  <2>1. ASSUME NEW uid \in 1 .. edits, NEW gen \in 0 .. MaxEdits, NEW pending,
               Follows(uid, gen, pending)
        PROVE  Follows(uid, gen, pending)'
    BY <1>3, <2>1, Fields DEF Follows, TypeOK
  <2>2. cache.uid = 0 => Follows(cache.uid, cache.gen, cache.spec.pending)'
    BY <1>1, <1>3, Constants DEF Follows, UidsOK, Dated
  <2>3. cache.uid # 0 => Follows(cache.uid, cache.gen, cache.spec.pending)'
    BY <1>1, <2>1, Fields DEF SpecsOK, UidsOK, Dated, TypeOK
  <2>4. es.uid # 0 => Follows(es.uid, es.gen, es.spec.pending)'
    BY <1>1, <2>1, Fields DEF SpecsOK, UidsOK
  <2>5. \A g \in Edits : producers[g].uid # 0 =>
           Follows(producers[g].uid, g, producers[g].pending)'
    BY <1>1, <2>1, Fields DEF SpecsOK, UidsOK, Edits
  <2> QED
    BY <1>1, <1>3, <2>2, <2>3, <2>4, <2>5 DEF SpecsOK
<1>7. LaunchOK'
  BY <1>1, <1>3, Fields DEF LaunchOK, UidsOK, Edits, TypeOK
<1>8. SuccessOK' /\ LaunchedOnce'
  BY <1>1 DEF SuccessOK, LaunchedOnce
<1> QED
  BY <1>4, <1>5, <1>6, <1>7, <1>8

(* Watch events, timers, and what changes around the resource.              *)
LEMMA StepWatch ==
  ASSUME PrometheusInv, Watch \/ DelayOver \/ ServiceChanges \/ UNCHANGED vars
  PROVE  PrometheusInv'
<1> USE DEF PrometheusInv
<1>1. /\ UNCHANGED <<webhooks, server, edits, pc, es, producers, launched>>
      /\ cache' = cache \/ cache' = server
  BY DEF Watch, DelayOver, ServiceChanges, world, process, vars
<1>2. TypeOK'
  <2>1. service' \in Services /\ queued' \in BOOLEAN /\ delayed' \in BOOLEAN
    BY DEF Watch, DelayOver, ServiceChanges, world, process, vars, TypeOK
  <2>2. secret' \in Secrets
    BY DEF Watch, DelayOver, ServiceChanges, world, process, vars, TypeOK
  <2> QED
    BY <1>1, <2>1, <2>2 DEF TypeOK
<1>3. UidsOK'
  BY <1>1 DEF UidsOK, Dated
<1>4. SpecsOK'
  <2>1. Follows(server.uid, server.gen, server.spec.pending)
    BY Fields DEF Follows, TypeOK
  <2> QED
    BY <1>1, <2>1 DEF SpecsOK, Follows
<1>5. LaunchOK'
  BY <1>1 DEF LaunchOK
<1>6. SuccessOK' /\ LaunchedOnce'
  BY <1>1 DEF SuccessOK, LaunchedOnce
<1> QED
  BY <1>2, <1>3, <1>4, <1>5, <1>6

(* A process that starts knows what the server has and has launched nothing. *)
LEMMA StepRestart ==
  ASSUME PrometheusInv, Restart \/ Recover
  PROVE  PrometheusInv'
<1> USE DEF PrometheusInv
<1>1. /\ UNCHANGED <<webhooks, server, service, secret>>
      /\ cache' = server /\ queued' = (server # Absent) /\ delayed' = FALSE
      /\ pc' = "idle" /\ es' = Nothing /\ producers' = NoProducer
      /\ launched' = [o \in Edits \X Edits |-> 0]
  BY DEF Restart, Recover, ProcessStarts
<1>2. edits' \in 0 .. MaxEdits /\ edits <= edits' /\ edits \in Nat
  BY Fields DEF Restart, Recover
<1>3. /\ launched' \in [Edits \X Edits -> Nat]
      /\ \A o \in Edits \X Edits : launched'[o] = 0
      /\ \A u, g \in Edits : launched'[<<u, g>>] = 0
  BY <1>1
<1>4. TypeOK'
  <2>1. queued' \in BOOLEAN /\ delayed' \in BOOLEAN
    BY <1>1, Zenon
  <2> QED
    BY <1>1, <1>2, <1>3, <2>1, Constants DEF TypeOK
<1>5. UidsOK'
  <2>1. server.uid \in Nat /\ server.gen \in Nat
    BY Fields DEF TypeOK
  <2>2. Dated(server)' /\ server'.gen <= edits'
    BY <1>1, <1>2, <2>1 DEF UidsOK, Dated
  <2>3. Dated(cache)'
    BY <1>1, <2>2 DEF Dated
  <2> QED
    BY <1>1, <1>2, <1>3, <2>2, <2>3, Constants DEF UidsOK
<1>6. SpecsOK'
  <2>1. server.gen <= server.gen
    BY Fields DEF TypeOK
  <2> QED
    BY <1>1, <2>1, Constants DEF SpecsOK, Follows
<1>7. LaunchOK' /\ SuccessOK' /\ LaunchedOnce'
  BY <1>1, <1>3, Constants DEF LaunchOK, SuccessOK, LaunchedOnce
<1> QED
  BY <1>4, <1>5, <1>6, <1>7

(* Reconcile begins: what the cache shows and Exists denies has not been    *)
(* launched.                                                                *)
LEMMA StepRead ==
  ASSUME PrometheusInv, NotFound \/ Found
  PROVE  PrometheusInv'
<1> USE DEF PrometheusInv
<1>1. UNCHANGED <<webhooks, server, service, secret, edits, cache, delayed,
                  launched>> /\ queued' = FALSE
  BY DEF NotFound, Found, world
<1>2. CASE NotFound
  <2>1. /\ cache = Absent /\ pc' = pc /\ pc = "idle" /\ es' = es
        /\ producers' = NoProducer
    BY <1>2 DEF NotFound
  <2>2. TypeOK'
    BY <1>1, <2>1, Constants DEF TypeOK
  <2>3. UidsOK' /\ SpecsOK'
    BY <1>1, <2>1, Constants, Fields DEF UidsOK, SpecsOK, Dated, Follows
  <2>4. LaunchOK' /\ SuccessOK' /\ LaunchedOnce'
    BY <1>1, <2>1, Constants, Fields
    DEF LaunchOK, SuccessOK, LaunchedOnce, Edits
  <2> QED
    BY <2>2, <2>3, <2>4
<1>3. CASE Found
  <2>1. /\ cache # Absent /\ producers' = producers
        /\ es' = [uid |-> cache.uid, gen |-> cache.gen, spec |-> cache.spec]
        /\ pc' = IF Exists(cache) THEN "success" ELSE "lookup"
    BY <1>3 DEF Found
  <2>2. /\ es'.uid = cache.uid /\ es'.gen = cache.gen /\ es'.spec = cache.spec
        /\ pc' \in {"success", "lookup"}
        /\ pc' = "success" => producers[cache.gen].uid # 0
        /\ pc' = "lookup" => producers[cache.gen].uid = 0
    BY <2>1 DEF Exists
  <2>3. /\ cache.uid \in Edits /\ cache.gen \in Edits /\ cache.spec \in AllSpecs
        /\ cache.uid # 0 /\ cache.gen # 0
        /\ cache.uid \in 0 .. MaxEdits /\ cache.gen \in 0 .. MaxEdits
    BY <2>1, Fields DEF UidsOK, Dated, TypeOK, Edits
  <2>4. TypeOK'
    <3>1. es' \in Copies
      BY <2>1, <2>3 DEF Copies
    <3> QED
      BY <1>1, <2>1, <2>2, <3>1 DEF TypeOK
  <2>5. UidsOK' /\ SpecsOK'
    BY <1>1, <2>1, <2>2, <2>3 DEF UidsOK, SpecsOK, Dated, Follows
  <2>6. LaunchOK'
    <3>1. pc' = "lookup" => launched[<<cache.uid, cache.gen>>] = 0
      BY <2>2, <2>3, Fields DEF LaunchOK
    <3> QED
      BY <1>1, <2>1, <2>2, <2>3, <3>1 DEF LaunchOK
  <2>7. SuccessOK' /\ LaunchedOnce'
    BY <1>1, <2>1, <2>2 DEF SuccessOK, LaunchedOnce
  <2> QED
    BY <2>4, <2>5, <2>6, <2>7
<1> QED
  BY <1>2, <1>3

(* The lookup, and a failed update, change the place only.                  *)
LEMMA StepLookup ==
  ASSUME PrometheusInv, CreateP8sClient \/ UpdateFails
  PROVE  PrometheusInv'
<1> USE DEF PrometheusInv
<1>1. /\ UNCHANGED <<webhooks, server, service, secret, edits, cache, delayed,
                     es, producers, launched>>
      /\ queued' \in BOOLEAN
      /\ \/ pc = "lookup" /\ pc' \in {"error", "add", "crashed"}
         \/ pc' = "idle"
  <2>1. CASE CreateP8sClient
    BY <2>1 DEF CreateP8sClient, world, TypeOK
  <2>2. CASE UpdateFails
    BY <2>2 DEF UpdateFails, world
  <2> QED
    BY <2>1, <2>2
<1>2. TypeOK'
  BY <1>1 DEF TypeOK
<1>3. UidsOK' /\ SpecsOK' /\ LaunchOK' /\ SuccessOK' /\ LaunchedOnce'
  BY <1>1 DEF UidsOK, Dated, SpecsOK, Follows, LaunchOK, SuccessOK, LaunchedOnce
<1> QED
  BY <1>2, <1>3

(* Producers.Add: the first producer of its uid and generation.             *)
LEMMA StepAdd ==
  ASSUME PrometheusInv, Add
  PROVE  PrometheusInv'
<1> USE DEF PrometheusInv
<1>1. /\ UNCHANGED <<webhooks, server, service, secret, edits, cache, delayed,
                     queued, es>>
      /\ pc = "add" /\ pc' = "success"
      /\ producers' = [producers EXCEPT ![es.gen] =
                           [uid |-> es.uid, pending |-> es.spec.pending]]
      /\ launched' = [launched EXCEPT ![<<es.uid, es.gen>>] = @ + 1]
  BY DEF Add, world
<1>2. /\ es.uid \in Edits /\ es.gen \in Edits /\ es.uid # 0
      /\ es.uid \in 0 .. MaxEdits /\ es.spec \in AllSpecs
      /\ launched[<<es.uid, es.gen>>] = 0
  BY <1>1, Fields DEF UidsOK, LaunchOK, Edits
<1>3. /\ producers'[es.gen].uid = es.uid
      /\ producers'[es.gen].pending = es.spec.pending
      /\ \A g \in Edits : g # es.gen => producers'[g] = producers[g]
      /\ producers' \in [Edits -> [uid : 0 .. MaxEdits, pending : BOOLEAN]]
  <2>1. es.spec.pending \in BOOLEAN
    BY <1>2, Zenon DEF AllSpecs
  <2>2. [uid |-> es.uid, pending |-> es.spec.pending]
           \in [uid : 0 .. MaxEdits, pending : BOOLEAN]
    BY <1>2, <2>1, Zenon
  <2> QED
    BY <1>1, <1>2, <2>2 DEF TypeOK
<1>4. /\ launched' \in [Edits \X Edits -> Nat]
      /\ launched'[<<es.uid, es.gen>>] = 1
      /\ \A u, g \in Edits : <<u, g>> # <<es.uid, es.gen>> =>
                                launched'[<<u, g>>] = launched[<<u, g>>]
  BY <1>1, <1>2 DEF TypeOK
<1>5. TypeOK'
  BY <1>1, <1>3, <1>4 DEF TypeOK
<1>6. UidsOK'
  <2>1. \A g \in Edits : producers'[g].uid <= edits
    BY <1>2, <1>3 DEF UidsOK
  <2>2. \A u, g \in Edits : launched'[<<u, g>>] > 0 => u <= edits
    BY <1>2, <1>4 DEF UidsOK
  <2> QED
    BY <1>1, <2>1, <2>2 DEF UidsOK, Dated
<1>7. SpecsOK'
  <2>1. \A g \in Edits : producers'[g].uid # 0 =>
           Follows(producers'[g].uid, g, producers'[g].pending)
    BY <1>2, <1>3 DEF SpecsOK
  <2> QED
    BY <1>1, <2>1 DEF SpecsOK, Follows
<1>8. LaunchOK'
  <2>1. ASSUME NEW u \in Edits, NEW g \in Edits, launched'[<<u, g>>] > 0
        PROVE  /\ u = server.uid => u = cache.uid
               /\ u = cache.uid => producers'[g].uid # 0
    <3>1. CASE <<u, g>> = <<es.uid, es.gen>>
      <4>1. u = es.uid /\ g = es.gen
        BY <3>1
      <4> QED
        BY <1>2, <1>3, <4>1 DEF LaunchOK
    <3>2. CASE <<u, g>> # <<es.uid, es.gen>>
      BY <2>1, <3>2, <1>2, <1>3, <1>4 DEF LaunchOK
    <3> QED
      BY <3>1, <3>2
  <2> QED
    BY <1>1, <2>1 DEF LaunchOK
<1>9. SuccessOK' /\ LaunchedOnce'
  <2>1. ASSUME NEW o \in Edits \X Edits PROVE launched'[o] <= 1
    BY <1>1, <1>2, <1>4 DEF LaunchedOnce, TypeOK
  <2> QED
    BY <1>1, <1>2, <1>3, <2>1 DEF SuccessOK, LaunchedOnce
<1> QED
  BY <1>5, <1>6, <1>7, <1>8, <1>9

(* A status update changes neither the spec nor the generation.             *)
LEMMA StepUpdate ==
  ASSUME PrometheusInv, HandleSuccess \/ HandleErrorAndRequeue
  PROVE  PrometheusInv'
<1> USE DEF PrometheusInv
<1>1. /\ UNCHANGED <<webhooks, service, secret, edits, cache, queued, es,
                     producers, launched>>
      /\ pc' = "idle" /\ cache = server /\ cache # Absent
      /\ \E s \in {"Polling", "Error"} :
            server' = [cache EXCEPT !.status = s, !.observed = es.gen]
      /\ delayed' \in BOOLEAN
  <2>1. CASE HandleSuccess
    BY <2>1 DEF HandleSuccess, UpdateStatus, TypeOK
  <2>2. CASE HandleErrorAndRequeue
    BY <2>2 DEF HandleErrorAndRequeue, UpdateStatus
  <2> QED
    BY <2>1, <2>2
<1>2. /\ server' \in Objects /\ server'.uid = server.uid /\ server'.gen = server.gen
      /\ server'.spec = server.spec
  <2>1. server \in Objects /\ es.gen \in 0 .. MaxEdits
    BY Fields DEF TypeOK
  <2> QED
    BY <1>1, <2>1 DEF Objects
<1>3. server.uid # 0 /\ server' # Absent
  BY <1>1, <1>2, Constants DEF UidsOK, Dated
<1>4. TypeOK'
  BY <1>1, <1>2 DEF TypeOK
<1>5. UidsOK'
  BY <1>1, <1>2, <1>3 DEF UidsOK, Dated
<1>6. SpecsOK'
  BY <1>1, <1>2, <1>3 DEF SpecsOK, Follows
<1>7. LaunchOK' /\ SuccessOK' /\ LaunchedOnce'
  BY <1>1, <1>2 DEF LaunchOK, SuccessOK, LaunchedOnce
<1> QED
  BY <1>4, <1>5, <1>6, <1>7

(* The invariant holds throughout.                                          *)
LEMMA Invariance == Spec => []PrometheusInv
<1>1. PrometheusInv /\ [Next]_vars => PrometheusInv'
  BY StepEdit, StepWatch, StepRestart, StepRead, StepLookup, StepAdd, StepUpdate
  DEF Next, Cluster, Reconcile
<1> QED
  BY <1>1, InitInv, PTL DEF Spec

-------------------------------------------------------------------------------
(* The resource, its copies and the manager's producers have their types.   *)
THEOREM TypeCorrect == Spec => []TypeOK
  BY Invariance, PTL DEF PrometheusInv

(* Exists, asked with the generation of a lagging cache, is enough for no   *)
(* generation of a resource to be given a second producer.                  *)
THEOREM NoSecondProducer == Spec => []LaunchedOnce
  BY Invariance, PTL DEF PrometheusInv

(* Whatever is edited while Reconcile runs, the producer of the present     *)
(* generation has the stored spec's includePending.                         *)
THEOREM ProducersFollowSpecs == Spec => []PollsAsStored
<1>1. PrometheusInv => PollsAsStored
  <2> SUFFICES ASSUME PrometheusInv, server # Absent,
                      producers[server.gen].uid = server.uid
               PROVE  producers[server.gen].pending = server.spec.pending
    BY DEF PollsAsStored
  <2>1. server.gen \in Edits /\ server.uid # 0
    BY Fields DEF PrometheusInv, UidsOK, Dated, TypeOK, Edits
  <2> QED
    BY <2>1 DEF PrometheusInv, SpecsOK, Follows
<1> QED
  BY <1>1, Invariance, PTL

(* HandleSuccess writes Polling only for a generation the manager has.      *)
THEOREM PollingIsTrue == Spec => PollingIsRegistered
<1>1. PrometheusInv /\ [Next]_vars =>
        [/\ server'.status = "Polling"
         /\ <<server.status, server.observed>> # <<"Polling", server'.observed>>
         => producers[server'.observed].uid # 0]_vars
  <2> SUFFICES ASSUME PrometheusInv, Next, server'.status = "Polling",
                      <<server.status, server.observed>>
                          # <<"Polling", server'.observed>>
               PROVE  producers[server'.observed].uid # 0
    OBVIOUS
  <2>1. server \in Objects /\ cache \in Objects
    BY DEF PrometheusInv, TypeOK
  <2>2. ASSUME HandleSuccess PROVE producers[server'.observed].uid # 0
    <3>1. server'.observed = es.gen
      BY <2>1, <2>2 DEF HandleSuccess, UpdateStatus, Objects
    <3> QED
      BY <2>2, <3>1 DEF HandleSuccess, PrometheusInv, SuccessOK
  <2>3. ASSUME HandleErrorAndRequeue PROVE FALSE
    BY <2>1, <2>3 DEF HandleErrorAndRequeue, UpdateStatus, Objects
  <2>4. ASSUME NEW spec \in Specs, Create(spec) PROVE FALSE
    BY <2>4 DEF Create, Edit, Absent
  <2>5. ASSUME NEW spec \in Specs, UpdateSpec(spec) PROVE FALSE
    <3>1. server'.status = server.status /\ server'.observed = server.observed
      BY <2>1, <2>5 DEF UpdateSpec, Edit, Objects
    <3> QED
      BY <3>1
  <2>6. ASSUME Delete PROVE FALSE
    BY <2>6, Constants DEF Delete, Edit
  <2>7. ASSUME server' = server PROVE FALSE
    BY <2>7
  <2>8. ASSUME \/ ServiceChanges \/ Restart \/ Recover \/ Watch \/ DelayOver
               \/ NotFound \/ Found \/ CreateP8sClient \/ Add \/ UpdateFails
        PROVE  server' = server
    BY <2>8 DEF ServiceChanges, Restart, Recover, ProcessStarts, Watch, DelayOver,
                NotFound, Found, CreateP8sClient, Add, UpdateFails, world
  <2> QED
    BY <2>2, <2>3, <2>4, <2>5, <2>6, <2>7, <2>8 DEF Next, Cluster, Reconcile
<1> QED
  BY <1>1, Invariance, PTL DEF Spec, PollingIsRegistered
===============================================================================
