------------------------- MODULE PrometheusController -------------------------
(***************************************************************************)
(* The Prometheus reconciler                                                *)
(* (controllers/eventsource/prometheus_controller.go) for one resource      *)
(* name.  It looks up the service and the secret the resource refers to,    *)
(* gives the producer manager a producer per generation and writes the      *)
(* status.  A missing service is looked up again after half a minute; a     *)
(* secret that is missing or of the wrong type ends the process, which      *)
(* Kubernetes starts again.  Neither services nor secrets are watched.      *)
(* Reads go through the informer's cache, and updates lose to whoever wrote *)
(* first.                                                                   *)
(***************************************************************************)
EXTENDS Naturals, Admission

CONSTANTS
    Specs,          \* the specs that users write
    MaxEdits        \* bound: the edits users make, and the process restarts

AllSpecs == [auth : BOOLEAN, port : BOOLEAN, pending : BOOLEAN]
NoSpec == [auth |-> FALSE, port |-> FALSE, pending |-> FALSE]
Services == {"absent", "named", "other"}
Secrets == {"absent", "basic", "opaque"}

ASSUME PrometheusAssumption == Specs \subseteq AllSpecs /\ MaxEdits \in Nat

Edits == 1 .. MaxEdits
Copies == [uid : 0 .. MaxEdits, gen : 0 .. MaxEdits, spec : AllSpecs]
Objects == [uid : 0 .. MaxEdits, gen : 0 .. MaxEdits, spec : AllSpecs,
            status : {"none", "Polling", "Error"}, observed : 0 .. MaxEdits]
Nothing == [uid |-> 0, gen |-> 0, spec |-> NoSpec]
Absent == [uid |-> 0, gen |-> 0, spec |-> NoSpec, status |-> "none",
           observed |-> 0]

VARIABLES
    webhooks,       \* ENABLE_WEBHOOKS
    server,         \* the resource in the API server
    cache,          \* the resource in the informer's cache
    service,        \* the service it refers to: absent, or found with the port
                    \* it asks for (named) or without (other)
    secret,         \* the secret it refers to: absent, basic or opaque
    queued,         \* the controller's workqueue has a request for it
    delayed,        \* a request is due after RequeueAfter
    pc,             \* the place in Reconcile
    es,             \* eventSourceCR, as Reconcile read it
    producers,      \* Manager.producers: generation -> the producer's config
                    \* and the uid it was made from, 0 if none
    launched,       \* history: producers made from each uid and generation
                    \* since the process started
    edits           \* counts edits and restarts, for the bound

world == <<webhooks, server, service, secret, edits>>
process == <<cache, queued, delayed, pc, es, producers, launched>>
vars == <<world, process>>

TypeOK ==
    /\ webhooks \in BOOLEAN
    /\ server \in Objects /\ cache \in Objects /\ es \in Copies
    /\ service \in Services /\ secret \in Secrets
    /\ queued \in BOOLEAN /\ delayed \in BOOLEAN
    /\ pc \in {"idle", "lookup", "add", "success", "error", "crashed"}
    /\ producers \in [Edits -> [uid : 0 .. MaxEdits, pending : BOOLEAN]]
    /\ launched \in [Edits \X Edits -> Nat]
    /\ edits \in 0 .. MaxEdits

NoProducer == [g \in Edits |-> [uid |-> 0, pending |-> FALSE]]

Init ==
    /\ webhooks \in BOOLEAN
    /\ server = Absent /\ cache = Absent /\ es = Nothing
    /\ service \in Services /\ secret \in Secrets
    /\ queued = FALSE /\ delayed = FALSE /\ pc = "idle" /\ edits = 0
    /\ producers = NoProducer
    /\ launched = [o \in Edits \X Edits |-> 0]

-------------------------------------------------------------------------------
(* The cluster.                                                             *)

Edit(obj) ==
    /\ edits < MaxEdits /\ edits' = edits + 1
    /\ server' = obj
    /\ UNCHANGED <<webhooks, service, secret, process>>

(* The webhooks, which the operator's process serves and without which      *)
(* nothing is admitted, see what a user applies before it is stored.        *)
Admitted(spec) ==
    webhooks => /\ pc # "crashed"
                /\ ValidatePrometheus(DefaultPrometheus(spec), service, secret)
Stored(spec) == IF webhooks THEN DefaultPrometheus(spec) ELSE spec

(* A new resource has a uid of its own and generation 1.                    *)
Create(spec) ==
    /\ server = Absent /\ Admitted(spec)
    /\ Edit([Absent EXCEPT !.uid = edits + 1, !.gen = 1, !.spec = Stored(spec)])

UpdateSpec(spec) ==
    /\ server # Absent /\ Admitted(spec) /\ Stored(spec) # server.spec
    /\ Edit([server EXCEPT !.gen = @ + 1, !.spec = Stored(spec)])

Delete == server # Absent /\ Edit(Absent)

(* The service or the secret appears, changes or goes.                      *)
ServiceChanges ==
    /\ \/ service' \in Services \ {service} /\ UNCHANGED secret
       \/ secret' \in Secrets \ {secret} /\ UNCHANGED service
    /\ UNCHANGED <<webhooks, server, edits, process>>

(* A watch event, for one or several changes.                               *)
Watch ==
    /\ pc # "crashed" /\ cache # server
    /\ cache' = server
    /\ queued' = TRUE
    /\ UNCHANGED <<world, delayed, pc, es, producers, launched>>

(* The workqueue's timer for RequeueAfter.                                  *)
DelayOver ==
    /\ pc # "crashed" /\ delayed
    /\ delayed' = FALSE /\ queued' = TRUE
    /\ UNCHANGED <<world, cache, pc, es, producers, launched>>

(* The operator's process starts, with an empty queue and no producers.     *)
ProcessStarts ==
    /\ cache' = server /\ queued' = (server # Absent) /\ delayed' = FALSE
    /\ pc' = "idle" /\ es' = Nothing
    /\ producers' = NoProducer
    /\ launched' = [o \in Edits \X Edits |-> 0]
    /\ UNCHANGED <<webhooks, server, service, secret>>

(* It ends for reasons of its own and is started again.                     *)
Restart == edits < MaxEdits /\ edits' = edits + 1 /\ ProcessStarts

(* Kubernetes starts it again after a crash.                                *)
Recover == pc = "crashed" /\ ProcessStarts /\ UNCHANGED edits

-------------------------------------------------------------------------------
(* Manager.Exists of the producers: by name and generation.                 *)
Exists(obj) == producers[obj.gen].uid # 0

(* Mutant: a deleted resource's producers stay registered.                  *)
NotFoundKeeps ==
    /\ pc = "idle" /\ queued /\ cache = Absent
    /\ queued' = FALSE
    /\ UNCHANGED <<world, cache, delayed, pc, es, producers, launched>>

(* Reconcile of a resource that is not found: Remove, of all generations.   *)
NotFound ==
    /\ pc = "idle" /\ queued /\ cache = Absent
    /\ queued' = FALSE
    /\ producers' = NoProducer
    /\ UNCHANGED <<world, cache, delayed, pc, es, launched>>

(* Mutant: every request installs, those for a status change too.           *)
FoundInstalls ==
    /\ pc = "idle" /\ queued /\ cache # Absent
    /\ queued' = FALSE
    /\ es' = [uid |-> cache.uid, gen |-> cache.gen, spec |-> cache.spec]
    /\ pc' = "lookup"
    /\ UNCHANGED <<world, cache, delayed, producers, launched>>

(* Reconcile of a resource that is found.                                   *)
Found ==
    /\ pc = "idle" /\ queued /\ cache # Absent
    /\ queued' = FALSE
    /\ es' = [uid |-> cache.uid, gen |-> cache.gen, spec |-> cache.spec]
    /\ pc' = IF Exists(cache) THEN "success" ELSE "lookup"
    /\ UNCHANGED <<world, cache, delayed, producers, launched>>

(* A client can be made for the spec.                                       *)
Usable(spec) ==
    service # "absent" /\ SecretUsable(spec, secret) /\ AddressParses(spec, service)

(* Mutant: the lookup's error is not looked at.                             *)
CreateP8sClientIgnored ==
    /\ pc = "lookup"
    /\ pc' = IF Usable(es.spec) THEN "add" ELSE "success"
    /\ UNCHANGED <<world, cache, queued, delayed, es, producers, launched>>

(* createP8sClient looks up the service, then the secret.  It logs a failed *)
(* lookup of the secret to the reconciler's Log, which main leaves unset,   *)
(* and with the logr of go.mod (v1.2.3) that is a call through nil.  Last   *)
(* NewPrometheusClient may find that the address does not parse.            *)
CreateP8sClient ==
    /\ pc = "lookup"
    /\ pc' = CASE service = "absent" -> "error"
               [] service # "absent" /\ ~SecretUsable(es.spec, secret) -> "crashed"
               [] Usable(es.spec) -> "add"
               [] OTHER -> "error"
    /\ UNCHANGED <<world, cache, queued, delayed, es, producers, launched>>

(* Mutant: the producer is registered for the resource as it is by now.     *)
AddUnderCached ==
    /\ pc = "add" /\ cache # Absent
    /\ producers' = [producers EXCEPT ![cache.gen] =
                        [uid |-> es.uid, pending |-> es.spec.pending]]
    /\ launched' = [launched EXCEPT ![<<es.uid, es.gen>>] = @ + 1]
    /\ pc' = "success"
    /\ UNCHANGED <<world, cache, queued, delayed, es>>

(* Producers.Add, which never fails, and HandleOutcome.                     *)
Add ==
    /\ pc = "add"
    /\ producers' = [producers EXCEPT ![es.gen] =
                        [uid |-> es.uid, pending |-> es.spec.pending]]
    /\ launched' = [launched EXCEPT ![<<es.uid, es.gen>>] = @ + 1]
    /\ pc' = "success"
    /\ UNCHANGED <<world, cache, queued, delayed, es>>

(* The update carries the resource as the cache has it.                     *)
UpdateStatus(s) ==
    /\ cache = server /\ cache # Absent
    /\ server' = [cache EXCEPT !.status = s, !.observed = es.gen]
    /\ pc' = "idle"
    /\ UNCHANGED <<webhooks, service, secret, edits>>
    /\ UNCHANGED <<cache, queued, es, producers, launched>>

HandleSuccess ==
    /\ pc = "success"
    /\ UpdateStatus("Polling")
    /\ UNCHANGED delayed

(* Mutant: the error is handled as HandleError does, without a delay.       *)
HandleErrorOnly ==
    /\ pc = "error"
    /\ UpdateStatus("Error")
    /\ UNCHANGED delayed

HandleErrorAndRequeue ==
    /\ pc = "error"
    /\ UpdateStatus("Error")
    /\ delayed' = TRUE

(* The resource is gone, or the retries on conflict are used up: the error  *)
(* is returned, and Reconcile is called again.                              *)
UpdateFails ==
    /\ pc \in {"success", "error"}
    /\ pc' = "idle" /\ queued' = TRUE
    /\ UNCHANGED <<world, cache, delayed, es, producers, launched>>

-------------------------------------------------------------------------------
Reconcile ==
    \/ NotFound \/ Found \/ CreateP8sClient \/ Add
    \/ HandleSuccess \/ HandleErrorAndRequeue \/ UpdateFails

Cluster ==
    \/ \E spec \in Specs : Create(spec) \/ UpdateSpec(spec)
    \/ Delete \/ ServiceChanges \/ Restart

Next == Cluster \/ Watch \/ DelayOver \/ Reconcile \/ Recover

Spec == Init /\ [][Next]_vars

(* Watch events arrive, timers fire, the reconciler's goroutine runs and a  *)
(* crashed process is started again.                                        *)
(* An update that is tried again and again succeeds in the end.  No resync  *)
(* of the informer is counted on.                                           *)
Fairness ==
    /\ WF_vars(Watch) /\ WF_vars(DelayOver) /\ WF_vars(Reconcile)
    /\ WF_vars(Recover)
    /\ SF_vars(HandleSuccess) /\ SF_vars(HandleErrorAndRequeue)

FairSpec == Spec /\ Fairness

-------------------------------------------------------------------------------
(* Properties                                                               *)

(* "in case it's already added and running there is no need to re-install.  *)
(* This handles re-queues due to status changes": retries after conflicts,  *)
(* late watch events and timers never start a second producer for the same  *)
(* generation of a resource.                                                *)
LaunchedOnce == \A o \in Edits \X Edits : launched[o] <= 1

(* A status that says Polling for a generation is only written when the     *)
(* manager has that generation's producer.                                  *)
PollingIsRegistered ==
    [][/\ server'.status = "Polling"
       /\ <<server.status, server.observed>> # <<"Polling", server'.observed>>
       => producers[server'.observed].uid # 0]_vars

(* A resource whose service, port and secret can be used gets a producer of *)
(* its generation, though nothing but the delayed request tells the         *)
(* reconciler that the service has appeared or has the port, and nothing    *)
(* but the crashes that the secret is right: what was true at admission     *)
(* may no longer be.                                                        *)
ReadyIsInstalled ==
    \A g \in Edits :
        LET Wanted == server.gen = g /\ Usable(server.spec)
        IN  Wanted ~> ~Wanted \/ producers[g].uid # 0

(* Once its resource is deleted, be it in the middle of its installation,   *)
(* no producer stays registered.                                            *)
DeletedIsForgotten == server = Absent ~> producers = NoProducer \/ server # Absent

(* The producer registered for the present generation of a resource polls   *)
(* as its stored spec says, whatever was edited, deleted and created again  *)
(* between the read, the lookup and Add: no generation gets the config of   *)
(* another.                                                                 *)
PollsAsStored ==
    /\ server # Absent
    /\ producers[server.gen].uid = server.uid
    => producers[server.gen].pending = server.spec.pending
===============================================================================
