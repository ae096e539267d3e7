------------------------ MODULE CounterMeasureController ------------------------
(***************************************************************************)
(* The CounterMeasure reconciler                                            *)
(* (controllers/countermeasure/countermeasure_controller.go) for one        *)
(* resource name, which controller-runtime never reconciles twice at a      *)
(* time.  Users edit the resource in the API server; the reconciler reads   *)
(* it through the informer's cache, which lags behind, installs it in the   *)
(* action manager and writes its status back, losing to whoever wrote       *)
(* first.  Every status carries the time, in seconds, and an update that    *)
(* changes nothing causes no watch event.  ActionManager.tla has the inside *)
(* of the manager's Add and Remove; here they are a step each.              *)
(***************************************************************************)
EXTENDS Naturals, Admission

CONSTANTS
    Specs,          \* the specs that users write
    MaxEdits        \* bound: the edits users make, and the process restarts

ASSUME ControllerAssumption ==
    /\ \A s \in Specs : /\ s.event \in BOOLEAN /\ s.selector \in Selectors
                        /\ s.actions \in Seq(Actions)
    /\ MaxEdits \in Nat

Statuses == {"none", "Unknown", "Monitoring", "Error"}

(* LastStatusChangeTime: in the present second, in the one the server's     *)
(* status is from, or in an earlier one that the cache still shows.         *)
Times == {"now", "past", "older"}

(* What the reconciler keeps of a resource, and the resource.               *)
Copies == [uid : 0 .. MaxEdits, gen : 0 .. MaxEdits, spec : Specs \union {EmptySpec}]
Objects == [uid : 0 .. MaxEdits, gen : 0 .. MaxEdits, spec : Specs \union {EmptySpec},
            status : Statuses, observed : 0 .. MaxEdits, time : Times]

Nothing == [uid |-> 0, gen |-> 0, spec |-> EmptySpec]
Absent == [uid |-> 0, gen |-> 0, spec |-> EmptySpec, status |-> "none",
           observed |-> 0, time |-> "past"]
Copy(obj) == [uid |-> obj.uid, gen |-> obj.gen, spec |-> obj.spec]

VARIABLES
    webhooks,       \* ENABLE_WEBHOOKS
    server,         \* the resource in the API server
    cache,          \* the resource in the informer's cache
    queued,         \* the controller's workqueue has a request for it
    pc,             \* the place in Reconcile
    cm,             \* counterMeasureCR, as Reconcile last read it
    installed,      \* the resource the manager was given, Nothing if none
    rounds,         \* status updates in the present second, counted up to two
    edits           \* counts edits and restarts, for the bound

vars == <<webhooks, server, cache, queued, pc, cm, installed, rounds, edits>>

TypeOK ==
    /\ server \in Objects /\ cache \in Objects
    /\ cm \in Copies /\ installed \in Copies
    /\ webhooks \in BOOLEAN /\ queued \in BOOLEAN /\ rounds \in 0 .. 2
    /\ pc \in {"idle", "init", "validate", "add", "success", "error"}
    /\ edits \in 0 .. MaxEdits

Init ==
    /\ webhooks \in BOOLEAN
    /\ server = Absent /\ cache = Absent /\ cm = Nothing /\ installed = Nothing
    /\ queued = FALSE /\ pc = "idle" /\ rounds = 0 /\ edits = 0

-------------------------------------------------------------------------------
(* The cluster.                                                             *)

Edit(obj) ==
    /\ edits < MaxEdits /\ edits' = edits + 1
    /\ server' = obj
    /\ UNCHANGED <<webhooks, cache, queued, pc, cm, installed, rounds>>

(* The webhooks see what a user applies before it is stored.                *)
Admitted(spec) == webhooks => ValidateSpec(DefaultCounterMeasure(spec))
Stored(spec) == IF webhooks THEN DefaultCounterMeasure(spec) ELSE spec

(* A new resource has a uid of its own and generation 1.                    *)
Create(spec) ==
    /\ server = Absent /\ Admitted(spec)
    /\ Edit([Absent EXCEPT !.uid = edits + 1, !.gen = 1, !.spec = Stored(spec)])

(* A changed spec is a new generation.                                      *)
UpdateSpec(spec) ==
    /\ server # Absent /\ Admitted(spec) /\ Stored(spec) # server.spec
    /\ Edit([server EXCEPT !.gen = @ + 1, !.spec = Stored(spec)])

Delete == server # Absent /\ Edit(Absent)

(* A watch event.  Several changes may be seen as one: a resource deleted   *)
(* and created again can look like an update to a slow reconciler.          *)
Watch ==
    /\ cache # server
    /\ cache' = server
    /\ queued' = TRUE
    /\ UNCHANGED <<webhooks, server, pc, cm, installed, rounds, edits>>

(* The reconciler is idle and has nothing to do.                            *)
Quiet == pc = "idle" /\ ~queued /\ cache = server

(* The informer's resync, ten hours after the last.                         *)
Resync ==
    /\ cache # Absent /\ Quiet
    /\ queued' = TRUE
    /\ UNCHANGED <<webhooks, server, cache, pc, cm, installed, rounds, edits>>

(* A second is over.  It is taken to be long enough for two status updates, *)
(* one and the one its watch event leads to, if there are that many to make. *)
Tick ==
    /\ Quiet \/ rounds = 2
    /\ server' = [server EXCEPT !.time = "past"]
    /\ cache' = [cache EXCEPT !.time =
                     IF cache \in {server, Absent} THEN "past" ELSE "older"]
    /\ rounds' = 0
    /\ UNCHANGED <<webhooks, queued, pc, cm, installed, edits>>

(* The operator's process ends and is started again: what it had in memory  *)
(* is gone, and the informer lists what exists.                             *)
Restart ==
    /\ edits < MaxEdits /\ edits' = edits + 1
    /\ cache' = server /\ queued' = (server # Absent)
    /\ pc' = "idle" /\ cm' = Nothing /\ installed' = Nothing
    /\ UNCHANGED <<webhooks, server, rounds>>

-------------------------------------------------------------------------------
(* Manager.Exists: by name, so any uid and generation will do.              *)
Exists == installed # Nothing

(* Reconcile is called again after an error.                                *)
Requeue ==
    /\ pc' = "idle" /\ queued' = TRUE
    /\ UNCHANGED <<webhooks, server, cache, cm, installed, rounds, edits>>

(* RetryOnConflict: re-fetch, set the status and its time and update.  It   *)
(* goes through if nobody else wrote what the cache does not yet show, and  *)
(* then continues as the caller says.                                       *)
UpdateStatus(status, observed, time, next) ==
    /\ cache = server /\ cache # Absent
    /\ server' = [cache EXCEPT !.status = status, !.observed = observed,
                               !.time = time]
    /\ rounds' = IF rounds = 2 THEN 2 ELSE rounds + 1
    /\ pc' = next
    /\ UNCHANGED <<webhooks, cache, queued, installed, edits>>

(* The resource is gone, or the retries are used up: the error is returned. *)
(* A conflict may also come from a writer of fields not modelled here.      *)
UpdateFails == pc \in {"init", "success", "error"} /\ Requeue

-------------------------------------------------------------------------------
(* Mutant: a deleted resource is left installed.                            *)
NotFoundKeeps ==
    /\ pc = "idle" /\ queued /\ cache = Absent
    /\ queued' = FALSE
    /\ UNCHANGED <<webhooks, server, cache, pc, cm, installed, rounds, edits>>

(* Reconcile of a resource that is not found: Manager.Remove.               *)
NotFound ==
    /\ pc = "idle" /\ queued /\ cache = Absent
    /\ queued' = FALSE
    /\ installed' = Nothing
    /\ UNCHANGED <<webhooks, server, cache, pc, cm, rounds, edits>>

(* Mutant: a resource that has a status is left alone.                      *)
FoundInitialised ==
    /\ pc = "idle" /\ queued /\ cache # Absent
    /\ queued' = FALSE
    /\ cm' = Copy(cache)
    /\ pc' = CASE Exists -> "success"
               [] ~Exists /\ cache.status = "none" -> "init"
               [] OTHER -> "idle"
    /\ UNCHANGED <<webhooks, server, cache, installed, rounds, edits>>

(* Reconcile of a resource that is found; one that has a status already is  *)
(* not marked as initializing.                                              *)
Found ==
    /\ pc = "idle" /\ queued /\ cache # Absent
    /\ queued' = FALSE
    /\ cm' = Copy(cache)
    /\ pc' = CASE Exists -> "success"
               [] ~Exists /\ cache.status = "none" -> "init"
               [] OTHER -> "validate"
    /\ UNCHANGED <<webhooks, server, cache, installed, rounds, edits>>

(* MarkInitializing reads the resource again, into cm.                      *)
MarkInitializing ==
    /\ pc = "init"
    /\ UpdateStatus("Unknown", cache.gen, "now", "validate")
    /\ cm' = Copy(cache)

(* isValid                                                                  *)
Validate ==
    /\ pc = "validate"
    /\ pc' = IF ValidateSpec(cm.spec) THEN "add" ELSE "error"
    /\ UNCHANGED <<webhooks, server, cache, queued, cm, installed, rounds, edits>>

(* Manager.Add: a selector is parsed, the event sources it selects are      *)
(* listed, and Subscribe, which never fails, makes the subscription.        *)
Add ==
    /\ pc = "add" /\ cm.spec.selector # "malformed"
    /\ installed' = cm
    /\ pc' = "success"
    /\ UNCHANGED <<webhooks, server, cache, queued, cm, rounds, edits>>

(* Mutant: the error of Add is ignored.                                     *)
AddErrorIgnored ==
    /\ pc = "add" /\ cm.spec.selector # "nil"
    /\ pc' = "success"
    /\ UNCHANGED <<webhooks, server, cache, queued, cm, installed, rounds, edits>>

(* Manager.Add fails: the selector is malformed, which it will be each      *)
(* time, or the event sources cannot be listed this time.                   *)
AddFails ==
    /\ pc = "add" /\ cm.spec.selector # "nil"
    /\ pc' = "error"
    /\ UNCHANGED <<webhooks, server, cache, queued, cm, installed, rounds, edits>>

(* Mutant: a time of finer resolution, that no two updates have in common.  *)
HandleSuccessNanos ==
    /\ pc = "success"
    /\ UpdateStatus("Monitoring", cm.gen,
                    IF cache.time = "now" THEN "past" ELSE "now", "idle")
    /\ UNCHANGED cm

HandleSuccess ==
    /\ pc = "success"
    /\ UpdateStatus("Monitoring", cm.gen, "now", "idle")
    /\ UNCHANGED cm

(* HandleErrorAndRequeue, which HandleError calls with a delay of 0, that   *)
(* is, without a requeue.                                                   *)
HandleError ==
    /\ pc = "error"
    /\ UpdateStatus("Error", cm.gen, "now", "idle")
    /\ UNCHANGED cm

-------------------------------------------------------------------------------
Reconcile ==
    \/ NotFound \/ Found \/ MarkInitializing \/ Validate \/ HandleSuccess
    \/ HandleError

Cluster ==
    \/ \E spec \in Specs : Create(spec) \/ UpdateSpec(spec)
    \/ Delete \/ Restart

Next ==
    \/ Cluster \/ Watch \/ Resync \/ Tick
    \/ Reconcile \/ Add \/ AddFails \/ UpdateFails

Spec == Init /\ [][Next]_vars

(* Watch events arrive, the reconciler's goroutine runs, and resyncs recur. *)
(* Listing the event sources and updating the status succeed in the end     *)
(* where they are tried again and again; a malformed selector never does,   *)
(* and Add is not enabled for it.                                           *)
Fairness ==
    /\ WF_vars(Watch) /\ WF_vars(Resync)
    /\ WF_vars(Reconcile \/ Add \/ AddFails \/ UpdateFails)
    /\ SF_vars(Add) /\ SF_vars(MarkInitializing)
    /\ SF_vars(HandleSuccess) /\ SF_vars(HandleError)

FairSpec == Spec /\ Fairness

-------------------------------------------------------------------------------
(* Properties                                                               *)

(* A status that says Monitoring is written only by a reconciler whose      *)
(* manager has the countermeasure, however the deletions, edits and         *)
(* restarts interleave with Reconcile's reads and writes.                   *)
MonitoringMeansInstalled ==
    [][server'.status = "Monitoring" /\ server.status # "Monitoring" => Exists]_vars

(* "Notify the monitoring service to stop monitoring": a resource that is   *)
(* deleted, be it in the middle of its installation, does not stay          *)
(* installed.                                                               *)
DeletedIsRemoved == server = Absent ~> ~Exists \/ server # Absent

(* What can be installed: valid, with a selector Manager.Add accepts, which *)
(* ValidateSpec does not look at.                                           *)
Installable(spec) == ValidateSpec(spec) /\ spec.selector # "malformed"

(* A resource that can be installed is in the end, after a restart too,     *)
(* unless users go on to delete it or to spoil it.  A valid one with a      *)
(* malformed selector is admitted and never installed.                      *)
ValidIsInstalled ==
    Installable(server.spec) ~> Exists \/ ~Installable(server.spec)

(* Whatever ends up in the manager, from a lagging cache and with edits     *)
(* between the check and the installation, with the webhooks or without, is *)
(* something NewRunner can make a runner of, with one action per entry that *)
(* is all the entry asks for.                                               *)
InstalledRuns ==
    LET runner == NewRunner(installed.spec)
        actions == installed.spec.actions
    IN  Exists => /\ Len(runner) = Len(actions) /\ actions # <<>>
                  /\ \A i \in DOMAIN actions : actions[i].defines = {runner[i]}

(* "which would re-trigger the reconciliation": every reconcile writes the  *)
(* time into the status it reconciles, and still the writing comes to rest  *)
(* again and again, because the time is in seconds.                         *)
Settles == []<>Quiet

(* "automatically detects changes ... and ensures your the monitors are     *)
(* updated": the manager ends up with the resource as the users left it.    *)
ChangesAreInstalled ==
    \A u, g \in 1 .. MaxEdits :
        LET Desired == server.uid = u /\ server.gen = g /\ Installable(server.spec)
        IN  Desired ~> ~Desired \/ (installed.uid = u /\ installed.gen = g)
===============================================================================
