------------------------------ MODULE ActionRunner ------------------------------
(***************************************************************************)
(* InMemoryRunner.Run (pkg/actions/action.go) and the Perform of the four   *)
(* kinds of action.  A run performs its countermeasure's actions in order   *)
(* and stops at the first that fails; an action that supports it is retried *)
(* with a back-off.  Runs of several countermeasures may work on the same   *)
(* object.  A call to the API server may be applied although its reply is   *)
(* an error, a timeout for instance, so that a retry repeats it.  A target  *)
(* whose template does not parse makes Perform panic, which ends the        *)
(* process and every run.                                                   *)
(***************************************************************************)
EXTENDS Naturals, Sequences

CONSTANTS
    Runs,           \* concurrent runs, one per countermeasure
    Actions,        \* Actions[r] is the run's InMemoryRunner: a sequence of
                    \* [kind, retry, name, parses], name being a debug
                    \* container's; do the templates of the target parse?
    DryRun,         \* the runs whose countermeasure has spec.dryRun
    Steps,          \* retry.DefaultBackoff.Steps, 4 in client-go
    MaxLives        \* bound: how often the object is created

Kinds == {"delete", "debug", "patch", "restart"}
Unnamed == ""       \* a debug container without a name gets a random one

ASSUME RunnerAssumption ==
    /\ \A r \in Runs : /\ Actions[r] \in Seq([kind : Kinds, retry : BOOLEAN,
                                              name : STRING, parses : BOOLEAN])
                       /\ Actions[r] # <<>>
    /\ DryRun \subseteq Runs
    /\ Steps \in Nat \ {0} /\ MaxLives \in Nat \ {0}

Gone == [uid |-> 0, version |-> 0, debuggers |-> <<>>]

VARIABLES
    target,         \* the object: its incarnation, its resourceVersion and
                    \* its ephemeral containers, or Gone
    cache,          \* what the informer's cache holds of it
    lives,          \* how often it has been created
    pc,             \* a run: "get", "write", "done" or "failed"
    idx,            \* the action a run is at
    tries,          \* the attempt it is at
    seen,           \* the object that attempt's Get returned
    panicked,       \* a run has panicked: the process is gone
    succeeded,      \* history: the actions of a run whose Perform returned nil
    effects         \* history: how often each action changed the object

vars == <<target, cache, lives, pc, idx, tries, seen, panicked, succeeded,
          effects>>

TypeOK ==
    /\ target.uid \in 0 .. MaxLives /\ cache.uid \in 0 .. MaxLives
    /\ lives \in 0 .. MaxLives
    /\ pc \in [Runs -> {"get", "write", "done", "failed"}]
    /\ panicked \in BOOLEAN
    /\ \A r \in Runs : /\ idx[r] \in DOMAIN Actions[r]
                       /\ tries[r] \in 1 .. Steps
                       /\ succeeded[r] \subseteq DOMAIN Actions[r]
                       /\ effects[r] \in [DOMAIN Actions[r] -> 0 .. Steps]

Init ==
    /\ target = [Gone EXCEPT !.uid = 1] /\ cache = target /\ lives = 1
    /\ pc = [r \in Runs |-> "get"]
    /\ idx = [r \in Runs |-> 1]
    /\ tries = [r \in Runs |-> 1]
    /\ seen = [r \in Runs |-> Gone]
    /\ panicked = FALSE
    /\ succeeded = [r \in Runs |-> {}]
    /\ effects = [r \in Runs |-> [i \in DOMAIN Actions[r] |-> 0]]

-------------------------------------------------------------------------------
Action(r) == Actions[r][idx[r]]

(* A typed Get, which only Debug makes, reads the cache; an unstructured    *)
(* one asks the API server.                                                 *)
Fetched(r) == IF Action(r).kind = "debug" THEN cache ELSE target

(* Perform returned nil: on to the next action.                             *)
Succeed(r) ==
    /\ succeeded' = [succeeded EXCEPT ![r] = @ \union {idx[r]}]
    /\ tries' = [tries EXCEPT ![r] = 1]
    /\ IF idx[r] < Len(Actions[r])
       THEN pc' = [pc EXCEPT ![r] = "get"] /\ idx' = [idx EXCEPT ![r] = @ + 1]
       ELSE pc' = [pc EXCEPT ![r] = "done"] /\ UNCHANGED idx

(* Mutant: the loop goes on after an error.                                 *)
FailContinues(r) ==
    /\ UNCHANGED succeeded
    /\ IF Action(r).retry /\ tries[r] < Steps
       THEN /\ tries' = [tries EXCEPT ![r] = @ + 1]
            /\ pc' = [pc EXCEPT ![r] = "get"]
            /\ UNCHANGED idx
       ELSE /\ tries' = [tries EXCEPT ![r] = 1]
            /\ IF idx[r] < Len(Actions[r])
               THEN pc' = [pc EXCEPT ![r] = "get"] /\ idx' = [idx EXCEPT ![r] = @ + 1]
               ELSE pc' = [pc EXCEPT ![r] = "failed"] /\ UNCHANGED idx

(* Mutant: SupportsRetry is not asked.                                      *)
FailRetriesAll(r) ==
    /\ UNCHANGED <<idx, succeeded>>
    /\ IF tries[r] < Steps
       THEN tries' = [tries EXCEPT ![r] = @ + 1] /\ pc' = [pc EXCEPT ![r] = "get"]
       ELSE UNCHANGED tries /\ pc' = [pc EXCEPT ![r] = "failed"]

(* Mutant: a back-off without a limit.                                      *)
FailForever(r) ==
    /\ UNCHANGED <<idx, succeeded, tries>>
    /\ pc' = [pc EXCEPT ![r] = IF Action(r).retry THEN "get" ELSE "failed"]

(* Mutant: one attempt too many.                                            *)
FailOneMore(r) ==
    /\ UNCHANGED <<idx, succeeded>>
    /\ IF Action(r).retry /\ tries[r] <= Steps
       THEN tries' = [tries EXCEPT ![r] = @ + 1] /\ pc' = [pc EXCEPT ![r] = "get"]
       ELSE UNCHANGED tries /\ pc' = [pc EXCEPT ![r] = "failed"]

(* Perform returned an error: retry.OnError tries again while the action    *)
(* supports it and attempts are left; otherwise Run breaks off.             *)
Fail(r) ==
    /\ UNCHANGED <<idx, succeeded>>
    /\ IF Action(r).retry /\ tries[r] < Steps
       THEN tries' = [tries EXCEPT ![r] = @ + 1] /\ pc' = [pc EXCEPT ![r] = "get"]
       ELSE UNCHANGED tries /\ pc' = [pc EXCEPT ![r] = "failed"]

-------------------------------------------------------------------------------
(* Mutant: Debug does not look at the containers there are.                 *)
HasDebuggerNever(r) == FALSE

(* Debug does not install a container of a name that the pod already has.   *)
HasDebugger(r) ==
    /\ Action(r).kind = "debug"
    /\ \E i \in DOMAIN Fetched(r).debuggers :
        Fetched(r).debuggers[i] = Action(r).name /\ Action(r).name # Unnamed

(* template.Must: the target's namespace, name or container template does   *)
(* not parse.  Nothing recovers the panic.                                  *)
Panic(r) ==
    /\ pc[r] = "get" /\ ~Action(r).parses
    /\ panicked' = TRUE
    /\ UNCHANGED <<target, cache, lives, pc, idx, tries, seen, succeeded, effects>>

Get(r) ==
    /\ pc[r] = "get" /\ Action(r).parses /\ Fetched(r) # Gone
    /\ IF HasDebugger(r) THEN Succeed(r) /\ UNCHANGED seen
       ELSE /\ pc' = [pc EXCEPT ![r] = "write"]
            /\ seen' = [seen EXCEPT ![r] = Fetched(r)]
            /\ UNCHANGED <<idx, tries, succeeded>>
    /\ UNCHANGED <<target, cache, lives, panicked, effects>>

(* Delete takes an object that is not found for deleted.                    *)
GetNotFound(r) ==
    /\ pc[r] = "get" /\ Action(r).parses /\ Fetched(r) = Gone
    /\ IF Action(r).kind = "delete" THEN Succeed(r) ELSE Fail(r)
    /\ UNCHANGED <<target, cache, lives, seen, panicked, effects>>

(* The apiVersion of a delete's or a patch's target is malformed, which is  *)
(* found before its templates are evaluated.                                *)
RejectVersion(r) ==
    /\ pc[r] = "get" /\ Action(r).kind \in {"delete", "patch"}
    /\ Fail(r)
    /\ UNCHANGED <<target, cache, lives, seen, panicked, effects>>

(* The Get fails, or what follows it before it changes anything: the        *)
(* patch's own template, an API error, a conflict, an object gone since.    *)
Reject(r) ==
    /\ pc[r] = "write" \/ (pc[r] = "get" /\ Action(r).parses)
    /\ Fail(r)
    /\ UNCHANGED <<target, cache, lives, seen, panicked, effects>>

(* What the four kinds make of the object o.  The restart is a patch too,   *)
(* of an annotation with the time.                                          *)
Deleted(o) == Gone
Debugged(o, n) ==
    [o EXCEPT !.version = @ + 1, !.debuggers = Append(@, n)]
Patched(o) == [o EXCEPT !.version = @ + 1]
Restarted(o) == [o EXCEPT !.version = @ + 1]

Written(r) ==
    CASE Action(r).kind = "delete" -> Deleted(target)
      [] Action(r).kind = "debug" -> Debugged(target, Action(r).name)
      [] Action(r).kind = "patch" -> Patched(target)
      [] Action(r).kind = "restart" -> Restarted(target)

(* The server accepts the write: deletes and patches go by name, the update *)
(* of the ephemeral containers carries the resourceVersion that was read.   *)
(* A dry run is accepted and changes nothing.  Its reply may be lost.       *)
Write(r) ==
    /\ pc[r] = "write"
    /\ target # Gone
    /\ Action(r).kind = "debug" =>
          seen[r].uid = target.uid /\ seen[r].version = target.version
    /\ IF r \in DryRun THEN UNCHANGED <<target, effects>>
       ELSE /\ target' = Written(r)
            /\ effects' = [effects EXCEPT ![r][idx[r]] = @ + 1]
    /\ Succeed(r) \/ Fail(r)
    /\ UNCHANGED <<cache, lives, seen, panicked>>

-------------------------------------------------------------------------------
(* A controller creates an object of the same name again.                   *)
Recreate ==
    /\ target = Gone /\ lives < MaxLives
    /\ lives' = lives + 1
    /\ target' = [Gone EXCEPT !.uid = lives + 1]
    /\ UNCHANGED <<cache, pc, idx, tries, seen, panicked, succeeded, effects>>

Watch ==
    /\ cache # target
    /\ cache' = target
    /\ UNCHANGED <<target, lives, pc, idx, tries, seen, panicked, succeeded,
                   effects>>

RunStep(r) ==
    Get(r) \/ GetNotFound(r) \/ RejectVersion(r) \/ Reject(r) \/ Write(r)

Next ==
    /\ ~panicked
    /\ Recreate \/ Watch \/ \E r \in Runs : RunStep(r) \/ Panic(r)

Spec == Init /\ [][Next]_vars

(* Every call to the API server returns in the end.                         *)
FairSpec ==
    Spec /\ \A r \in Runs : WF_vars(~panicked /\ (RunStep(r) \/ Panic(r)))

-------------------------------------------------------------------------------
(* Properties                                                               *)

(* "don't install the container if there is already one installed": a named *)
(* debug container is in the pod at most once, for all the retries after    *)
(* lost replies, stale reads and concurrent runs.                           *)
DebugOnce ==
    \A i, j \in DOMAIN target.debuggers :
        /\ target.debuggers[i] = target.debuggers[j]
        /\ target.debuggers[i] # Unnamed
        => i = j

(* Later actions count on the earlier ones: an action changes the object    *)
(* only if every action before it succeeded, and a run that is done         *)
(* performed them all.                                                      *)
StopsAtFailure ==
    \A r \in Runs :
        /\ \A i \in DOMAIN Actions[r] :
              effects[r][i] > 0 => 1 .. i - 1 \subseteq succeeded[r]
        /\ pc[r] = "done" => succeeded[r] = DOMAIN Actions[r]

(* "the action spec allows for retries to be disabled": an action that does *)
(* not support retry changes the object at most once in a run.              *)
NoRetryNoRepeat ==
    \A r \in Runs : \A i \in DOMAIN Actions[r] :
        ~Actions[r][i].retry => effects[r][i] <= 1

(* Run returns, so that the manager's goroutine gets to CounterMeasureEnd,  *)
(* unless a malformed template has brought the process down: then no run    *)
(* of any countermeasure does.                                              *)
RunEnds == \A r \in Runs : <>(pc[r] \in {"done", "failed"} \/ panicked)
===============================================================================
