----------------------------- MODULE ActionManager -----------------------------
(***************************************************************************)
(* The action manager (pkg/actions/manager.go) and its state                *)
(* (pkg/actions/state/state.go).  The CounterMeasure reconciler, a single   *)
(* goroutine, calls Add and Remove; every Add subscribes a channel on the   *)
(* event bus, records an Entry and starts a goroutine that runs the         *)
(* countermeasure for the channel's events, unless suppressed.              *)
(*                                                                          *)
(* The i-th Add makes channel i, entry i and goroutine i: its installation. *)
(* An entry is found by its ObjectKey, name and generation, and a           *)
(* countermeasure that is deleted and created again starts over at          *)
(* generation 1, so two installations may have equal keys.                  *)
(***************************************************************************)
EXTENDS Naturals, Sequences

CONSTANTS
    Names,          \* the countermeasures' namespaced names
    Gens,           \* metadata.generation values
    EventKeys,      \* what Event.Key() tells apart
    Suppressing,    \* the names whose spec has a suppression policy
    Malformed,      \* the names one of whose actions has a malformed template
    Duration,       \* the policies' duration
    Cap,            \* CONSUMER_BUFFER_SIZE
    MaxInstalls,    \* bound: the number of Add calls
    MaxTime         \* bound: the clock

ASSUME ManagerAssumption ==
    /\ Names # {} /\ Suppressing \subseteq Names /\ Malformed \subseteq Names
    /\ Gens # {} /\ Gens \subseteq Nat
    /\ EventKeys # {}
    /\ Duration \in Nat /\ Cap \in Nat \ {0}
    /\ MaxInstalls \in Nat /\ MaxTime \in Nat

Installs == 1 .. MaxInstalls
None == 0           \* no installation: an absent map entry, a nil pointer
Starts == [by : {None} \union Installs, until : 0 .. MaxTime + Duration]

VARIABLES
    caller,         \* the reconciler: "idle", inside Add or inside Remove
    target,         \* the name it is adding or removing
    made,           \* the number of Add calls that subscribed
    name, gen,      \* each installation's ObjectKey
    registered,     \* the channels the bus has in its subscribers map
    bus,            \* "up", or "down": EventBus.Start has closed the channels
    closed,         \* the closed channels
    buf,            \* the event keys buffered in each channel
    consumers,      \* Manager.consumers: name -> installation
    entries,        \* ActionState.counterMeasures: name -> installation
    running,        \* Entry.running
    lastRuns,       \* Entry.lastRuns: suppressed until, 0 if absent
    gpc,            \* each goroutine's place in the loop of Add
    evt,            \* each goroutine's event
    entry,          \* the *Entry that goroutine's GetCounterMeasure returned,
                    \* forgotten once it is no longer used
    now,            \* time.Now()
    crashed,        \* a goroutine has panicked, which ends the process
    last            \* history: each entry's last start for each event key: the
                    \* goroutine that made it and until when it suppresses

callVars == <<caller, target, made, name, gen>>
chanVars == <<registered, bus, closed, buf>>
mapVars  == <<consumers, entries>>
entVars  == <<running, lastRuns>>
goVars   == <<gpc, evt, entry>>
vars     == <<callVars, chanVars, mapVars, entVars, goVars, now, crashed, last>>

TypeOK ==
    /\ caller \in {"idle", "adding", "removing"}
    /\ target \in Names
    /\ made \in 0 .. MaxInstalls
    /\ name \in [Installs -> Names] /\ gen \in [Installs -> Gens]
    /\ registered \subseteq 1 .. made /\ closed \subseteq 1 .. made
    /\ bus \in {"up", "down"}
    /\ buf \in [Installs -> Seq(EventKeys)]
    /\ \A i \in Installs : Len(buf[i]) <= Cap
    /\ consumers \in [Names -> {None} \union Installs]
    /\ entries \in [Names -> {None} \union Installs]
    /\ running \in [Installs -> BOOLEAN]
    /\ lastRuns \in [Installs -> [EventKeys -> 0 .. MaxTime + Duration]]
    /\ gpc \in [Installs -> {"none", "recv", "lookup", "check", "start", "run",
                             "end", "exited"}]
    /\ evt \in [Installs -> EventKeys]
    /\ entry \in [Installs -> {None} \union Installs]
    /\ now \in 0 .. MaxTime
    /\ crashed \in BOOLEAN
    /\ last \in [Installs -> [EventKeys -> Starts]]

Init ==
    /\ caller = "idle" /\ target \in Names /\ made = 0
    /\ name = [i \in Installs |-> CHOOSE n \in Names : TRUE]
    /\ gen = [i \in Installs |-> CHOOSE g \in Gens : TRUE]
    /\ registered = {} /\ closed = {} /\ bus = "up"
    /\ buf = [i \in Installs |-> <<>>]
    /\ consumers = [n \in Names |-> None]
    /\ entries = [n \in Names |-> None]
    /\ running = [i \in Installs |-> FALSE]
    /\ lastRuns = [i \in Installs |-> [k \in EventKeys |-> 0]]
    /\ gpc = [i \in Installs |-> "none"]
    /\ evt = [i \in Installs |-> CHOOSE k \in EventKeys : TRUE]
    /\ entry = [i \in Installs |-> None]
    /\ now = 0
    /\ crashed = FALSE
    /\ last = [i \in Installs |-> [k \in EventKeys |-> [by |-> None, until |-> 0]]]

-------------------------------------------------------------------------------
(* Manager.Exists: by name, whatever the generation.                        *)
Exists(n) == consumers[n] # None

(* Mutant: an entry that runs is not found.                                 *)
LookupIdle(i) ==
    LET e == entries[name[i]]
    IN  IF e # None /\ gen[e] = gen[i] /\ ~running[e] THEN e ELSE None

(* Mutant: entries are kept by name alone.                                  *)
LookupByName(i) == entries[name[i]]

(* s.counterMeasures[key] with goroutine i's key: nil unless the entry of   *)
(* that name has i's generation.                                            *)
Lookup(i) ==
    LET e == entries[name[i]]
    IN  IF e # None /\ gen[e] = gen[i] THEN e ELSE None

(* ActionState.Add replaces whatever entry the name had.                    *)
StateAdd(n, i) == [entries EXCEPT ![n] = i]

(* ActionState.Remove deletes the name's entry, of whatever generation.     *)
StateRemove(n) == [entries EXCEPT ![n] = None]

-------------------------------------------------------------------------------
(* Add, up to eventbus.Subscribe: events may arrive from here on.  The      *)
(* reconciler adds only what does not exist.                                *)
AddSubscribe(n, g) ==
    /\ caller = "idle" /\ ~Exists(n)
    /\ made < MaxInstalls
    /\ caller' = "adding" /\ target' = n
    /\ made' = made + 1
    /\ name' = [name EXCEPT ![made + 1] = n]
    /\ gen' = [gen EXCEPT ![made + 1] = g]
    /\ registered' = registered \union {made + 1}
    /\ UNCHANGED <<bus, closed, buf, mapVars, entVars, goVars, now, crashed,
                   last>>

(* The rest of Add, under consumersMux: the consumer, state.Add and the     *)
(* goroutine.                                                               *)
AddInstall ==
    /\ caller = "adding"
    /\ consumers' = [consumers EXCEPT ![target] = made]
    /\ entries' = StateAdd(target, made)
    /\ gpc' = [gpc EXCEPT ![made] = "recv"]
    /\ caller' = "idle"
    /\ UNCHANGED <<target, made, name, gen, chanVars, entVars, evt, entry, now,
                   crashed, last>>

(* Mutant: Remove does not unsubscribe.                                     *)
RemoveKeepsSubscription(n) ==
    /\ caller = "idle"
    /\ caller' = "removing" /\ target' = n
    /\ UNCHANGED <<made, name, gen, chanVars, mapVars, entVars, goVars, now,
                   crashed, last>>

(* Remove, up to UnSubscribe, which closes the channel if the bus still has *)
(* it.                                                                      *)
RemoveUnsubscribe(n) ==
    /\ caller = "idle"
    /\ caller' = "removing" /\ target' = n
    /\ closed' = closed \union ({consumers[n]} \intersect registered)
    /\ registered' = registered \ {consumers[n]}
    /\ UNCHANGED <<made, name, gen, bus, buf, mapVars, entVars, goVars, now,
                   crashed, last>>

(* Mutant: Remove forgets the consumer.                                     *)
RemoveStateOnly ==
    /\ caller = "removing"
    /\ entries' = StateRemove(target)
    /\ caller' = "idle"
    /\ UNCHANGED <<target, made, name, gen, chanVars, consumers, entVars, goVars,
                   now, crashed, last>>

(* The rest of Remove: the consumer, then state.Remove.                     *)
RemoveState ==
    /\ caller = "removing"
    /\ consumers' = [consumers EXCEPT ![target] = None]
    /\ entries' = StateRemove(target)
    /\ caller' = "idle"
    /\ UNCHANGED <<target, made, name, gen, chanVars, entVars, goVars, now,
                   crashed, last>>

-------------------------------------------------------------------------------
(* The event bus: a worker sends an event to a registered channel with      *)
(* room, or Start closes all of them.                                       *)
BusSend(i, k) ==
    /\ i \in registered
    /\ Len(buf[i]) < Cap
    /\ buf' = [buf EXCEPT ![i] = Append(@, k)]
    /\ UNCHANGED <<callVars, registered, bus, closed, mapVars, entVars,
                   goVars, now, crashed, last>>

BusShutdown ==
    /\ bus = "up"
    /\ bus' = "down"
    /\ closed' = closed \union registered
    /\ registered' = {}
    /\ UNCHANGED <<callVars, buf, mapVars, entVars, goVars, now, crashed, last>>

-------------------------------------------------------------------------------
(* The goroutine of installation i.                                         *)

Receive(i) ==
    /\ gpc[i] = "recv" /\ buf[i] # <<>>
    /\ evt' = [evt EXCEPT ![i] = Head(buf[i])]
    /\ buf' = [buf EXCEPT ![i] = Tail(@)]
    /\ gpc' = [gpc EXCEPT ![i] = "lookup"]
    /\ UNCHANGED <<callVars, registered, bus, closed, mapVars, entVars,
                   entry, now, crashed, last>>

(* Mutant: a loop that takes a closed channel's zero value for an event.    *)
ExitMissed(i) ==
    /\ gpc[i] = "recv" /\ buf[i] = <<>> /\ i \in closed
    /\ gpc' = [gpc EXCEPT ![i] = "lookup"]
    /\ UNCHANGED <<callVars, chanVars, mapVars, entVars, evt, entry, now,
                   crashed, last>>

(* The range loop ends on a closed and empty channel.                       *)
Exit(i) ==
    /\ gpc[i] = "recv" /\ buf[i] = <<>> /\ i \in closed
    /\ gpc' = [gpc EXCEPT ![i] = "exited"]
    /\ UNCHANGED <<callVars, chanVars, mapVars, entVars, evt, entry, now,
                   crashed, last>>

(* Mutant: After instead of Before.                                         *)
ClearPending(runs) == [k \in EventKeys |-> IF runs[k] > now THEN 0 ELSE runs[k]]

(* clearExpiredLastRuns drops what is strictly before now.                  *)
ClearExpired(runs) == [k \in EventKeys |-> IF runs[k] < now THEN 0 ELSE runs[k]]

GetCounterMeasure(i) ==
    /\ gpc[i] = "lookup"
    /\ entry' = [entry EXCEPT ![i] = Lookup(i)]
    /\ gpc' = [gpc EXCEPT ![i] = IF Lookup(i) = None THEN "recv" ELSE "check"]
    /\ lastRuns' = IF Lookup(i) = None THEN lastRuns
                   ELSE [lastRuns EXCEPT ![Lookup(i)] = ClearExpired(@)]
    /\ UNCHANGED <<callVars, chanVars, mapVars, running, evt, now, crashed, last>>

(* IsSuppressed, on the entry found before: it may have been removed since. *)
IsSuppressed(e, k) == running[e] \/ lastRuns[e][k] > now

(* Suppressed, or NewRunner fails: the event is skipped.                    *)
Skip(i) ==
    /\ gpc[i] = "check"
    /\ gpc' = [gpc EXCEPT ![i] = "recv"]
    /\ entry' = [entry EXCEPT ![i] = None]
    /\ UNCHANGED <<callVars, chanVars, mapVars, entVars, evt, now, crashed, last>>

Proceed(i) ==
    /\ gpc[i] = "check"
    /\ ~IsSuppressed(entry[i], evt[i])
    /\ gpc' = [gpc EXCEPT ![i] = "start"]
    /\ UNCHANGED <<callVars, chanVars, mapVars, entVars, evt, entry, now,
                   crashed, last>>

(* CounterMeasureStart looks the entry up again.                            *)
CounterMeasureStart(i) ==
    LET e == Lookup(i)
        k == evt[i]
        until == now + Duration
    IN  /\ gpc[i] = "start"
        /\ e # None
        /\ running' = [running EXCEPT ![e] = TRUE]
        /\ IF name[i] \in Suppressing
           THEN /\ lastRuns' = [lastRuns EXCEPT ![e][k] = until]
                /\ last' = [last EXCEPT ![e][k] = [by |-> i, until |-> until]]
           ELSE UNCHANGED <<lastRuns, last>>
        /\ gpc' = [gpc EXCEPT ![i] = "run"]
        /\ entry' = [entry EXCEPT ![i] = None]
        /\ UNCHANGED <<callVars, chanVars, mapVars, evt, now, crashed>>

(* ActionRunner.Run returns: its actions are done, or one has failed.       *)
Run(i) ==
    /\ gpc[i] = "run"
    /\ gpc' = [gpc EXCEPT ![i] = "end"]
    /\ UNCHANGED <<callVars, chanVars, mapVars, entVars, evt, entry, now,
                   crashed, last>>

(* An action gets to a template that does not parse, and template.Must      *)
(* panics; ActionRunner.tla has the inside of the run.                      *)
RunPanics(i) ==
    /\ gpc[i] = "run" /\ name[i] \in Malformed
    /\ crashed' = TRUE
    /\ UNCHANGED <<callVars, chanVars, mapVars, entVars, goVars, now, last>>

(* CounterMeasureEnd looks the entry up a third time.                       *)
CounterMeasureEnd(i) ==
    /\ gpc[i] = "end"
    /\ Lookup(i) # None
    /\ running' = [running EXCEPT ![Lookup(i)] = FALSE]
    /\ gpc' = [gpc EXCEPT ![i] = "recv"]
    /\ UNCHANGED <<callVars, chanVars, mapVars, lastRuns, evt, entry, now,
                   crashed, last>>

(* Neither checks the lookup: entry.Lock() on nil panics.                   *)
NilEntry(i) ==
    /\ gpc[i] \in {"start", "end"}
    /\ Lookup(i) = None
    /\ crashed' = TRUE
    /\ UNCHANGED <<callVars, chanVars, mapVars, entVars, goVars, now, last>>

Tick ==
    /\ now < MaxTime
    /\ now' = now + 1
    /\ UNCHANGED <<callVars, chanVars, mapVars, entVars, goVars, crashed, last>>

-------------------------------------------------------------------------------
GoStep(i) ==
    \/ Receive(i) \/ Exit(i) \/ GetCounterMeasure(i) \/ Skip(i) \/ Proceed(i)
    \/ CounterMeasureStart(i) \/ Run(i) \/ RunPanics(i) \/ CounterMeasureEnd(i)
    \/ NilEntry(i)

Step ==
    \/ \E n \in Names, g \in Gens : AddSubscribe(n, g)
    \/ AddInstall
    \/ \E n \in Names : RemoveUnsubscribe(n)
    \/ RemoveState
    \/ \E i \in Installs, k \in EventKeys : BusSend(i, k)
    \/ BusShutdown
    \/ \E i \in Installs : GoStep(i)
    \/ Tick

Next == ~crashed /\ Step

Spec == Init /\ [][Next]_vars

(* Goroutines run and Add and Remove return; nobody has to call them, and   *)
(* no event has to arrive.                                                  *)
Fairness ==
    /\ \A i \in Installs : WF_vars(~crashed /\ GoStep(i))
    /\ WF_vars(~crashed /\ AddInstall)
    /\ WF_vars(~crashed /\ RemoveState)

FairSpec == Spec /\ Fairness

-------------------------------------------------------------------------------
(* Properties                                                               *)

Alive(i) == gpc[i] \notin {"none", "exited"}

(* "make sure to unsubscribe to stop the running goroutine, otherwise we'll *)
(* have a goroutine leak": a goroutine whose channel is still open is the   *)
(* one its name's consumer would unsubscribe, so that Remove can stop it.   *)
NoOrphanGoroutine ==
    \A i \in Installs : Alive(i) /\ i \notin closed => consumers[name[i]] = i

(* The reconciler leaves alone what Exists, so an installed countermeasure  *)
(* that is deaf would stay so: until the bus goes down, the consumer and    *)
(* the entry of a name that is not just being removed belong to it, its     *)
(* channel is registered and its goroutine runs.                            *)
InstalledListens ==
    \A n \in Names :
        Exists(n) /\ bus = "up" /\ ~(caller = "removing" /\ target = n) =>
            /\ name[consumers[n]] = n
            /\ entries[n] = consumers[n]
            /\ consumers[n] \in registered
            /\ Alive(consumers[n])

(* The suppression policy: a goroutine about to start an entry, its own or  *)
(* that of a later installation with its key, does so no sooner than the    *)
(* policy's duration after the entry's last start for that event, if it     *)
(* made that start itself.  It may be too soon after a start that another   *)
(* goroutine made between its IsSuppressed and its CounterMeasureStart, and *)
(* a countermeasure that is created again starts with no windows at all.    *)
SuppressionHonoured ==
    \A i \in Installs :
        LET start == last[Lookup(i)][evt[i]]
        IN  gpc[i] = "start" /\ Lookup(i) # None /\ start.by = i => now >= start.until

(* "if this action is already running then prevent it from running again":  *)
(* a goroutine is about to start an entry that runs already only if a       *)
(* goroutine that Remove has unsubscribed, of an earlier installation of    *)
(* the same generation, is still at work: that one or another passed        *)
(* IsSuppressed before the other's CounterMeasureStart.                     *)
TwiceOnlyByLeftover ==
    \A i \in Installs :
        gpc[i] = "start" /\ Lookup(i) # None /\ running[Lookup(i)] =>
            \E j \in closed \ {Lookup(i)} :
                name[j] = name[i] /\ gen[j] = gen[Lookup(i)] /\ Alive(j)

(* CounterMeasureStart and CounterMeasureEnd "record" a run of a deployed   *)
(* countermeasure; a Remove meanwhile must not bring the process down.      *)
NoCrash == ~crashed

(* Beside a malformed template, what crashes is a goroutine in the middle   *)
(* of a run of a countermeasure that Remove has unsubscribed and forgotten: *)
(* the entries of one that is installed, or that only the bus has closed,   *)
(* are found by CounterMeasureStart and CounterMeasureEnd.                  *)
CrashCauses ==
    crashed => \E i \in Installs :
                  \/ /\ gpc[i] \in {"start", "end"}
                     /\ i \in closed /\ consumers[name[i]] # i
                  \/ gpc[i] = "run" /\ name[i] \in Malformed

(* Remove stops the goroutine: once its channel is closed it ends, having   *)
(* worked off what the channel still held.                                  *)
GoroutineEnds ==
    \A i \in Installs : i \in closed /\ Alive(i) ~> gpc[i] = "exited" \/ crashed
===============================================================================
