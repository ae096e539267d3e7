-------------------------------- MODULE AlertFlow --------------------------------
(***************************************************************************)
(* From an alert to the countermeasure's run: producers that poll           *)
(* Prometheus (pkg/producer/prometheus), the key an event is known by       *)
(* (pkg/events), and the goroutine of one installed countermeasure with its *)
(* suppression policy (pkg/actions/manager.go, pkg/actions/state).  The bus *)
(* is what PubSub.tla promises: a message gets there at least once, in no   *)
(* particular order, and into a channel that may be full.                   *)
(***************************************************************************)
EXTENDS Events

CONSTANTS
    Alerts,         \* the alerts of the cluster: label -> value
    Steady,         \* bound: those that fire from the start and go on
    Sources,        \* Prometheus resources, as the segments <<namespace, name>>
    EventName,      \* spec.onEvent.name
    Duration,       \* spec.onEvent.suppressionPolicy.duration
    Cap,            \* CONSUMER_BUFFER_SIZE, 10 in the code
    MaxTime         \* bound: how long the clock runs

ASSUME FlowAssumption ==
    /\ \A a \in Alerts : /\ IsFiniteSet(DOMAIN a) /\ DOMAIN a \subseteq Nat
                         /\ \A l \in DOMAIN a : a[l] \in Seq(STRING)
    /\ Steady \subseteq Alerts
    /\ Sources \subseteq Seq(Seq(STRING))
    /\ Duration \in Nat \ {0} /\ Cap \in Nat \ {0} /\ MaxTime \in Nat

Never == MaxTime + 1
NoAlert == << >>

VARIABLES
    firing,         \* the alerts that fire
    unsent,         \* each producer: the alerts of its poll not yet published
    bus,            \* the alerts whose messages the bus has for this subscriber
    buf,            \* the consumer's channel
    gpc,            \* the goroutine: "recv", "lookup", "check", "start", "run"
    evt,            \* the event it handles
    lastRuns,       \* Entry.lastRuns: pairs of a key and a time
    now,            \* the clock
    started         \* history: when each alert last started a run

vars == <<firing, unsent, bus, buf, gpc, evt, lastRuns, now, started>>
goVars == <<gpc, evt, lastRuns, started>>

TypeOK ==
    /\ firing \subseteq Alerts /\ bus \subseteq Alerts
    /\ unsent \in [Sources -> SUBSET Alerts]
    /\ buf \in Seq(Alerts) /\ Len(buf) <= Cap
    /\ gpc \in {"recv", "lookup", "check", "start", "run"}
    /\ evt \in Alerts \union {NoAlert}
    /\ \A r \in lastRuns : r[2] \in 0 .. MaxTime + Duration
    /\ \A r, s \in lastRuns : r[1] = s[1] => r = s
    /\ now \in 0 .. MaxTime
    /\ started \in [Alerts -> 0 .. Never]

Init ==
    /\ firing = Steady /\ bus = {} /\ buf = <<>>
    /\ unsent = [s \in Sources |-> {}]
    /\ gpc = "recv" /\ evt = NoAlert /\ lastRuns = {}
    /\ now = 0
    /\ started = [a \in Alerts |-> Never]

-------------------------------------------------------------------------------
(* Prometheus, and the clock.                                               *)

AlertChanges(a) ==
    /\ a \notin Steady
    /\ firing' = IF a \in firing THEN firing \ {a} ELSE firing \union {a}
    /\ UNCHANGED <<unsent, bus, buf, goVars, now>>

Tick ==
    /\ now < MaxTime
    /\ now' = now + 1
    /\ UNCHANGED <<firing, unsent, bus, buf, goVars>>

-------------------------------------------------------------------------------
(* EventProducer.poll: all producers see the same alerts, in their own time. *)
Poll(s) ==
    /\ unsent[s] = {}
    /\ unsent' = [unsent EXCEPT ![s] = firing]
    /\ UNCHANGED <<firing, bus, buf, goVars, now>>

(* The topic is the alert's and the source's; SubscriberMatch finds the     *)
(* countermeasure's subscription if its topic is a prefix.                  *)
Publish(s, a) ==
    LET topic == FullyQualifiedTopicName(ToEvent(a).name, s)
    IN  /\ a \in unsent[s]
        /\ unsent' = [unsent EXCEPT ![s] = @ \ {a}]
        /\ bus' = IF SubSeq(topic, 1, 1) = <<EventName>> THEN bus \union {a} ELSE bus
        /\ UNCHANGED <<firing, buf, goVars, now>>

(* The bus sends to the channel.  When another subscriber's channel is full *)
(* the message is sent to this one again.                                   *)
Deliver(a) ==
    /\ a \in bus /\ Len(buf) < Cap
    /\ buf' = Append(buf, a)
    /\ bus' \in {bus, bus \ {a}}
    /\ UNCHANGED <<firing, unsent, goVars, now>>

-------------------------------------------------------------------------------
(* The goroutine of Manager.Add, for a countermeasure that stays installed. *)

Receive ==
    /\ gpc = "recv" /\ buf # <<>>
    /\ evt' = Head(buf) /\ buf' = Tail(buf)
    /\ gpc' = "lookup"
    /\ UNCHANGED <<firing, unsent, bus, lastRuns, now, started>>

(* GetCounterMeasure, with clearExpiredLastRuns.                            *)
GetCounterMeasure ==
    /\ gpc = "lookup"
    /\ lastRuns' = {r \in lastRuns : ~(r[2] < now)}
    /\ gpc' = "check"
    /\ UNCHANGED <<firing, unsent, bus, buf, evt, now, started>>

(* Mutant: the boundary of the window counts as suppressed.                 *)
IsSuppressedAtEnd(key) == \E r \in lastRuns : r[1] = key /\ r[2] >= now

(* IsSuppressed; a run of this goroutine is over when it asks.              *)
IsSuppressed(key) == \E r \in lastRuns : r[1] = key /\ r[2] > now

(* The key is computed with the map's order of this moment.                 *)
Check ==
    /\ gpc = "check"
    /\ \E order \in RangeOrders(DOMAIN evt) :
        IF IsSuppressed(Key(ToEvent(evt), order)) THEN gpc' = "recv" /\ evt' = NoAlert
        ELSE gpc' = "start" /\ UNCHANGED evt
    /\ UNCHANGED <<firing, unsent, bus, buf, lastRuns, now, started>>

(* CounterMeasureStart computes the key once more.                          *)
CounterMeasureStart ==
    /\ gpc = "start"
    /\ \E order \in RangeOrders(DOMAIN evt) :
        LET k == Key(ToEvent(evt), order)
        IN  lastRuns' = {r \in lastRuns : r[1] # k} \union {<<k, now + Duration>>}
    /\ started' = [started EXCEPT ![evt] = now]
    /\ gpc' = "run"
    /\ UNCHANGED <<firing, unsent, bus, buf, evt, now>>

(* The runner returns, and CounterMeasureEnd.                               *)
Run ==
    /\ gpc = "run"
    /\ gpc' = "recv" /\ evt' = NoAlert
    /\ UNCHANGED <<firing, unsent, bus, buf, lastRuns, now, started>>

-------------------------------------------------------------------------------
GoStep == Receive \/ GetCounterMeasure \/ Check \/ CounterMeasureStart \/ Run

SourceStep(s) == Poll(s) \/ \E a \in Alerts : Publish(s, a)

Next ==
    \/ Tick \/ GoStep
    \/ \E a \in Alerts : AlertChanges(a) \/ Deliver(a)
    \/ \E s \in Sources : SourceStep(s)

Spec == Init /\ [][Next]_vars

(* Timers and goroutines run, and the bus delivers what has room (Delivery  *)
(* of PubSub.tla).                                                          *)
Fairness ==
    /\ WF_vars(GoStep)
    /\ \A s \in Sources : WF_vars(SourceStep(s))
    /\ \A a \in Alerts : SF_vars(Deliver(a))

FairSpec == Spec /\ Fairness

-------------------------------------------------------------------------------
(* Properties                                                               *)

(* "a key that can be used to de-duplicate events": an alert that keeps     *)
(* firing is published by every poll of every source, and perhaps delivered *)
(* twice, and does not start a second run within the policy's duration.     *)
OncePerWindow ==
    [][gpc = "start" /\ gpc' = "run"
       => started[evt] = Never \/ now >= started[evt] + Duration]_vars

(* The key of each alert.                                                   *)
KeyOf ==
    [a \in Alerts |-> Key(ToEvent(a), CHOOSE order \in RangeOrders(DOMAIN a) : TRUE)]

(* An event is skipped only because an alert with its key started a run     *)
(* less than the policy's duration ago: no later than the window's end, and *)
(* never for a run of another key.  Two alerts may have one key, by the     *)
(* hash or because Event.Key puts nothing between the values: then the run  *)
(* of one does suppress the other.                                          *)
SkippedForItsKey ==
    [][gpc = "check" /\ gpc' = "recv"
       => \E a \in Alerts : /\ KeyOf[a] = KeyOf[evt]
                            /\ started[a] # Never
                            /\ now < started[a] + Duration]_vars

(* While alerts of one key and the name the countermeasure waits for keep   *)
(* firing, one of them starts a run; full channels, alerts of other keys    *)
(* and other sources delay it and do not keep it out.                       *)
FiringRuns ==
    \A key \in {KeyOf[a] : a \in Alerts} :
        LET same == {a \in Alerts : KeyOf[a] = key /\ ToEvent(a).name = EventName}
        IN  same \intersect firing # {} ~>
                same \intersect firing = {} \/ \E a \in same : started[a] # Never
===============================================================================
