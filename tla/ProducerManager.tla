---------------------------- MODULE ProducerManager ----------------------------
(***************************************************************************)
(* The producer manager (pkg/producer/manager.go) and the Prometheus event  *)
(* producers it runs (pkg/producer/prometheus).  The Prometheus reconciler, *)
(* one goroutine, calls Exists, Add and Remove; the controller manager      *)
(* calls Start concurrently.  A producer polls its Prometheus service and   *)
(* publishes an event per active alert until the shutdown channel closes.   *)
(*                                                                          *)
(* The i-th Add is producer i: an object of its own, with the key (name and *)
(* generation) of the custom resource it was made from.                     *)
(***************************************************************************)
EXTENDS Naturals

CONSTANTS
    Names,          \* namespaced names of Prometheus resources
    Gens,           \* metadata.generation values
    Alerts,         \* the alerts a Prometheus service may report
    MaxAdds         \* bound: the number of Add calls

ASSUME ProducerAssumption ==
    /\ Names # {} /\ Gens # {} /\ Gens \subseteq Nat
    /\ MaxAdds \in Nat

Prods == 1 .. MaxAdds
AlertStates == {"inactive", "pending", "firing"}

VARIABLES
    mgr,            \* Manager.Start: "new", "starting" (in startProducers,
                    \* holding producersMux), "waiting" for its context, "stopped"
    shutdown,       \* Manager.shutdown: "nil", "open" or "closed"
    made,           \* the number of Add calls
    key,            \* each producer's ObjectKey
    pending,        \* each producer's config.IncludePending
    producers,      \* Manager.producers
    proc,           \* each producer: "off", "launched" (its goroutine exists),
                    \* "polling" or "stopped"
    unsent,         \* alerts of a producer's poll that it has not yet published
    alerts,         \* the state of each alert in Prometheus
    notified        \* history: the alerts each producer has published since
                    \* they last changed state

mgrVars  == <<mgr, shutdown>>
regVars  == <<made, key, pending, producers>>
pollVars == <<unsent, notified>>
vars     == <<mgrVars, regVars, pollVars, proc, alerts>>

TypeOK ==
    /\ mgr \in {"new", "starting", "waiting", "stopped"}
    /\ shutdown \in {"nil", "open", "closed"}
    /\ shutdown = "nil" <=> mgr = "new"     \* close(m.shutdown) of nil panics
    /\ made \in 0 .. MaxAdds
    /\ key \in [Prods -> Names \X Gens]
    /\ pending \in [Prods -> BOOLEAN]
    /\ producers \subseteq 1 .. made
    /\ proc \in [Prods -> {"off", "launched", "polling", "stopped"}]
    /\ unsent \in [Prods -> SUBSET Alerts]
    /\ alerts \in [Alerts -> AlertStates]
    /\ notified \in [Prods -> SUBSET Alerts]

Init ==
    /\ mgr = "new" /\ shutdown = "nil"
    /\ made = 0
    /\ key = [i \in Prods |-> CHOOSE k \in Names \X Gens : TRUE]
    /\ pending = [i \in Prods |-> FALSE]
    /\ producers = {}
    /\ proc = [i \in Prods |-> "off"]
    /\ unsent = [i \in Prods |-> {}]
    /\ alerts = [a \in Alerts |-> "inactive"]
    /\ notified = [i \in Prods |-> {}]

-------------------------------------------------------------------------------
(* producersMux is free: startProducers is the only holder that can block.  *)
Unlocked == mgr # "starting"

(* Exists compares the whole key, generation included.                      *)
Exists(k) == \E i \in producers : key[i] = k

(* Mutant: Add leaves starting the producer to the manager.                 *)
AddRegisters(n, g, p) ==
    /\ Unlocked /\ ~Exists(<<n, g>>)
    /\ made < MaxAdds
    /\ made' = made + 1
    /\ key' = [key EXCEPT ![made + 1] = <<n, g>>]
    /\ pending' = [pending EXCEPT ![made + 1] = p]
    /\ producers' = {i \in producers : key[i] # <<n, g>>} \union {made + 1}
    /\ UNCHANGED <<mgrVars, pollVars, proc, alerts>>

(* Add, called by the reconciler for a resource that does not Exist: starts *)
(* a goroutine for the producer if the manager has been started.            *)
Add(n, g, p) ==
    /\ Unlocked /\ ~Exists(<<n, g>>)
    /\ made < MaxAdds
    /\ made' = made + 1
    /\ key' = [key EXCEPT ![made + 1] = <<n, g>>]
    /\ pending' = [pending EXCEPT ![made + 1] = p]
    /\ producers' = {i \in producers : key[i] # <<n, g>>} \union {made + 1}
    /\ proc' = IF shutdown # "nil" THEN [proc EXCEPT ![made + 1] = "launched"]
               ELSE proc
    /\ UNCHANGED <<mgrVars, pollVars, alerts>>

(* Remove forgets the producers of a name, of every generation.             *)
Remove(n) ==
    /\ Unlocked
    /\ producers' = {i \in producers : key[i][1] # n}
    /\ UNCHANGED <<mgrVars, made, key, pending, pollVars, proc, alerts>>

-------------------------------------------------------------------------------
(* Mutant: startProducers returns before it makes the channel.              *)
StartEmptyNoChannel ==
    /\ mgr = "new" /\ producers = {}
    /\ mgr' = "waiting"
    /\ UNCHANGED <<shutdown, regVars, pollVars, proc, alerts>>

(* Start with no producer yet: startProducers makes the shutdown channel.   *)
StartEmpty ==
    /\ mgr = "new" /\ producers = {}
    /\ shutdown' = "open"
    /\ mgr' = "waiting"
    /\ UNCHANGED <<regVars, pollVars, proc, alerts>>

(* Start with producers: startProducers calls the first one's Start, which  *)
(* polls and returns only when the shutdown channel is closed.  The one     *)
(* statement that closes it comes after startProducers, so the loop never   *)
(* reaches its second producer and producersMux is never released.          *)
StartBlocks(i) ==
    /\ mgr = "new" /\ i \in producers
    /\ shutdown' = "open"
    /\ mgr' = "starting"
    /\ proc' = [proc EXCEPT ![i] = "polling"]
    /\ UNCHANGED <<regVars, pollVars, alerts>>

(* The context is cancelled.                                                *)
Shutdown ==
    /\ mgr = "waiting"
    /\ mgr' = "stopped"
    /\ shutdown' = "closed"
    /\ UNCHANGED <<regVars, pollVars, proc, alerts>>

-------------------------------------------------------------------------------
(* EventProducer.Start, in the goroutine that Add launched.                 *)
ProducerStart(i) ==
    /\ proc[i] = "launched"
    /\ proc' = [proc EXCEPT ![i] = "polling"]
    /\ UNCHANGED <<mgrVars, regVars, pollVars, alerts>>

(* Mutant: the shutdown reaches only the producers still in the map.        *)
ProducerStopRegistered(i) ==
    /\ proc[i] = "polling" /\ unsent[i] = {}
    /\ shutdown = "closed" /\ i \in producers
    /\ proc' = [proc EXCEPT ![i] = "stopped"]
    /\ UNCHANGED <<mgrVars, regVars, pollVars, alerts>>

(* wait.Until looks at the shutdown channel between two polls.              *)
ProducerStop(i) ==
    /\ proc[i] = "polling" /\ unsent[i] = {}
    /\ shutdown = "closed"
    /\ proc' = [proc EXCEPT ![i] = "stopped"]
    /\ UNCHANGED <<mgrVars, regVars, pollVars, alerts>>

(* Mutant: includePending asks for the pending alerts only.                 *)
PollPendingOnly(i) ==
    /\ proc[i] = "polling" /\ unsent[i] = {}
    /\ unsent' = [unsent EXCEPT ![i] =
                      {a \in Alerts : alerts[a] = IF pending[i] THEN "pending"
                                                  ELSE "firing"}]
    /\ UNCHANGED <<mgrVars, regVars, notified, proc, alerts>>

(* findActiveAlert                                                          *)
ActiveAlerts(i) ==
    {a \in Alerts : \/ alerts[a] = "firing"
                    \/ pending[i] /\ alerts[a] = "pending"}

(* poll fetches the alerts; a failed query leaves it for the next round.    *)
Poll(i) ==
    /\ proc[i] = "polling" /\ unsent[i] = {}
    /\ unsent' = [unsent EXCEPT ![i] = ActiveAlerts(i)]
    /\ UNCHANGED <<mgrVars, regVars, notified, proc, alerts>>

(* poll publishes its events one by one, under the source's name.           *)
Publish(i, a) ==
    /\ a \in unsent[i]
    /\ unsent' = [unsent EXCEPT ![i] = @ \ {a}]
    /\ notified' = [notified EXCEPT ![i] = @ \union {a}]
    /\ UNCHANGED <<mgrVars, regVars, proc, alerts>>

(* Prometheus evaluates its rules.                                          *)
AlertChanges(a, s) ==
    /\ alerts[a] # s
    /\ alerts' = [alerts EXCEPT ![a] = s]
    /\ notified' = [i \in Prods |-> notified[i] \ {a}]
    /\ UNCHANGED <<mgrVars, regVars, unsent, proc>>

-------------------------------------------------------------------------------
ProducerStep(i) ==
    \/ ProducerStart(i)
    \/ Poll(i)
    \/ \E a \in Alerts : Publish(i, a)

Next ==
    \/ \E n \in Names, g \in Gens, p \in BOOLEAN : Add(n, g, p)
    \/ \E n \in Names : Remove(n)
    \/ StartEmpty
    \/ \E i \in Prods : StartBlocks(i)
    \/ Shutdown
    \/ \E i \in Prods : ProducerStep(i) \/ ProducerStop(i)
    \/ \E a \in Alerts, s \in AlertStates : AlertChanges(a, s)

Spec == Init /\ [][Next]_vars

(* The controller manager starts every runnable; goroutines and timers run, *)
(* and a query of Prometheus succeeds in the end.                           *)
(* A select between the shutdown channel and the poll timer may take the    *)
(* timer, but wait.Until looks at the channel first on every round.         *)
Fairness ==
    /\ WF_vars(StartEmpty \/ \E i \in Prods : StartBlocks(i))
    /\ \A i \in Prods : WF_vars(ProducerStep(i)) /\ SF_vars(ProducerStop(i))

FairSpec == Spec /\ Fairness

-------------------------------------------------------------------------------
(* Properties                                                               *)

(* Add and Start race for producersMux: whichever comes first, a producer   *)
(* registered once Start is past startProducers has been launched, by the   *)
(* one or by the other.                                                     *)
NoProducerMissed ==
    mgr \in {"waiting", "stopped"} => \A i \in producers : proc[i] # "off"

(* An alert that stays active, as the producer's includePending defines it, *)
(* is published by every producer that polls, until the shutdown.           *)
ActiveIsPublished ==
    \A i \in Prods, a \in Alerts :
        proc[i] = "polling" /\ a \in ActiveAlerts(i) ~>
            a \in notified[i] \/ a \notin ActiveAlerts(i) \/ proc[i] = "stopped"

(* Start closes the shutdown channel when its context is done, and every    *)
(* producer, launched before or after, stops polling.                       *)
ShutdownStopsPolling ==
    \A i \in Prods :
        shutdown = "closed" /\ proc[i] # "off" ~> proc[i] = "stopped"

(* "otherwise the producer will start when the manager starts" and          *)
(* "startProducers starts all producers": a producer that stays registered  *)
(* in a started manager polls.                                              *)
StartsAllProducers ==
    \A i \in Prods :
        shutdown = "open" /\ i \in producers ~> proc[i] # "off" \/ i \notin producers
===============================================================================
