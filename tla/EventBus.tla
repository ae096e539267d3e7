------------------------------- MODULE EventBus -------------------------------
(***************************************************************************)
(* The event bus of pkg/eventbus/eventbus.go.  Producers Publish messages   *)
(* into a client-go rate-limited workqueue; a pool of workers takes them    *)
(* out and offers each one, without blocking, to the buffered channel of    *)
(* every matching subscriber.  A full channel puts the message back on the  *)
(* workqueue after a back-off.  Start owns the shutdown: it drains the      *)
(* queue, closes the channels and stops the workers.                        *)
(*                                                                          *)
(* Topics are sequences of segments: "a:ns:name" is <<"a", "ns", "name">>.  *)
(* Channels are numbered in the order Subscribe makes them.                 *)
(***************************************************************************)
EXTENDS Naturals, Sequences, SequencesExt, FiniteSets

CONSTANTS
    Workers,        \* the goroutines Start launches, main.go passes NumCPU
    Msgs,           \* the distinct messages (workqueue items) publishers send
    NoMsg,          \* a worker holds no message
    MsgTopic,       \* the topic each message is published to
    SubTopics,      \* the topics Subscribe may be called with
    MaxSubs,        \* bound: the number of Subscribe calls
    MaxPublishes,   \* bound: the number of Publish calls
    Cap             \* CONSUMER_BUFFER_SIZE, 10 in the code

ASSUME BusAssumption ==
    /\ NoMsg \notin Msgs
    /\ SubTopics \subseteq Seq(STRING) \ {<<>>}
    /\ MsgTopic \in [Msgs -> Seq(STRING)]
    /\ MaxSubs \in Nat /\ MaxPublishes \in Nat
    /\ Cap \in Nat \ {0}

Chans == 1 .. MaxSubs

VARIABLES
    \* the workqueue (k8s.io/client-go/util/workqueue)
    queue,          \* items ready to be taken, in order
    dirty,          \* items that need processing
    processing,     \* items a worker has taken and not yet marked Done
    waiting,        \* items in their AddRateLimited back-off
    \* EventBus.subscribers and the channels
    subscribers,    \* the channels registered in the map
    topic,          \* the topic each channel was registered under
    made,           \* how many channels Subscribe has made
    closed,         \* the closed channels
    buf,            \* the events buffered in each channel
    \* control
    writer,         \* the reconciler calling Subscribe/unsubscribe: "idle" or
                    \* "waiting" in subscribersMux.Lock()
    pc,             \* each worker's place in processNextWorkItem
    cur,            \* each worker's message
    todo,           \* channels a worker's SubscriberMatch returned, unsent
    starter,        \* the goroutine in Start
    panic,          \* a send on a closed channel ended the process
    published,      \* counts Publish calls, for the bound
    owed            \* history: owed[m] is the channels that were registered
                    \* for m's topic when m was published and neither got it
                    \* since nor were unsubscribed

wqVars  == <<queue, dirty, processing, waiting>>
subVars == <<subscribers, topic, made, closed, writer>>
wkVars  == <<pc, cur, todo>>
vars    == <<wqVars, subVars, wkVars, buf, starter, panic, published, owed>>

TypeOK ==
    /\ queue \in Seq(Msgs)
    /\ dirty \subseteq Msgs /\ processing \subseteq Msgs /\ waiting \subseteq Msgs
    /\ made \in 0 .. MaxSubs
    /\ subscribers \subseteq 1 .. made /\ closed \subseteq 1 .. made
    /\ topic \in [Chans -> SubTopics \union {<<>>}]
    /\ buf \in [Chans -> Seq(Msgs)]
    /\ \A c \in Chans : Len(buf[c]) <= Cap
    /\ writer \in {"idle", "waiting"}
    /\ pc \in [Workers -> {"get", "lock", "deliver", "done", "idle", "stopped"}]
    /\ cur \in [Workers -> Msgs \union {NoMsg}]
    /\ todo \in [Workers -> SUBSET Chans]
    /\ starter \in {"serving", "draining", "locking", "closing", "stopping",
                    "returned"}
    /\ panic \in BOOLEAN
    /\ published \in 0 .. MaxPublishes
    /\ owed \in [Msgs -> SUBSET Chans]

Init ==
    /\ queue = <<>> /\ dirty = {} /\ processing = {} /\ waiting = {}
    /\ subscribers = {} /\ closed = {} /\ made = 0
    /\ topic = [c \in Chans |-> <<>>]
    /\ buf = [c \in Chans |-> <<>>]
    /\ writer = "idle"
    /\ pc = [w \in Workers |-> "get"]
    /\ cur = [w \in Workers |-> NoMsg]
    /\ todo = [w \in Workers |-> {}]
    /\ starter = "serving"
    /\ panic = FALSE
    /\ published = 0
    /\ owed = [m \in Msgs |-> {}]

-------------------------------------------------------------------------------
(* The workqueue is shutting down: Start has called ShutDownWithDrain.      *)
ShuttingDown == starter # "serving"

(* Mutant: match on the first segment only.                                 *)
SubscriberMatchByHead(t) == {c \in subscribers : Head(topic[c]) = Head(t)}

(* The channels SubscriberMatch returns: those registered under the topic   *)
(* or under one of its prefixes.  Matcher.tla checks this against the code's *)
(* recursion.                                                               *)
SubscriberMatch(t) ==
    {c \in subscribers : IsPrefix(topic[c], t)}

(* The order of the loop over SubscriberMatch's slice: the longest topic    *)
(* first, and within a topic the order of the Subscribe calls.              *)
IsNext(c, S) ==
    /\ c \in S
    /\ \A d \in S \ {c} :
        \/ Len(topic[c]) > Len(topic[d])
        \/ Len(topic[c]) = Len(topic[d]) /\ c < d

(* subscribersMux: who holds it for reading.  A writer waiting in Lock      *)
(* keeps new readers out.                                                   *)
ReadLocked ==
    \/ \E w \in Workers : pc[w] = "deliver"
    \/ starter \in {"closing", "stopping"}

(* workqueue.Add: ignored once shutting down or while the item is dirty;    *)
(* an item in processing is queued again by Done.                           *)
Enqueue(m) ==
    IF ShuttingDown \/ m \in dirty
    THEN UNCHANGED <<queue, dirty>>
    ELSE /\ dirty' = dirty \union {m}
         /\ queue' = IF m \in processing THEN queue ELSE Append(queue, m)

-------------------------------------------------------------------------------
(* Publish queues a message; the queue may coalesce it with an equal one.   *)
Publish(m) ==
    /\ published < MaxPublishes
    /\ published' = published + 1
    /\ Enqueue(m)
    /\ owed' = [owed EXCEPT ![m] = @ \union SubscriberMatch(MsgTopic[m])]
    /\ UNCHANGED <<processing, waiting, subVars, wkVars, buf,
                   starter, panic>>

(* The delaying queue's timer: an item's back-off is over.                  *)
BackoffOver(m) ==
    /\ m \in waiting
    /\ waiting' = waiting \ {m}
    /\ Enqueue(m)
    /\ UNCHANGED <<processing, subVars, wkVars, buf, starter,
                   panic, published, owed>>

-------------------------------------------------------------------------------
(* processNextWorkItem, worker w.                                           *)

(* workqueue.Get returns an item.                                           *)
Get(w) ==
    /\ pc[w] = "get"
    /\ queue # <<>>
    /\ queue' = Tail(queue)
    /\ dirty' = dirty \ {Head(queue)}
    /\ processing' = processing \union {Head(queue)}
    /\ cur' = [cur EXCEPT ![w] = Head(queue)]
    /\ pc' = [pc EXCEPT ![w] = "lock"]
    /\ UNCHANGED <<waiting, subVars, todo, buf, starter, panic,
                   published, owed>>

(* Mutant: processNextWorkItem returns true on shutdown.                    *)
GetShutdownReturnsTrue(w) ==
    /\ pc[w] = "get"
    /\ queue = <<>> /\ ShuttingDown
    /\ UNCHANGED vars

(* workqueue.Get reports the shutdown: runWorker returns to wait.Until.     *)
GetShutdown(w) ==
    /\ pc[w] = "get"
    /\ queue = <<>> /\ ShuttingDown
    /\ pc' = [pc EXCEPT ![w] = "idle"]
    /\ UNCHANGED <<wqVars, subVars, cur, todo, buf, starter, panic, published,
                   owed>>

(* wait.Until's second is over and nobody is sending on workerShutdownChan: *)
(* runWorker is called again.                                               *)
RunWorker(w) ==
    /\ pc[w] = "idle"
    /\ starter # "stopping"
    /\ pc' = [pc EXCEPT ![w] = "get"]
    /\ UNCHANGED <<wqVars, subVars, cur, todo, buf, starter, panic, published,
                   owed>>

(* RLock, then SubscriberMatch copies the channels to send to.              *)
Match(w) ==
    /\ pc[w] = "lock"
    /\ writer = "idle"
    /\ todo' = [todo EXCEPT ![w] = SubscriberMatch(MsgTopic[cur[w]])]
    /\ pc' = [pc EXCEPT ![w] = "deliver"]
    /\ UNCHANGED <<wqVars, subVars, cur, buf, starter, panic, published, owed>>

(* Mutant: an unbounded channel.                                            *)
SendUnbounded(w) ==
    /\ pc[w] = "deliver"
    /\ \E c \in Chans \ closed :
        /\ IsNext(c, todo[w])
        /\ buf' = [buf EXCEPT ![c] = Append(@, cur[w])]
        /\ owed' = [owed EXCEPT ![cur[w]] = @ \ {c}]
        /\ todo' = [todo EXCEPT ![w] = @ \ {c}]
    /\ UNCHANGED <<wqVars, subVars, pc, cur, starter, panic, published>>

(* The select sends: there is room in the next channel.                     *)
Send(w) ==
    /\ pc[w] = "deliver"
    /\ \E c \in Chans \ closed :
        /\ IsNext(c, todo[w])
        /\ Len(buf[c]) < Cap
        /\ buf' = [buf EXCEPT ![c] = Append(@, cur[w])]
        /\ owed' = [owed EXCEPT ![cur[w]] = @ \ {c}]
        /\ todo' = [todo EXCEPT ![w] = @ \ {c}]
    /\ UNCHANGED <<wqVars, subVars, pc, cur, starter, panic, published>>

(* Mutant: a full channel drops the message.                                *)
SendFullDrops(w) ==
    /\ pc[w] = "deliver"
    /\ \E c \in Chans \ closed : IsNext(c, todo[w]) /\ Len(buf[c]) >= Cap
    /\ todo' = [todo EXCEPT ![w] = {}]
    /\ pc' = [pc EXCEPT ![w] = "done"]
    /\ UNCHANGED <<wqVars, subVars, cur, buf, starter, panic, published, owed>>

(* The select takes its default: AddRateLimited, which a queue that is      *)
(* shutting down ignores, and the remaining channels are skipped.           *)
SendFull(w) ==
    /\ pc[w] = "deliver"
    /\ \E c \in Chans \ closed : IsNext(c, todo[w]) /\ Len(buf[c]) >= Cap
    /\ waiting' = IF ShuttingDown THEN waiting ELSE waiting \union {cur[w]}
    /\ todo' = [todo EXCEPT ![w] = {}]
    /\ pc' = [pc EXCEPT ![w] = "done"]
    /\ UNCHANGED <<queue, dirty, processing, subVars, cur, buf,
                   starter, panic, published, owed>>

(* A send on a closed channel panics, which wait.Until does not recover.    *)
SendClosed(w) ==
    /\ pc[w] = "deliver"
    /\ \E c \in closed : IsNext(c, todo[w])
    /\ panic' = TRUE
    /\ UNCHANGED <<wqVars, subVars, wkVars, buf, starter, published, owed>>

(* All channels served: Forget, then the deferred RUnlock.                  *)
Forget(w) ==
    /\ pc[w] = "deliver" /\ todo[w] = {}
    /\ pc' = [pc EXCEPT ![w] = "done"]
    /\ UNCHANGED <<wqVars, subVars, cur, todo, buf, starter, panic, published,
                   owed>>

(* The deferred Done: an item made dirty meanwhile is queued again.         *)
Done(w) ==
    /\ pc[w] = "done"
    /\ processing' = processing \ {cur[w]}
    /\ queue' = IF cur[w] \in dirty THEN Append(queue, cur[w]) ELSE queue
    /\ cur' = [cur EXCEPT ![w] = NoMsg]
    /\ pc' = [pc EXCEPT ![w] = "get"]
    /\ UNCHANGED <<dirty, waiting, subVars, todo, buf, starter,
                   panic, published, owed>>

-------------------------------------------------------------------------------
(* The caller of Subscribe and unsubscribe: the CounterMeasure reconciler,  *)
(* one goroutine.  Its arguments are chosen when it gets the lock.          *)

Lock ==
    /\ writer = "idle"
    /\ made < MaxSubs \/ made > 0
    /\ writer' = "waiting"
    /\ UNCHANGED <<wqVars, subscribers, topic, made, closed, wkVars, buf,
                   starter, panic, published, owed>>

Subscribe(t) ==
    /\ writer = "waiting" /\ ~ReadLocked
    /\ made < MaxSubs
    /\ made' = made + 1
    /\ topic' = [topic EXCEPT ![made + 1] = t]
    /\ subscribers' = subscribers \union {made + 1}
    /\ writer' = "idle"
    /\ UNCHANGED <<wqVars, closed, wkVars, buf, starter, panic, published, owed>>

(* Mutant: unsubscribe closes the channel without the write lock.           *)
UnsubscribeUnlocked(c) ==
    /\ writer = "waiting"
    /\ closed' = closed \union ({c} \intersect subscribers)
    /\ subscribers' = subscribers \ {c}
    /\ owed' = [m \in Msgs |-> owed[m] \ {c}]
    /\ writer' = "idle"
    /\ UNCHANGED <<wqVars, topic, made, wkVars, buf, starter, panic, published>>

(* Mutant: unsubscribe forgets the channel and leaves it open.              *)
UnsubscribeLeavesOpen(c) ==
    /\ writer = "waiting" /\ ~ReadLocked
    /\ subscribers' = subscribers \ {c}
    /\ owed' = [m \in Msgs |-> owed[m] \ {c}]
    /\ writer' = "idle"
    /\ UNCHANGED <<wqVars, topic, made, closed, wkVars, buf, starter, panic,
                   published>>

(* unsubscribe closes a channel it finds in the map and ignores another.    *)
Unsubscribe(c) ==
    /\ writer = "waiting" /\ ~ReadLocked
    /\ closed' = closed \union ({c} \intersect subscribers)
    /\ subscribers' = subscribers \ {c}
    /\ owed' = [m \in Msgs |-> owed[m] \ {c}]
    /\ writer' = "idle"
    /\ UNCHANGED <<wqVars, topic, made, wkVars, buf, starter, panic, published>>

(* The consumer of channel c takes an event; a closed channel still yields  *)
(* what it buffers.                                                         *)
Receive(c) ==
    /\ buf[c] # <<>>
    /\ buf' = [buf EXCEPT ![c] = Tail(@)]
    /\ UNCHANGED <<wqVars, subVars, wkVars, starter, panic, published, owed>>

-------------------------------------------------------------------------------
(* Start, once the workers are launched.                                    *)

(* The context is cancelled and ShutDownWithDrain is called.                *)
ShutDownWithDrain ==
    /\ starter = "serving"
    /\ starter' = "draining"
    /\ UNCHANGED <<queue, dirty, processing, waiting, subVars, wkVars, buf,
                   panic, published, owed>>

(* ShutDownWithDrain returns when it sees nothing in processing, whatever   *)
(* the queue still holds.                                                   *)
Drained ==
    /\ starter = "draining"
    /\ processing = {}
    /\ starter' = "locking"
    /\ UNCHANGED <<wqVars, subVars, wkVars, buf, panic, published, owed>>

StartRLock ==
    /\ starter = "locking"
    /\ writer = "idle"
    /\ starter' = "closing"
    /\ UNCHANGED <<wqVars, subVars, wkVars, buf, panic, published, owed>>

(* The loop that closes the subscribers' channels, in map order.            *)
CloseNext(c) ==
    /\ starter = "closing"
    /\ c \in subscribers \ closed
    /\ closed' = closed \union {c}
    /\ UNCHANGED <<wqVars, subscribers, topic, made, writer, wkVars, buf,
                   starter, panic, published, owed>>

ResetSubscribers ==
    /\ starter = "closing"
    /\ subscribers \subseteq closed
    /\ subscribers' = {}
    /\ starter' = "stopping"
    /\ UNCHANGED <<wqVars, topic, made, closed, writer, wkVars, buf, panic,
                   published, owed>>

(* The one send on workerShutdownChan meets worker w in wait.Until, and     *)
(* Start returns, unlocking.                                                *)
StopWorker(w) ==
    /\ starter = "stopping"
    /\ pc[w] = "idle"
    /\ pc' = [pc EXCEPT ![w] = "stopped"]
    /\ starter' = "returned"
    /\ UNCHANGED <<wqVars, subVars, cur, todo, buf, panic, published, owed>>

-------------------------------------------------------------------------------
WorkerStep(w) ==
    \/ Get(w) \/ GetShutdown(w) \/ RunWorker(w)
    \/ Send(w) \/ SendFull(w) \/ SendClosed(w) \/ Forget(w) \/ Done(w)

WriterStep ==
    \/ \E t \in SubTopics : Subscribe(t)
    \/ \E c \in 1 .. made : Unsubscribe(c)

StarterStep ==
    \/ Drained \/ StartRLock \/ ResetSubscribers
    \/ \E c \in Chans : CloseNext(c)
    \/ \E w \in Workers : StopWorker(w)

Step ==
    \/ \E m \in Msgs : Publish(m) \/ BackoffOver(m)
    \/ \E w \in Workers : WorkerStep(w) \/ Match(w)
    \/ Lock \/ WriterStep
    \/ \E c \in Chans : Receive(c)
    \/ ShutDownWithDrain \/ StarterStep

Next == ~panic /\ Step

Spec == Init /\ [][Next]_vars

(* Goroutines run, timers fire and consumers return to their channels.      *)
(* Publish, Lock and the cancellation need not happen.  RLock is strongly   *)
(* fair: sync.RWMutex lets the readers that wait at an Unlock in first.     *)
Fairness ==
    /\ \A w \in Workers : /\ WF_vars(~panic /\ WorkerStep(w))
                          /\ SF_vars(~panic /\ Match(w))
    /\ \A m \in Msgs : WF_vars(~panic /\ BackoffOver(m))
    /\ \A c \in Chans : WF_vars(~panic /\ Receive(c))
    /\ WF_vars(~panic /\ WriterStep)
    /\ WF_vars(~panic /\ StarterStep)
    /\ SF_vars(~panic /\ StartRLock)

FairSpec == Spec /\ Fairness

-------------------------------------------------------------------------------
(* Properties                                                               *)

(* Message m is on its way to channel c: it is marked for processing, in    *)
(* its back-off, or with a worker that has not yet dealt with c.            *)
OnItsWay(m, c) ==
    \/ m \in dirty \union waiting
    \/ \E w \in Workers : /\ cur[w] = m
                          /\ \/ pc[w] = "lock"
                             \/ pc[w] = "deliver" /\ c \in todo[w]

(* While the bus serves, a message that a subscriber is still owed is never *)
(* forgotten.  This is what the non-blocking send, which skips channels,    *)
(* and its AddRateLimited must guarantee together.                          *)
NoLostMessage ==
    ~ShuttingDown => \A m \in Msgs : \A c \in owed[m] : OnItsWay(m, c)

(* unsubscribe closes channels that workers send to; the lock must keep a   *)
(* worker from ever sending on a channel closed that way.  A panic can only *)
(* come from Start's own closing of the channels.                           *)
OnlyShutdownPanics == panic => starter \in {"closing", "stopping", "returned"}

(* A consumer is only handed events of its topic or of a topic below it.    *)
TopicIsolation ==
    \A c \in Chans : \A i \in DOMAIN buf[c] :
        IsPrefix(topic[c], MsgTopic[buf[c][i]])

(* The bus as PubSub sees it: a message is in flight while it is marked for *)
(* processing, in its back-off, or with a worker that has not finished it.  *)
Phase == IF panic THEN "broken" ELSE IF ShuttingDown THEN "down" ELSE "up"

InFlight ==
    dirty \union waiting \union
        {m \in Msgs : \E w \in Workers : cur[w] = m /\ pc[w] \in {"lock", "deliver"}}

PS == INSTANCE PubSub WITH
        Boxes <- Chans, phase <- Phase, used <- 1 .. made,
        members <- subscribers, mail <- buf, inflight <- InFlight

(* The bus implements PubSub: the workqueue's coalescing and requeueing,    *)
(* the workers' abandoned loops and the locking around the channels show    *)
(* outside as publications, deliveries to the right subscribers, and        *)
(* messages that end only when nobody is owed them any more.                *)
RefinesPubSub == PS!Spec

(* A message published while a subscriber is registered reaches it, unless  *)
(* it unsubscribes or the bus shuts down first, however often the channel   *)
(* was full: retries of several messages on several channels never block    *)
(* each other for ever.                                                     *)
Delivery == PS!Delivery

(* Start implements Runnable: once its context is cancelled it returns.     *)
(* If it does not, then the process panicked, or a Subscribe or unsubscribe *)
(* call is stuck for ever at the lock that Start holds while it waits for a *)
(* worker, and the workers are stuck behind that call.                      *)
StartReturnsUnlessWriter ==
    starter = "draining" ~>
        starter = "returned" \/ panic \/ [](writer = "waiting")
===============================================================================
