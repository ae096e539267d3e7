---------------------------- MODULE EventBusProofs ----------------------------
(***************************************************************************)
(* Proofs that the event bus keeps every message a subscriber is owed, that *)
(* only its shutdown can send on a closed channel and that it implements    *)
(* PubSub, for any number of workers, messages, topics and channels and any *)
(* buffer size.                                                             *)
(***************************************************************************)
EXTENDS EventBus, TLAPS

(* The item that worker w is processing.                                    *)
Holds(w, m) == cur[w] = m /\ pc[w] \in {"lock", "deliver", "done"}

(* The workqueue's books: one worker has an item in processing, the queue   *)
(* holds an item once, and holds what is dirty and with no worker.          *)
WorkQueueOK ==
    /\ \A m \in Msgs : m \in processing <=> \E w \in Workers : Holds(w, m)
    /\ \A v, w \in Workers : \A m \in Msgs : Holds(v, m) /\ Holds(w, m) => v = w
    /\ \A i, j \in DOMAIN queue : queue[i] = queue[j] => i = j
    /\ \A m \in Msgs : (\E i \in DOMAIN queue : queue[i] = m)
                            <=> m \in dirty /\ m \notin processing

(* Start has not yet begun to close the channels.                           *)
BeforeClosing == starter \in {"serving", "draining", "locking"}

(* A worker between Get and Done has a message, and only a worker that is   *)
(* delivering has channels left to send to.                                 *)
WorkersOK ==
    \A w \in Workers :
        /\ pc[w] \in {"lock", "deliver", "done"} => cur[w] \in Msgs
        /\ todo[w] # {} => pc[w] = "deliver"

(* What the read lock protects: until Start closes them, registered         *)
(* channels are open and a delivering worker's channels are registered.     *)
LockOK ==
    BeforeClosing =>
        /\ subscribers \intersect closed = {}
        /\ \A w \in Workers : todo[w] \subseteq subscribers

(* A channel is only owed messages it would be handed.                      *)
OwedOK ==
    ~ShuttingDown =>
        \A m \in Msgs : owed[m] \subseteq SubscriberMatch(MsgTopic[m])

(* The inductive invariant.                                                 *)
BusInv ==
    /\ TypeOK
    /\ WorkersOK
    /\ LockOK
    /\ OwedOK
    /\ OnlyShutdownPanics
    /\ NoLostMessage

-------------------------------------------------------------------------------
(* What workqueue.Add leaves behind: well-typed, nothing taken out, and     *)
(* while the bus serves the item is marked for processing.                  *)
LEMMA EnqueueAdds ==
  ASSUME TypeOK, NEW m \in Msgs, Enqueue(m)
  PROVE  /\ queue' \in Seq(Msgs)
         /\ dirty' \subseteq Msgs
         /\ dirty \subseteq dirty'
         /\ ~ShuttingDown => m \in dirty'
<1>1. CASE ShuttingDown \/ m \in dirty
  BY <1>1 DEF Enqueue, TypeOK
<1>2. CASE ~(ShuttingDown \/ m \in dirty)
  <2>1. dirty' = dirty \union {m} /\ queue' \in {queue, Append(queue, m)}
    BY <1>2 DEF Enqueue
  <2>2. Append(queue, m) \in Seq(Msgs)
    BY DEF TypeOK
  <2> QED
    BY <2>1, <2>2 DEF TypeOK
<1> QED
  BY <1>1, <1>2

(* SubscriberMatch returns registered channels.                             *)
LEMMA MatchIsRegistered ==
  ASSUME TypeOK, NEW t
  PROVE  /\ SubscriberMatch(t) \subseteq subscribers
         /\ SubscriberMatch(t) \subseteq Chans
<1>1. SubscriberMatch(t) \subseteq subscribers
  BY DEF SubscriberMatch
<1>2. subscribers \subseteq Chans
  BY BusAssumption DEF TypeOK, Chans
<1> QED
  BY <1>1, <1>2

(* The initial state satisfies the inductive invariant.                     *)
LEMMA InitInv == Init => BusInv
<1> SUFFICES ASSUME Init PROVE BusInv
  OBVIOUS
<1> USE BusAssumption DEF Init, Chans
<1>1. TypeOK
  <2>1. queue \in Seq(Msgs) /\ buf \in [Chans -> Seq(Msgs)]
    OBVIOUS
  <2>2. \A c \in Chans : Len(buf[c]) <= Cap
    OBVIOUS
  <2>3. made \in 0 .. MaxSubs /\ published \in 0 .. MaxPublishes
    OBVIOUS
  <2>4. pc \in [Workers -> {"get", "lock", "deliver", "done", "idle", "stopped"}]
    OBVIOUS
  <2>5. topic \in [Chans -> SubTopics \union {<<>>}]
    OBVIOUS
  <2> QED
    BY <2>1, <2>2, <2>3, <2>4, <2>5 DEF TypeOK
<1>2. WorkersOK /\ OnlyShutdownPanics
  BY DEF WorkersOK, OnlyShutdownPanics
<1>3. LockOK /\ OwedOK /\ NoLostMessage
  BY DEF LockOK, OwedOK, NoLostMessage, ShuttingDown
<1> QED
  BY <1>1, <1>2, <1>3 DEF BusInv

(* The step of every process preserves the inductive invariant.             *)
LEMMA StepInv == BusInv /\ [Next]_vars => BusInv'
<1> SUFFICES ASSUME BusInv, [Next]_vars PROVE BusInv'
  OBVIOUS
<1> USE BusAssumption DEF BusInv, TypeOK, Chans
<1>1. ASSUME NEW m \in Msgs, Publish(m) PROVE BusInv'
  <2> USE <1>1 DEF Publish, wqVars, subVars, wkVars
  <2>1. TypeOK'
    <3>1. queue' \in Seq(Msgs) /\ dirty' \subseteq Msgs
      BY EnqueueAdds
    <3>2. published' \in 0 .. MaxPublishes
      OBVIOUS
    <3>3. owed' \in [Msgs -> SUBSET Chans]
      BY MatchIsRegistered
    <3> QED
      BY <3>1, <3>2, <3>3
  <2>2. WorkersOK'
    BY DEF Enqueue, ShuttingDown, WorkersOK
  <2>3. LockOK'
    BY DEF Enqueue, ShuttingDown, LockOK, BeforeClosing, WorkersOK
  <2>4. OwedOK'
    BY DEF Enqueue, ShuttingDown, OwedOK, SubscriberMatch, ShuttingDown
  <2>5. OnlyShutdownPanics'
    BY DEF Enqueue, ShuttingDown, OnlyShutdownPanics, LockOK, BeforeClosing
  <2>6. NoLostMessage'
    BY DEF Enqueue, ShuttingDown, NoLostMessage, OnItsWay, OwedOK,
            SubscriberMatch, WorkersOK
  <2> QED
    BY <2>1, <2>2, <2>3, <2>4, <2>5, <2>6
<1>2. ASSUME NEW m \in Msgs, BackoffOver(m) PROVE BusInv'
  <2> USE <1>2 DEF BackoffOver, wqVars, subVars, wkVars
  <2>1. TypeOK'
    <3>1. queue' \in Seq(Msgs) /\ dirty' \subseteq Msgs
      BY EnqueueAdds
    <3> QED
      BY <3>1
  <2>2. WorkersOK'
    BY DEF Enqueue, ShuttingDown, WorkersOK
  <2>3. LockOK'
    BY DEF Enqueue, ShuttingDown, LockOK, BeforeClosing, WorkersOK
  <2>4. OwedOK'
    BY DEF Enqueue, ShuttingDown, OwedOK, SubscriberMatch, ShuttingDown
  <2>5. OnlyShutdownPanics'
    BY DEF Enqueue, ShuttingDown, OnlyShutdownPanics, LockOK, BeforeClosing
  <2>6. NoLostMessage'
    BY DEF Enqueue, ShuttingDown, NoLostMessage, OnItsWay, OwedOK,
            SubscriberMatch, WorkersOK
  <2> QED
    BY <2>1, <2>2, <2>3, <2>4, <2>5, <2>6
<1>3. ASSUME NEW w \in Workers, Get(w) PROVE BusInv'
  <2> USE <1>3 DEF Get, wqVars, subVars, wkVars
  <2>1. TypeOK'
    OBVIOUS
  <2>2. WorkersOK'
    BY DEF WorkersOK
  <2>3. LockOK'
    BY DEF LockOK, BeforeClosing, WorkersOK
  <2>4. OwedOK'
    BY DEF OwedOK, SubscriberMatch, ShuttingDown
  <2>5. OnlyShutdownPanics'
    BY DEF OnlyShutdownPanics, LockOK, BeforeClosing
  <2>6. NoLostMessage'
    <3> SUFFICES ASSUME ~ShuttingDown', NEW n \in Msgs, NEW d \in owed'[n]
                 PROVE  OnItsWay(n, d)'
      BY DEF NoLostMessage
    <3>1. OnItsWay(n, d)
      BY DEF NoLostMessage, ShuttingDown
    <3>2. CASE n \in dirty \union waiting
      BY <3>2 DEF OnItsWay
    <3>3. CASE \E v \in Workers :
            /\ cur[v] = n
            /\ pc[v] = "lock" \/ (pc[v] = "deliver" /\ d \in todo[v])
      BY <3>3 DEF OnItsWay, WorkersOK
    <3> QED
      BY <3>1, <3>2, <3>3 DEF OnItsWay
  <2> QED
    BY <2>1, <2>2, <2>3, <2>4, <2>5, <2>6
<1>4. ASSUME NEW w \in Workers, GetShutdown(w) PROVE BusInv'
  BY <1>4 DEF GetShutdown, wqVars, subVars, wkVars, WorkersOK, LockOK,
     BeforeClosing, OwedOK, SubscriberMatch, ShuttingDown, OnlyShutdownPanics,
     NoLostMessage, OnItsWay
<1>5. ASSUME NEW w \in Workers, RunWorker(w) PROVE BusInv'
  <2> USE <1>5 DEF RunWorker, wqVars, subVars, wkVars
  <2>1. NoLostMessage'
    <3> SUFFICES ASSUME ~ShuttingDown', NEW n \in Msgs, NEW d \in owed'[n]
                 PROVE  OnItsWay(n, d)'
      BY DEF NoLostMessage
    <3>1. OnItsWay(n, d)
      BY DEF NoLostMessage, ShuttingDown
    <3>2. CASE n \in dirty \union waiting
      BY <3>2 DEF OnItsWay
    <3>3. CASE \E v \in Workers :
            /\ cur[v] = n
            /\ pc[v] = "lock" \/ (pc[v] = "deliver" /\ d \in todo[v])
      BY <3>3 DEF OnItsWay, WorkersOK
    <3> QED
      BY <3>1, <3>2, <3>3 DEF OnItsWay
  <2>2. (TypeOK /\ WorkersOK /\ LockOK /\ OwedOK /\ OnlyShutdownPanics)'
    BY DEF WorkersOK, LockOK, BeforeClosing, OwedOK, SubscriberMatch,
       ShuttingDown, OnlyShutdownPanics
  <2> QED
    BY <2>1, <2>2
<1>6. ASSUME NEW w \in Workers, Match(w) PROVE BusInv'
  <2> USE <1>6 DEF Match, wqVars, subVars, wkVars
  <2>1. TypeOK'
    <3>1. todo' \in [Workers -> SUBSET Chans]
      BY MatchIsRegistered
    <3> QED
      BY <3>1
  <2>2. WorkersOK'
    BY DEF WorkersOK
  <2>3. LockOK'
    <3>1. BeforeClosing' => SubscriberMatch(MsgTopic[cur[w]]) \subseteq subscribers
      BY DEF SubscriberMatch
    <3>2. BeforeClosing' => \A v \in Workers : todo'[v] \subseteq subscribers'
      BY <3>1 DEF LockOK, BeforeClosing
    <3> QED
      BY <3>1, <3>2 DEF LockOK, BeforeClosing
  <2>4. OwedOK'
    BY DEF OwedOK, SubscriberMatch, ShuttingDown
  <2>5. OnlyShutdownPanics'
    BY DEF OnlyShutdownPanics, LockOK, BeforeClosing
  <2>6. NoLostMessage'
    <3> SUFFICES ASSUME ~ShuttingDown', NEW n \in Msgs, NEW d \in owed'[n]
                 PROVE  OnItsWay(n, d)'
      BY DEF NoLostMessage
    <3>1. OnItsWay(n, d)
      BY DEF NoLostMessage, ShuttingDown
    <3>2. d \in SubscriberMatch(MsgTopic[n])
      BY DEF OwedOK, ShuttingDown
    <3>3. n \in dirty \union waiting => OnItsWay(n, d)'
      BY DEF OnItsWay
    <3>4. ASSUME NEW v \in Workers, cur[v] = n,
                 pc[v] = "lock" \/ (pc[v] = "deliver" /\ d \in todo[v])
         PROVE  OnItsWay(n, d)'
      BY <3>2, <3>4 DEF OnItsWay
    <3> QED
      BY <3>1, <3>2, <3>3, <3>4 DEF OnItsWay
  <2> QED
    BY <2>1, <2>2, <2>3, <2>4, <2>5, <2>6
<1>7. ASSUME NEW w \in Workers, Send(w) PROVE BusInv'
  <2> USE <1>7 DEF Send, wqVars, subVars, wkVars
  <2>1. TypeOK'
    <3>1. cur[w] \in Msgs
      BY DEF WorkersOK
    <3>2. buf' \in [Chans -> Seq(Msgs)]
      BY <3>1
    <3>3. \A c \in Chans : Len(buf'[c]) <= Cap
      BY <3>1
    <3>4. owed' \in [Msgs -> SUBSET Chans]
      BY <3>1
    <3>5. todo' \in [Workers -> SUBSET Chans]
      OBVIOUS
    <3> QED
      BY <3>1, <3>2, <3>3, <3>4, <3>5
  <2>2. WorkersOK'
    BY DEF IsNext, WorkersOK
  <2>3. LockOK'
    BY DEF IsNext, LockOK, BeforeClosing, WorkersOK
  <2>4. OwedOK'
    BY DEF IsNext, OwedOK, SubscriberMatch, ShuttingDown
  <2>5. OnlyShutdownPanics'
    BY DEF IsNext, OnlyShutdownPanics, LockOK, BeforeClosing
  <2>6. NoLostMessage'
    BY DEF IsNext, NoLostMessage, OnItsWay, OwedOK, SubscriberMatch,
            ShuttingDown, WorkersOK
  <2> QED
    BY <2>1, <2>2, <2>3, <2>4, <2>5, <2>6
<1>8. ASSUME NEW w \in Workers, SendFull(w) PROVE BusInv'
  <2> USE <1>8 DEF SendFull, wqVars, subVars, wkVars
  <2>1. TypeOK'
    <3>1. cur[w] \in Msgs
      BY DEF WorkersOK
    <3>2. waiting' \subseteq Msgs
      BY <3>1
    <3>3. todo' \in [Workers -> SUBSET Chans]
      OBVIOUS
    <3> QED
      BY <3>1, <3>2, <3>3
  <2>2. WorkersOK'
    BY DEF IsNext, ShuttingDown, WorkersOK
  <2>3. LockOK'
    BY DEF IsNext, ShuttingDown, LockOK, BeforeClosing, WorkersOK
  <2>4. OwedOK'
    BY DEF IsNext, ShuttingDown, OwedOK, SubscriberMatch, ShuttingDown
  <2>5. OnlyShutdownPanics'
    BY DEF IsNext, ShuttingDown, OnlyShutdownPanics, LockOK, BeforeClosing
  <2>6. NoLostMessage'
    <3> SUFFICES ASSUME ~ShuttingDown', NEW n \in Msgs, NEW d \in owed'[n]
                 PROVE  OnItsWay(n, d)'
      BY DEF NoLostMessage
    <3>1. OnItsWay(n, d)
      BY DEF NoLostMessage, ShuttingDown
    <3>2. n = cur[w] => n \in waiting'
      BY DEF ShuttingDown
    <3>3. n \in dirty \union waiting => OnItsWay(n, d)'
      BY DEF OnItsWay, ShuttingDown
    <3>4. ASSUME NEW v \in Workers, cur[v] = n,
                 pc[v] = "lock" \/ (pc[v] = "deliver" /\ d \in todo[v])
         PROVE  OnItsWay(n, d)'
      BY <3>2, <3>4 DEF OnItsWay
    <3> QED
      BY <3>1, <3>2, <3>3, <3>4 DEF OnItsWay
  <2> QED
    BY <2>1, <2>2, <2>3, <2>4, <2>5, <2>6
<1>9. ASSUME NEW w \in Workers, SendClosed(w) PROVE BusInv'
  BY <1>9 DEF SendClosed, wqVars, subVars, wkVars, IsNext, WorkersOK, LockOK,
     BeforeClosing, OwedOK, SubscriberMatch, ShuttingDown, OnlyShutdownPanics,
     NoLostMessage, OnItsWay
<1>10. ASSUME NEW w \in Workers, Forget(w) PROVE BusInv'
  <2> USE <1>10 DEF Forget, wqVars, subVars, wkVars
  <2>1. NoLostMessage'
    <3> SUFFICES ASSUME ~ShuttingDown', NEW n \in Msgs, NEW d \in owed'[n]
                 PROVE  OnItsWay(n, d)'
      BY DEF NoLostMessage
    <3>1. OnItsWay(n, d)
      BY DEF NoLostMessage, ShuttingDown
    <3>2. CASE n \in dirty \union waiting
      BY <3>2 DEF OnItsWay
    <3>3. CASE \E v \in Workers :
            /\ cur[v] = n
            /\ pc[v] = "lock" \/ (pc[v] = "deliver" /\ d \in todo[v])
      BY <3>3 DEF OnItsWay, WorkersOK
    <3> QED
      BY <3>1, <3>2, <3>3 DEF OnItsWay
  <2>2. (TypeOK /\ WorkersOK /\ LockOK /\ OwedOK /\ OnlyShutdownPanics)'
    BY DEF WorkersOK, LockOK, BeforeClosing, OwedOK, SubscriberMatch,
       ShuttingDown, OnlyShutdownPanics
  <2> QED
    BY <2>1, <2>2
<1>11. ASSUME NEW w \in Workers, Done(w) PROVE BusInv'
  <2> USE <1>11 DEF Done, wqVars, subVars, wkVars
  <2>1. TypeOK'
    OBVIOUS
  <2>2. WorkersOK'
    BY DEF WorkersOK
  <2>3. LockOK'
    BY DEF LockOK, BeforeClosing, WorkersOK
  <2>4. OwedOK'
    BY DEF OwedOK, SubscriberMatch, ShuttingDown
  <2>5. OnlyShutdownPanics'
    BY DEF OnlyShutdownPanics, LockOK, BeforeClosing
  <2>6. NoLostMessage'
    <3> SUFFICES ASSUME ~ShuttingDown', NEW n \in Msgs, NEW d \in owed'[n]
                 PROVE  OnItsWay(n, d)'
      BY DEF NoLostMessage
    <3>1. OnItsWay(n, d)
      BY DEF NoLostMessage, ShuttingDown
    <3>2. CASE n \in dirty \union waiting
      BY <3>2 DEF OnItsWay
    <3>3. CASE \E v \in Workers :
            /\ cur[v] = n
            /\ pc[v] = "lock" \/ (pc[v] = "deliver" /\ d \in todo[v])
      BY <3>3 DEF OnItsWay, WorkersOK
    <3> QED
      BY <3>1, <3>2, <3>3 DEF OnItsWay
  <2> QED
    BY <2>1, <2>2, <2>3, <2>4, <2>5, <2>6
<1>12. ASSUME Lock PROVE BusInv'
  BY <1>12 DEF Lock, wqVars, subVars, wkVars, WorkersOK, LockOK,
     BeforeClosing, OwedOK, SubscriberMatch, ShuttingDown, OnlyShutdownPanics,
     NoLostMessage, OnItsWay
<1>13. ASSUME NEW t \in SubTopics, Subscribe(t) PROVE BusInv'
  <2> USE <1>13 DEF Subscribe, wqVars, subVars, wkVars
  <2>1. TypeOK'
    BY DEF ReadLocked
  <2>2. WorkersOK'
    BY DEF ReadLocked, WorkersOK
  <2>3. LockOK'
    BY DEF ReadLocked, LockOK, BeforeClosing, WorkersOK
  <2>4. OwedOK'
    BY DEF ReadLocked, OwedOK, SubscriberMatch, ShuttingDown
  <2>5. OnlyShutdownPanics'
    BY DEF ReadLocked, OnlyShutdownPanics, LockOK, BeforeClosing
  <2>6. NoLostMessage'
    BY DEF ReadLocked, NoLostMessage, OnItsWay, OwedOK, SubscriberMatch,
            ShuttingDown, WorkersOK
  <2> QED
    BY <2>1, <2>2, <2>3, <2>4, <2>5, <2>6
<1>14. ASSUME NEW c \in 1 .. made, Unsubscribe(c) PROVE BusInv'
  <2> USE <1>14 DEF Unsubscribe, wqVars, subVars, wkVars
  <2>1. TypeOK'
    BY DEF ReadLocked
  <2>2. WorkersOK'
    BY DEF ReadLocked, WorkersOK
  <2>3. LockOK'
    BY DEF ReadLocked, LockOK, BeforeClosing, WorkersOK
  <2>4. OwedOK'
    BY DEF ReadLocked, OwedOK, SubscriberMatch, ShuttingDown
  <2>5. OnlyShutdownPanics'
    BY DEF ReadLocked, OnlyShutdownPanics, LockOK, BeforeClosing
  <2>6. NoLostMessage'
    BY DEF ReadLocked, NoLostMessage, OnItsWay, OwedOK, SubscriberMatch,
            ShuttingDown, WorkersOK
  <2> QED
    BY <2>1, <2>2, <2>3, <2>4, <2>5, <2>6
<1>15. ASSUME NEW c \in Chans, Receive(c) PROVE BusInv'
  BY <1>15 DEF Receive, wqVars, subVars, wkVars, WorkersOK, LockOK,
     BeforeClosing, OwedOK, SubscriberMatch, ShuttingDown, OnlyShutdownPanics,
     NoLostMessage, OnItsWay
<1>16. ASSUME ShutDownWithDrain PROVE BusInv'
  BY <1>16 DEF ShutDownWithDrain, wqVars, subVars, wkVars, WorkersOK, LockOK,
     BeforeClosing, OwedOK, SubscriberMatch, ShuttingDown, OnlyShutdownPanics,
     NoLostMessage, OnItsWay
<1>17. ASSUME Drained PROVE BusInv'
  BY <1>17 DEF Drained, wqVars, subVars, wkVars, WorkersOK, LockOK,
     BeforeClosing, OwedOK, SubscriberMatch, ShuttingDown, OnlyShutdownPanics,
     NoLostMessage, OnItsWay
<1>18. ASSUME StartRLock PROVE BusInv'
  BY <1>18 DEF StartRLock, wqVars, subVars, wkVars, WorkersOK, LockOK,
     BeforeClosing, OwedOK, SubscriberMatch, ShuttingDown, OnlyShutdownPanics,
     NoLostMessage, OnItsWay
<1>19. ASSUME NEW c \in Chans, CloseNext(c) PROVE BusInv'
  BY <1>19 DEF CloseNext, wqVars, subVars, wkVars, WorkersOK, LockOK,
     BeforeClosing, OwedOK, SubscriberMatch, ShuttingDown, OnlyShutdownPanics,
     NoLostMessage, OnItsWay
<1>20. ASSUME ResetSubscribers PROVE BusInv'
  BY <1>20 DEF ResetSubscribers, wqVars, subVars, wkVars, WorkersOK, LockOK,
     BeforeClosing, OwedOK, SubscriberMatch, ShuttingDown, OnlyShutdownPanics,
     NoLostMessage, OnItsWay
<1>21. ASSUME NEW w \in Workers, StopWorker(w) PROVE BusInv'
  BY <1>21 DEF StopWorker, wqVars, subVars, wkVars, WorkersOK, LockOK,
     BeforeClosing, OwedOK, SubscriberMatch, ShuttingDown, OnlyShutdownPanics,
     NoLostMessage, OnItsWay
<1>22. ASSUME UNCHANGED vars PROVE BusInv'
  BY <1>22 DEF vars, wqVars, subVars, wkVars, WorkersOK, LockOK,
     OwedOK, OnlyShutdownPanics, NoLostMessage, OnItsWay, BeforeClosing,
     SubscriberMatch,
     ShuttingDown
<1> QED
  BY <1>1, <1>2, <1>3, <1>4, <1>5, <1>6, <1>7, <1>8, <1>9,
      <1>10, <1>11, <1>12, <1>13, <1>14, <1>15, <1>16, <1>17, <1>18,
      <1>19, <1>20, <1>21, <1>22
   DEF Next, Step, WorkerStep, WriterStep, StarterStep

-------------------------------------------------------------------------------
(* Every reachable state of the bus satisfies the inductive invariant.      *)
THEOREM Invariance == Spec => []BusInv
  BY InitInv, StepInv, PTL DEF Spec

(* The bus's state is well typed: in particular no channel ever buffers     *)
(* more than its capacity.                                                  *)
THEOREM TypeCorrect == Spec => []TypeOK
<1>1. BusInv => TypeOK
  BY DEF BusInv
<1> QED
  BY <1>1, Invariance, PTL

(* No message that processNextWorkItem still owes a subscriber is lost      *)
(* while the bus serves, whatever channels are full and in whatever order   *)
(* workers, retries, Subscribe and unsubscribe interleave.                  *)
THEOREM MessagesKept == Spec => []NoLostMessage
<1>1. BusInv => NoLostMessage
  BY DEF BusInv
<1> QED
  BY <1>1, Invariance, PTL

(* A worker's send on a closed channel is always the doing of Start's       *)
(* closing loop, never of unsubscribe.                                      *)
THEOREM PanicsOnlyAtShutdown == Spec => []OnlyShutdownPanics
<1>1. BusInv => OnlyShutdownPanics
  BY DEF BusInv
<1> QED
  BY <1>1, Invariance, PTL

-------------------------------------------------------------------------------
(* The workqueue's books, the isolation of topics, and the refinement of    *)
(* PubSub.                                                                  *)

(* A channel that a worker still has to send to is closed or is registered  *)
(* for the message's topic.                                                 *)
SendOK ==
    \A w \in Workers : \A c \in todo[w] :
        \/ c \in closed
        \/ c \in subscribers /\ IsPrefix(topic[c], MsgTopic[cur[w]])

(* A channel that Subscribe has not made yet is empty.                      *)
FreshOK == \A c \in Chans : c > made => buf[c] = <<>>

-------------------------------------------------------------------------------
(* Appending to a sequence adds one element.                                *)
LEMMA AppendAdds ==
  ASSUME NEW S, NEW s \in Seq(S), NEW e \in S
  PROVE  LET t == Append(s, e)
         IN  /\ \A i \in DOMAIN t : i \in DOMAIN s \/ i = Len(s) + 1
             /\ DOMAIN s \subseteq DOMAIN t
             /\ Len(s) + 1 \in DOMAIN t
             /\ Len(s) + 1 \notin DOMAIN s
             /\ \A i \in DOMAIN s : t[i] = s[i]
             /\ t[Len(s) + 1] = e
  OBVIOUS

(* workqueue.Add keeps the books.                                           *)
LEMMA EnqueueBooks ==
  ASSUME TypeOK, WorkQueueOK, NEW m \in Msgs, Enqueue(m),
         UNCHANGED <<processing, cur, pc>>
  PROVE  WorkQueueOK'
<1> USE DEF TypeOK
<1>1. CASE UNCHANGED <<queue, dirty>>
  BY <1>1 DEF WorkQueueOK, Holds
<1>2. CASE ~ShuttingDown /\ m \notin dirty /\ m \in processing
  <2>1. dirty' = dirty \union {m} /\ queue' = queue
    BY <1>2 DEF Enqueue
  <2> QED
    BY <2>1, <1>2 DEF WorkQueueOK, Holds
<1>3. CASE ~ShuttingDown /\ m \notin dirty /\ m \notin processing
  <2>1. dirty' = dirty \union {m} /\ queue' = Append(queue, m)
    BY <1>3 DEF Enqueue
  <2>2. /\ \A i \in DOMAIN queue' : i \in DOMAIN queue \/ i = Len(queue) + 1
        /\ DOMAIN queue \subseteq DOMAIN queue'
        /\ Len(queue) + 1 \in DOMAIN queue'
        /\ \A i \in DOMAIN queue : queue'[i] = queue[i]
        /\ queue'[Len(queue) + 1] = m
    BY <2>1, AppendAdds
  <2>3. \A i \in DOMAIN queue : queue[i] # m
    BY <1>3 DEF WorkQueueOK
  <2>4. \A i, j \in DOMAIN queue' : queue'[i] = queue'[j] => i = j
    BY <2>2, <2>3 DEF WorkQueueOK
  <2>5. \A n \in Msgs : (\E i \in DOMAIN queue' : queue'[i] = n)
                            <=> n = m \/ \E i \in DOMAIN queue : queue[i] = n
    BY <2>2
  <2>6. \A n \in Msgs : (\E i \in DOMAIN queue' : queue'[i] = n)
                            <=> n \in dirty' /\ n \notin processing'
    BY <2>1, <2>5, <1>3 DEF WorkQueueOK
  <2> QED
    BY <2>4, <2>6 DEF WorkQueueOK, Holds
<1> QED
  BY <1>1, <1>2, <1>3 DEF Enqueue

(* Get takes the head out of the queue and the dirty set.                   *)
LEMMA GetBooks ==
  ASSUME BusInv, WorkQueueOK, NEW w \in Workers, Get(w)
  PROVE  WorkQueueOK'
<1> USE DEF BusInv, TypeOK
<1> DEFINE h == Head(queue)
<1>1. /\ queue' = Tail(queue) /\ dirty' = dirty \ {h}
      /\ processing' = processing \union {h}
      /\ cur' = [cur EXCEPT ![w] = h] /\ pc' = [pc EXCEPT ![w] = "lock"]
      /\ pc[w] = "get" /\ queue # <<>>
  BY DEF Get
<1>2. /\ DOMAIN queue = 1 .. Len(queue) /\ Len(queue) \in Nat \ {0}
      /\ DOMAIN queue' = 1 .. Len(queue) - 1
      /\ \A i \in 1 .. Len(queue) - 1 : queue'[i] = queue[i + 1]
      /\ h = queue[1] /\ h \in Msgs
  BY <1>1
<1>3. h \in dirty /\ h \notin processing
  <2>1. 1 \in DOMAIN queue /\ queue[1] = h
    BY <1>2
  <2>2. (\E i \in DOMAIN queue : queue[i] = h) <=> h \in dirty /\ h \notin processing
    BY <1>2 DEF WorkQueueOK
  <2> QED
    BY <2>1, <2>2
<1>4. \A v \in Workers : ~Holds(v, h)
  BY <1>2, <1>3 DEF WorkQueueOK
<1>5. \A v \in Workers : \A n \in Msgs :
        Holds(v, n)' <=> (v = w /\ n = h) \/ Holds(v, n)
  BY <1>1 DEF Holds
<1>6. \A n \in Msgs : n \in processing' <=> \E v \in Workers : Holds(v, n)'
  <2> TAKE n \in Msgs
  <2>1. n \in processing <=> \E v \in Workers : Holds(v, n)
    BY DEF WorkQueueOK
  <2>2. n \in processing' <=> n = h \/ n \in processing
    BY <1>1
  <2> QED
    BY <2>1, <2>2, <1>5
<1>7. \A u, v \in Workers : \A n \in Msgs : Holds(u, n)' /\ Holds(v, n)' => u = v
  <2> TAKE u, v \in Workers
  <2> TAKE n \in Msgs
  <2>1. Holds(u, n) /\ Holds(v, n) => u = v
    BY DEF WorkQueueOK
  <2> QED
    BY <2>1, <1>4, <1>5
<1>8. \A i, j \in DOMAIN queue' : queue'[i] = queue'[j] => i = j
  <2> TAKE i, j \in DOMAIN queue'
  <2>1. i + 1 \in DOMAIN queue /\ j + 1 \in DOMAIN queue
    BY <1>2
  <2>2. queue[i + 1] = queue[j + 1] => i + 1 = j + 1
    BY <2>1 DEF WorkQueueOK
  <2> QED
    BY <2>2, <1>2
<1>9. \A n \in Msgs : (\E i \in DOMAIN queue' : queue'[i] = n)
                          <=> n \in dirty' /\ n \notin processing'
  <2> TAKE n \in Msgs
  <2>1. (\E i \in DOMAIN queue : queue[i] = n) <=> n \in dirty /\ n \notin processing
    BY DEF WorkQueueOK
  <2>2. \A i \in DOMAIN queue : i # 1 => queue[i] # h
    BY <1>2 DEF WorkQueueOK
  <2>3. \A i \in DOMAIN queue : i # 1 => i - 1 \in DOMAIN queue' /\ queue'[i - 1] = queue[i]
    BY <1>2
  <2>4. \A i \in DOMAIN queue' : i + 1 \in DOMAIN queue /\ queue'[i] = queue[i + 1] /\ i + 1 # 1
    BY <1>2
  <2>5. (\E i \in DOMAIN queue' : queue'[i] = n)
            <=> n # h /\ \E i \in DOMAIN queue : queue[i] = n
    BY <1>2, <2>2, <2>3, <2>4
  <2> QED
    BY <2>1, <2>5, <1>1
<1> QED
  BY <1>6, <1>7, <1>8, <1>9 DEF WorkQueueOK

(* Done queues an item again that became dirty while it was processed.      *)
LEMMA DoneBooks ==
  ASSUME BusInv, WorkQueueOK, NEW w \in Workers, Done(w)
  PROVE  WorkQueueOK'
<1> USE DEF BusInv, TypeOK
<1> DEFINE m == cur[w]
<1>1. /\ pc[w] = "done" /\ processing' = processing \ {m} /\ dirty' = dirty
      /\ queue' = IF m \in dirty THEN Append(queue, m) ELSE queue
      /\ cur' = [cur EXCEPT ![w] = NoMsg] /\ pc' = [pc EXCEPT ![w] = "get"]
  BY DEF Done
<1>2. m \in Msgs /\ Holds(w, m)
  BY <1>1 DEF WorkersOK, Holds
<1>3. m \in processing
  BY <1>2 DEF WorkQueueOK
<1>4. \A v \in Workers : \A n \in Msgs : Holds(v, n)' <=> v # w /\ Holds(v, n)
  BY <1>1 DEF Holds
<1>5. \A n \in Msgs : Holds(w, n) => n = m
  BY DEF Holds
<1>6. \A n \in Msgs : n \in processing' <=> \E v \in Workers : Holds(v, n)'
  <2> TAKE n \in Msgs
  <2>1. n \in processing <=> \E v \in Workers : Holds(v, n)
    BY DEF WorkQueueOK
  <2>2. \A v \in Workers : Holds(v, m) => v = w
    BY <1>2 DEF WorkQueueOK
  <2>3. n \in processing' <=> n # m /\ n \in processing
    BY <1>1
  <2> QED
    BY <2>1, <2>2, <2>3, <1>4, <1>5
<1>7. \A u, v \in Workers : \A n \in Msgs : Holds(u, n)' /\ Holds(v, n)' => u = v
  BY <1>4 DEF WorkQueueOK
<1>8. \A i \in DOMAIN queue : queue[i] # m
  BY <1>2, <1>3 DEF WorkQueueOK
<1>9. /\ \A i, j \in DOMAIN queue' : queue'[i] = queue'[j] => i = j
      /\ \A n \in Msgs : (\E i \in DOMAIN queue' : queue'[i] = n)
                            <=> n \in dirty' /\ n \notin processing'
  <2>1. CASE m \notin dirty
    <3>1. queue' = queue
      BY <1>1, <2>1
    <3>2. \A n \in Msgs : n \in dirty' /\ n \notin processing' <=>
                          n \in dirty /\ n \notin processing
      BY <1>1, <2>1
    <3> QED
      BY <3>1, <3>2 DEF WorkQueueOK
  <2>2. CASE m \in dirty
    <3>1. /\ \A i \in DOMAIN queue' : i \in DOMAIN queue \/ i = Len(queue) + 1
          /\ DOMAIN queue \subseteq DOMAIN queue'
          /\ Len(queue) + 1 \in DOMAIN queue'
          /\ \A i \in DOMAIN queue : queue'[i] = queue[i]
          /\ queue'[Len(queue) + 1] = m
      BY <1>1, <2>2, <1>2, AppendAdds
    <3>2. \A i, j \in DOMAIN queue' : queue'[i] = queue'[j] => i = j
      BY <3>1, <1>8 DEF WorkQueueOK
    <3>3. \A n \in Msgs : (\E i \in DOMAIN queue' : queue'[i] = n)
                            <=> n = m \/ \E i \in DOMAIN queue : queue[i] = n
      BY <3>1
    <3>4. \A n \in Msgs : n \in dirty' /\ n \notin processing' <=>
                          n = m \/ (n \in dirty /\ n \notin processing)
      BY <1>1, <2>2
    <3> QED
      BY <3>2, <3>3, <3>4 DEF WorkQueueOK
  <2> QED
    BY <2>1, <2>2
<1> QED
  BY <1>6, <1>7, <1>9 DEF WorkQueueOK

(* Every step keeps the books.                                              *)
LEMMA StepBooks == BusInv /\ WorkQueueOK /\ [Next]_vars => WorkQueueOK'
<1> SUFFICES ASSUME BusInv, WorkQueueOK, [Next]_vars PROVE WorkQueueOK'
  OBVIOUS
<1> USE DEF wqVars, subVars, wkVars
<1>1. ASSUME NEW m \in Msgs, Publish(m) \/ BackoffOver(m) PROVE WorkQueueOK'
  BY <1>1, EnqueueBooks DEF Publish, BackoffOver, BusInv
<1>2. ASSUME NEW w \in Workers, Get(w) PROVE WorkQueueOK'
  BY <1>2, GetBooks
<1>3. ASSUME NEW w \in Workers, Done(w) PROVE WorkQueueOK'
  BY <1>3, DoneBooks
<1>4. ASSUME NEW w \in Workers,
             \/ GetShutdown(w) \/ RunWorker(w) \/ StopWorker(w)
             \/ Match(w) \/ SendFull(w) \/ Forget(w)
      PROVE  WorkQueueOK'
  <2>1. /\ UNCHANGED <<queue, dirty, processing, cur>>
        /\ \E s \in {"idle", "get", "stopped", "deliver", "done"} :
             /\ pc' = [pc EXCEPT ![w] = s]
             /\ pc[w] \in {"lock", "deliver", "done"} <=> s \in {"deliver", "done"}
    BY <1>4 DEF GetShutdown, RunWorker, StopWorker, Match, SendFull, Forget
  <2>2. \A v \in Workers : \A n \in Msgs : Holds(v, n)' <=> Holds(v, n)
    BY <2>1 DEF Holds, BusInv, TypeOK
  <2> QED
    BY <2>1, <2>2 DEF WorkQueueOK
<1>5. ASSUME UNCHANGED <<queue, dirty, processing, cur, pc>> PROVE WorkQueueOK'
  BY <1>5 DEF WorkQueueOK, Holds
<1>6. ASSUME NEW w \in Workers, Send(w) \/ SendClosed(w) PROVE WorkQueueOK'
  BY <1>6, <1>5 DEF Send, SendClosed
<1>7. ASSUME Lock \/ WriterStep PROVE WorkQueueOK'
  BY <1>7, <1>5 DEF Lock, WriterStep, Subscribe, Unsubscribe
<1>8. ASSUME NEW c \in Chans, Receive(c) \/ CloseNext(c) PROVE WorkQueueOK'
  BY <1>8, <1>5 DEF Receive, CloseNext
<1>9. ASSUME \/ ShutDownWithDrain \/ Drained \/ StartRLock \/ ResetSubscribers
             \/ UNCHANGED vars
      PROVE  WorkQueueOK'
  BY <1>9, <1>5 DEF ShutDownWithDrain, Drained, StartRLock, ResetSubscribers, vars
<1> QED
  BY <1>1, <1>2, <1>3, <1>4, <1>6, <1>7, <1>8, <1>9
  DEF Next, Step, WorkerStep, StarterStep

(* The books hold throughout; the refinement needs them.                    *)
LEMMA WorkQueueCorrect == Spec => []WorkQueueOK
<1>1. Init => WorkQueueOK
  BY DEF Init, WorkQueueOK, Holds
<1> QED
  BY <1>1, StepBooks, Invariance, PTL DEF Spec

-------------------------------------------------------------------------------
(* The read lock keeps SendOK: nobody registers, or unsubscribes, a channel *)
(* while a worker delivers, and Start closes channels before it forgets     *)
(* them.                                                                    *)
LEMMA StepSendOK == BusInv /\ SendOK /\ [Next]_vars => SendOK'
<1> SUFFICES ASSUME BusInv, SendOK, [Next]_vars PROVE SendOK'
  OBVIOUS
<1> USE DEF wqVars, subVars, wkVars, BusInv, TypeOK, WorkersOK
<1>1. ASSUME UNCHANGED <<todo, closed, subscribers, topic, cur>> PROVE SendOK'
  BY <1>1 DEF SendOK
<1>2. ASSUME NEW w \in Workers, Get(w) \/ Done(w) PROVE SendOK'
  BY <1>2 DEF Get, Done, SendOK
<1>3. ASSUME NEW w \in Workers, Match(w) PROVE SendOK'
  <2>1. \A c \in todo'[w] : c \in subscribers /\ IsPrefix(topic[c], MsgTopic[cur[w]])
    BY <1>3 DEF Match, SubscriberMatch
  <2>2. \A v \in Workers \ {w} : todo'[v] = todo[v]
    BY <1>3 DEF Match
  <2>3. UNCHANGED <<closed, subscribers, topic, cur>>
    BY <1>3 DEF Match
  <2> QED
    BY <2>1, <2>2, <2>3 DEF SendOK
<1>4. ASSUME NEW w \in Workers, Send(w) \/ SendFull(w) PROVE SendOK'
  <2>1. /\ todo'[w] \subseteq todo[w]
        /\ \A v \in Workers \ {w} : todo'[v] = todo[v]
        /\ UNCHANGED <<closed, subscribers, topic, cur>>
    BY <1>4 DEF Send, SendFull
  <2> QED
    BY <2>1 DEF SendOK
<1>5. ASSUME NEW t \in SubTopics, Subscribe(t) PROVE SendOK'
  <2>1. \A w \in Workers : todo[w] = {} /\ todo'[w] = {}
    BY <1>5 DEF Subscribe, ReadLocked
  <2> QED
    BY <2>1 DEF SendOK
<1>6. ASSUME NEW c \in 1 .. made, Unsubscribe(c) PROVE SendOK'
  <2>1. \A w \in Workers : todo[w] = {} /\ todo'[w] = {}
    BY <1>6 DEF Unsubscribe, ReadLocked
  <2> QED
    BY <2>1 DEF SendOK
<1>7. ASSUME NEW c \in Chans, CloseNext(c) PROVE SendOK'
  BY <1>7 DEF CloseNext, SendOK
<1>8. ASSUME ResetSubscribers PROVE SendOK'
  BY <1>8 DEF ResetSubscribers, SendOK
<1>9. ASSUME NEW m \in Msgs, Publish(m) \/ BackoffOver(m) PROVE SendOK'
  BY <1>9, <1>1 DEF Publish, BackoffOver
<1>10. ASSUME NEW w \in Workers,
              \/ GetShutdown(w) \/ RunWorker(w) \/ SendClosed(w) \/ Forget(w)
              \/ StopWorker(w)
       PROVE  SendOK'
  BY <1>10, <1>1 DEF GetShutdown, RunWorker, SendClosed, Forget, StopWorker
<1>11. ASSUME NEW c \in Chans, Receive(c) PROVE SendOK'
  BY <1>11, <1>1 DEF Receive
<1>12. ASSUME \/ Lock \/ ShutDownWithDrain \/ Drained \/ StartRLock
              \/ UNCHANGED vars
       PROVE  SendOK'
  BY <1>12, <1>1 DEF Lock, ShutDownWithDrain, Drained, StartRLock, vars
<1> QED
  BY <1>2, <1>3, <1>4, <1>5, <1>6, <1>7, <1>8, <1>9, <1>10, <1>11, <1>12
  DEF Next, Step, WorkerStep, WriterStep, StarterStep

(* What the refinement rests on.                                            *)
RefInv == BusInv /\ WorkQueueOK /\ SendOK

(* It holds throughout.                                                     *)
LEMMA RefInvariance == Spec => []RefInv
<1>1. Init => SendOK
  BY DEF Init, SendOK
<1> QED
  BY <1>1, StepSendOK, WorkQueueCorrect, Invariance, PTL DEF Spec, RefInv

-------------------------------------------------------------------------------
(* A channel's topic is set before anything is sent to it, and workers only *)
(* send what matches it.                                                    *)
LEMMA StepIsolates ==
  BusInv /\ SendOK /\ TopicIsolation /\ FreshOK /\ [Next]_vars
    => (TopicIsolation /\ FreshOK)'
<1> SUFFICES ASSUME BusInv, SendOK, TopicIsolation, FreshOK, [Next]_vars
             PROVE  (TopicIsolation /\ FreshOK)'
  OBVIOUS
<1> USE BusAssumption DEF wqVars, subVars, wkVars, BusInv, TypeOK, Chans
<1>1. ASSUME UNCHANGED <<topic, made, buf>> PROVE (TopicIsolation /\ FreshOK)'
  BY <1>1 DEF TopicIsolation, FreshOK
<1>2. ASSUME NEW w \in Workers, Send(w) PROVE (TopicIsolation /\ FreshOK)'
  <2> DEFINE m == cur[w]
  <2>1. m \in Msgs
    BY <1>2 DEF Send, WorkersOK
  <2>2. PICK c \in Chans \ closed :
          IsNext(c, todo[w]) /\ buf' = [buf EXCEPT ![c] = Append(@, m)]
    BY <1>2 DEF Send
  <2>3. c \in subscribers /\ IsPrefix(topic[c], MsgTopic[m])
    BY <2>2 DEF IsNext, SendOK
  <2>4. UNCHANGED <<topic, made>>
    BY <1>2 DEF Send
  <2>5. \A i \in DOMAIN buf'[c] : buf'[c][i] = m \/ (i \in DOMAIN buf[c] /\ buf'[c][i] = buf[c][i])
    <3>1. buf'[c] = Append(buf[c], m) /\ buf[c] \in Seq(Msgs)
      BY <2>2
    <3> QED
      BY <3>1, <2>1, AppendAdds
  <2>6. \A i \in DOMAIN buf'[c] : IsPrefix(topic[c], MsgTopic[buf'[c][i]])
    BY <2>3, <2>5 DEF TopicIsolation
  <2>7. TopicIsolation'
    BY <2>2, <2>4, <2>6 DEF TopicIsolation
  <2>8. FreshOK'
    <3>1. c \in 1 .. made /\ \A d \in Chans \ {c} : buf'[d] = buf[d]
      BY <2>2, <2>3
    <3>2. ~(c > made)
      BY <3>1
    <3> QED
      BY <3>1, <3>2, <2>4 DEF FreshOK
  <2> QED
    BY <2>7, <2>8
<1>3. ASSUME NEW c \in Chans, Receive(c) PROVE (TopicIsolation /\ FreshOK)'
  <2>1. /\ buf[c] # <<>> /\ buf' = [buf EXCEPT ![c] = Tail(@)]
        /\ UNCHANGED <<topic, made>>
    BY <1>3 DEF Receive
  <2>2. \A i \in DOMAIN buf'[c] : i + 1 \in DOMAIN buf[c] /\ buf'[c][i] = buf[c][i + 1]
    BY <2>1
  <2>3. TopicIsolation'
    BY <2>1, <2>2 DEF TopicIsolation
  <2>4. FreshOK'
    BY <2>1 DEF FreshOK
  <2> QED
    BY <2>3, <2>4
<1>4. ASSUME NEW t \in SubTopics, Subscribe(t) PROVE (TopicIsolation /\ FreshOK)'
  <2>1. /\ made' = made + 1 /\ made < MaxSubs /\ buf' = buf
        /\ topic' = [topic EXCEPT ![made + 1] = t]
    BY <1>4 DEF Subscribe
  <2>2. made + 1 \in Chans /\ buf[made + 1] = <<>>
    BY <2>1 DEF FreshOK
  <2>3. \A c \in Chans \ {made + 1} : topic'[c] = topic[c]
    BY <2>1
  <2>4. DOMAIN buf[made + 1] = {}
    BY <2>2
  <2>5. TopicIsolation'
    BY <2>1, <2>3, <2>4 DEF TopicIsolation
  <2>6. FreshOK'
    BY <2>1 DEF FreshOK
  <2> QED
    BY <2>5, <2>6
<1>5. ASSUME NEW c \in 1 .. made, Unsubscribe(c) PROVE (TopicIsolation /\ FreshOK)'
  BY <1>5, <1>1 DEF Unsubscribe
<1>6. ASSUME NEW m \in Msgs, Publish(m) \/ BackoffOver(m)
      PROVE  (TopicIsolation /\ FreshOK)'
  BY <1>6, <1>1 DEF Publish, BackoffOver
<1>7. ASSUME NEW w \in Workers,
             \/ Get(w) \/ GetShutdown(w) \/ RunWorker(w) \/ Match(w)
             \/ SendFull(w) \/ SendClosed(w) \/ Forget(w) \/ Done(w)
             \/ StopWorker(w)
      PROVE  (TopicIsolation /\ FreshOK)'
  BY <1>7, <1>1 DEF Get, GetShutdown, RunWorker, Match, SendFull, SendClosed,
     Forget, Done, StopWorker
<1>8. ASSUME \/ \E c \in Chans : CloseNext(c)
             \/ Lock \/ ShutDownWithDrain \/ Drained \/ StartRLock
             \/ ResetSubscribers \/ UNCHANGED vars
      PROVE  (TopicIsolation /\ FreshOK)'
  BY <1>8, <1>1 DEF CloseNext, Lock, ShutDownWithDrain, Drained, StartRLock,
     ResetSubscribers, vars
<1> QED
  BY <1>2, <1>3, <1>4, <1>5, <1>6, <1>7, <1>8
  DEF Next, Step, WorkerStep, WriterStep, StarterStep

(* No consumer is ever handed an event of a topic it did not subscribe to.  *)
THEOREM TopicsIsolated == Spec => []TopicIsolation
<1>1. Init => TopicIsolation /\ FreshOK
  BY DEF Init, TopicIsolation, FreshOK
<1>2. RefInv => BusInv /\ SendOK
  BY DEF RefInv
<1> QED
  BY <1>1, <1>2, StepIsolates, RefInvariance, PTL DEF Spec

-------------------------------------------------------------------------------
(* A step that changes nothing PubSub sees.                                 *)
LEMMA Stutters ==
  ASSUME UNCHANGED <<starter, panic, made, subscribers, topic, closed, buf, owed>>,
         InFlight' = InFlight
  PROVE  UNCHANGED PS!vars
  BY DEF PS!vars, Phase, ShuttingDown

(* A set that changes at one element at most.                               *)
LEMMA OneLeaves ==
  ASSUME NEW U, NEW S, S \subseteq U, NEW T, T \subseteq U, NEW e \in S,
         \A n \in U : n # e => (n \in T <=> n \in S)
  PROVE  T \in {S, S \ {e}}
  OBVIOUS

(* A worker that leaves a message, be it done with or to be tried again,    *)
(* finishes it for PubSub or leaves it in flight.                           *)
LEMMA LeaveRefines ==
  ASSUME RefInv, ~panic, NEW w \in Workers, SendFull(w) \/ Forget(w)
  PROVE  PS!Next \/ UNCHANGED PS!vars
<1> USE DEF RefInv, BusInv, TypeOK, wqVars, subVars, wkVars
<1> DEFINE m == cur[w]
<1>1. /\ UNCHANGED <<starter, panic, made, subscribers, topic, closed, buf, owed>>
      /\ UNCHANGED <<dirty, cur>>
      /\ pc' = [pc EXCEPT ![w] = "done"] /\ pc[w] = "deliver"
      /\ waiting' \in {waiting, waiting \union {m}}
  BY DEF SendFull, Forget
<1>2. m \in Msgs /\ m \in InFlight
  BY <1>1 DEF WorkersOK, InFlight
<1>3. InFlight' \in {InFlight, InFlight \ {m}}
  <2>1. \A n \in Msgs : n # m => (n \in InFlight' <=> n \in InFlight)
    BY <1>1 DEF InFlight
  <2>2. InFlight \subseteq Msgs /\ InFlight' \subseteq Msgs
    BY <1>1, <1>2 DEF InFlight
  <2> HIDE DEF RefInv, BusInv, TypeOK, wqVars, subVars, wkVars, m
  <2>3. \A S, T : S \subseteq Msgs /\ T \subseteq Msgs /\ m \in S
                 /\ (\A n \in Msgs : n # m => (n \in T <=> n \in S))
                 => T \in {S, S \ {m}}
    BY OneLeaves
  <2> QED
    BY <2>1, <2>2, <2>3, <1>2
<1>4. CASE InFlight' = InFlight
  BY <1>1, <1>4, Stutters
<1>5. CASE InFlight' = InFlight \ {m}
  <2>1. m \notin InFlight'
    BY <1>5
  <2>2. m \notin dirty /\ m \notin waiting'
        /\ \A v \in Workers \ {w} : ~(cur[v] = m /\ pc[v] \in {"lock", "deliver"})
    BY <2>1, <1>1, <1>2 DEF InFlight
  <2>3. ShuttingDown \/ owed[m] = {}
    <3> SUFFICES ASSUME ~ShuttingDown, NEW c \in owed[m] PROVE FALSE
      OBVIOUS
    <3>1. OnItsWay(m, c)
      BY <1>2 DEF NoLostMessage
    <3>2. c \in todo[w]
      BY <3>1, <2>2, <1>1 DEF OnItsWay
    <3>3. m \in waiting'
      BY <3>2 DEF SendFull, Forget
    <3> QED
      BY <3>3, <2>2
  <2>4. PS!Finish(m)
    BY <1>1, <1>2, <1>5, <2>3
    DEF PS!Finish, PS!subVars, Phase, ShuttingDown
  <2>5. Phase # "broken"
    BY DEF Phase
  <2> QED
    BY <1>2, <2>4, <2>5 DEF PS!Next
<1> QED
  BY <1>3, <1>4, <1>5

(* Every step of the bus is a step of PubSub or changes nothing it sees.    *)
LEMMA StepRefines ==
  ASSUME RefInv, [Next]_vars
  PROVE  PS!Next \/ UNCHANGED PS!vars
<1> USE BusAssumption DEF RefInv, BusInv, TypeOK, wqVars, subVars, wkVars
<1>1. ASSUME UNCHANGED <<dirty, waiting, cur, pc>> PROVE InFlight' = InFlight
  BY <1>1 DEF InFlight
<1>2. ASSUME ~panic PROVE Phase # "broken"
  BY <1>2 DEF Phase
<1>3. ASSUME ~panic, NEW m \in Msgs, Publish(m) PROVE PS!Next
  <2>1. SubscriberMatch(MsgTopic[m]) = PS!Recipients(m)
    BY DEF SubscriberMatch, PS!Recipients, IsPrefix, PS!IsPrefix
  <2>2. IF ShuttingDown THEN InFlight' = InFlight
        ELSE InFlight' = InFlight \union {m}
    <3>1. CASE ShuttingDown
      BY <1>3, <3>1, <1>1 DEF Publish, Enqueue
    <3>2. CASE ~ShuttingDown
      <4>1. dirty' = dirty \union {m} /\ UNCHANGED <<waiting, cur, pc>>
        BY <1>3, <3>2 DEF Publish, Enqueue
      <4> QED
        BY <4>1, <3>2 DEF InFlight
    <3> QED
      BY <3>1, <3>2
  <2>3. PS!Publish(m)
    BY <1>3, <2>1, <2>2 DEF Publish, PS!Publish, PS!subVars, Phase, ShuttingDown
  <2> QED
    BY <2>3, <1>2, <1>3 DEF PS!Next
<1>4. ASSUME ~panic, NEW m \in Msgs, BackoffOver(m)
      PROVE  PS!Next \/ UNCHANGED PS!vars
  <2>1. UNCHANGED <<cur, pc, starter, panic, made, subscribers, topic, closed, buf, owed>>
        /\ m \in waiting /\ waiting' = waiting \ {m}
    BY <1>4 DEF BackoffOver
  <2>2. CASE ~ShuttingDown
    <3>1. dirty' = dirty \union {m}
      BY <1>4, <2>2 DEF BackoffOver, Enqueue
    <3>2. InFlight' = InFlight
      BY <3>1, <2>1 DEF InFlight
    <3> QED
      BY <2>1, <3>2, Stutters
  <2>3. CASE ShuttingDown
    <3>1. dirty' = dirty
      BY <1>4, <2>3 DEF BackoffOver, Enqueue
    <3>2. m \in InFlight
      BY <2>1 DEF InFlight
    <3>3. CASE m \in InFlight'
      <4>1. InFlight' = InFlight
        BY <3>1, <2>1, <3>3 DEF InFlight
      <4> QED
        BY <2>1, <4>1, Stutters
    <3>4. CASE m \notin InFlight'
      <4>1. InFlight' = InFlight \ {m}
        BY <3>1, <2>1, <3>4 DEF InFlight
      <4>2. PS!Finish(m)
        BY <1>4, <2>1, <2>3, <3>2, <4>1
        DEF PS!Finish, PS!subVars, Phase, ShuttingDown
      <4> QED
        BY <4>2, <1>2, <1>4 DEF PS!Next
    <3> QED
      BY <3>3, <3>4
  <2> QED
    BY <2>2, <2>3
<1>5. ASSUME NEW w \in Workers, Get(w) PROVE UNCHANGED PS!vars
  <2> DEFINE h == Head(queue)
  <2>1. h \in Msgs /\ 1 \in DOMAIN queue /\ queue[1] = h
    BY <1>5 DEF Get
  <2>2. h \in dirty
    BY <2>1 DEF WorkQueueOK
  <2>3. /\ dirty' = dirty \ {h} /\ waiting' = waiting
        /\ cur' = [cur EXCEPT ![w] = h] /\ pc' = [pc EXCEPT ![w] = "lock"]
        /\ pc[w] = "get"
    BY <1>5 DEF Get
  <2>4. InFlight' = InFlight
    BY <2>1, <2>2, <2>3 DEF InFlight
  <2> QED
    BY <2>4, <1>5, Stutters DEF Get
<1>6. ASSUME NEW w \in Workers, Done(w) PROVE UNCHANGED PS!vars
  <2>1. InFlight' = InFlight
    BY <1>6 DEF Done, InFlight
  <2> QED
    BY <2>1, <1>6, Stutters DEF Done
<1>7. ASSUME NEW w \in Workers, GetShutdown(w) \/ RunWorker(w) \/ Match(w)
      PROVE  UNCHANGED PS!vars
  <2>1. InFlight' = InFlight
    BY <1>7 DEF GetShutdown, RunWorker, Match, InFlight
  <2> QED
    BY <2>1, <1>7, Stutters DEF GetShutdown, RunWorker, Match
<1>8. ASSUME ~panic, NEW w \in Workers, Send(w) PROVE PS!Next
  <2> DEFINE m == cur[w]
  <2>1. m \in Msgs /\ pc[w] = "deliver"
    BY <1>8 DEF Send, WorkersOK
  <2>2. PICK c \in Chans \ closed :
          /\ IsNext(c, todo[w]) /\ Len(buf[c]) < Cap
          /\ buf' = [buf EXCEPT ![c] = Append(@, m)]
          /\ owed' = [owed EXCEPT ![m] = @ \ {c}]
    BY <1>8 DEF Send
  <2>3. c \in PS!Recipients(m) \ closed
    <3>1. c \in subscribers /\ IsPrefix(topic[c], MsgTopic[m])
      BY <2>2 DEF IsNext, SendOK
    <3> QED
      BY <2>2, <3>1 DEF PS!Recipients, IsPrefix, PS!IsPrefix
  <2>4. m \in InFlight /\ InFlight' = InFlight
    BY <1>8, <1>1, <2>1 DEF Send, InFlight
  <2>5. PS!Deliver(m, c)
    BY <1>8, <2>2, <2>3, <2>4
    DEF Send, PS!Deliver, PS!subVars, Phase, ShuttingDown
  <2> QED
    BY <2>1, <2>2, <2>5, <1>2, <1>8 DEF PS!Next
<1>9. ASSUME ~panic, NEW w \in Workers, SendClosed(w) PROVE PS!Next
  <2>1. PICK c \in closed : c \in todo[w]
    BY <1>9 DEF SendClosed, IsNext
  <2>2. ShuttingDown
    BY <2>1 DEF LockOK, BeforeClosing, ShuttingDown
  <2>3. PS!Break
    BY <1>9, <1>1, <2>2 DEF SendClosed, PS!Break, PS!subVars, Phase, ShuttingDown
  <2> QED
    BY <2>3 DEF PS!Next
<1>10. ASSUME Lock PROVE UNCHANGED PS!vars
  BY <1>10, <1>1, Stutters DEF Lock
<1>11. ASSUME ~panic, NEW t \in SubTopics, Subscribe(t) PROVE PS!Next
  <2>1. made + 1 \in Chans /\ made + 1 \notin 1 .. made
        /\ 1 .. made' = (1 .. made) \union {made + 1}
    <3>1. made' = made + 1 /\ made < MaxSubs
      BY <1>11 DEF Subscribe
    <3>2. \A n \in Nat : 1 .. n + 1 = (1 .. n) \union {n + 1}
      OBVIOUS
    <3> QED
      BY <3>1, <3>2 DEF Chans
  <2>2. PS!Subscribe(made + 1, t)
    BY <1>11, <1>1, <2>1 DEF Subscribe, PS!Subscribe, Phase, ShuttingDown
  <2> QED
    BY <2>1, <2>2, <1>2, <1>11 DEF PS!Next
<1>12. ASSUME ~panic, NEW c \in 1 .. made, Unsubscribe(c) PROVE PS!Next
  <2>1. PS!Unsubscribe(c)
    BY <1>12, <1>1 DEF Unsubscribe, PS!Unsubscribe, Phase, ShuttingDown
  <2>2. c \in Chans
    BY DEF Chans
  <2> QED
    BY <2>1, <2>2, <1>2, <1>12 DEF PS!Next
<1>13. ASSUME ~panic, NEW c \in Chans, Receive(c) PROVE PS!Next
  <2>1. PS!Receive(c)
    BY <1>13, <1>1 DEF Receive, PS!Receive, PS!subVars, Phase, ShuttingDown
  <2> QED
    BY <2>1, <1>2, <1>13 DEF PS!Next
<1>14. ASSUME ~panic, ShutDownWithDrain PROVE PS!Next
  <2>1. PS!Shutdown
    BY <1>14, <1>1
    DEF ShutDownWithDrain, PS!Shutdown, PS!subVars, Phase, ShuttingDown
  <2> QED
    BY <2>1 DEF PS!Next
<1>15. ASSUME ~panic, Drained \/ StartRLock PROVE UNCHANGED PS!vars
  BY <1>15, <1>1 DEF Drained, StartRLock, PS!vars, Phase, ShuttingDown
<1>16. ASSUME ~panic, NEW c \in Chans, CloseNext(c) PROVE PS!Next
  <2>1. PS!Close(c)
    BY <1>16, <1>1 DEF CloseNext, PS!Close, Phase, ShuttingDown
  <2> QED
    BY <2>1, <1>2, <1>16 DEF PS!Next
<1>17. ASSUME ~panic, ResetSubscribers PROVE PS!Next
  <2>1. PS!Disband
    BY <1>17, <1>1 DEF ResetSubscribers, PS!Disband, Phase, ShuttingDown
  <2> QED
    BY <2>1, <1>2, <1>17 DEF PS!Next
<1>18. ASSUME ~panic, NEW w \in Workers, StopWorker(w) PROVE UNCHANGED PS!vars
  <2>1. InFlight' = InFlight
    BY <1>18 DEF StopWorker, InFlight
  <2> QED
    BY <2>1, <1>18 DEF StopWorker, PS!vars, Phase, ShuttingDown
<1>19. ASSUME UNCHANGED vars PROVE UNCHANGED PS!vars
  BY <1>19, <1>1, Stutters DEF vars
<1> QED
  BY <1>3, <1>4, <1>5, <1>6, <1>7, <1>8, <1>9, <1>10, <1>11, <1>12, <1>13, <1>14,
     <1>15, <1>16, <1>17, <1>18, <1>19, LeaveRefines
  DEF Next, Step, WorkerStep, WriterStep, StarterStep

(* The initial state of the bus is one of PubSub.                           *)
LEMMA InitRefines == Init => PS!Init
<1> SUFFICES ASSUME Init PROVE PS!Init
  OBVIOUS
<1>1. 1 .. made = {}
  BY DEF Init
<1>2. InFlight = {} /\ Phase = "up"
  BY DEF Init, InFlight, Phase, ShuttingDown
<1> QED
  BY <1>1, <1>2 DEF Init, PS!Init

(* The workqueue, the workers with their abandoned loops and requeues, the  *)
(* locks and the shutdown of pkg/eventbus implement the at-least-once       *)
(* publish/subscribe service of PubSub.                                     *)
THEOREM Refinement == Spec => RefinesPubSub
<1>1. RefInv /\ [Next]_vars => [PS!Next]_(PS!vars)
  BY StepRefines
<1> QED
  BY <1>1, InitRefines, RefInvariance, PTL DEF Spec, RefinesPubSub, PS!Spec
===============================================================================
