-------------------------------- MODULE PubSub --------------------------------
(***************************************************************************)
(* What the event bus promises to the components around it, without its     *)
(* workqueue, its workers and its locks.  Subscribers have bounded          *)
(* mailboxes.  A message is in flight from its publication until everybody  *)
(* it is owed to has it; it may reach a mailbox more than once, but only    *)
(* while it is in flight and only a subscriber of its topic or of a prefix. *)
(* Mailboxes that nobody has unsubscribed are only closed, and the bus only *)
(* breaks, once it has been told to shut down.                              *)
(***************************************************************************)
EXTENDS Naturals, Sequences, SequencesExt

CONSTANTS
    Msgs,           \* the messages
    MsgTopic,       \* the topic of each message
    SubTopics,      \* the topics to subscribe to
    Boxes,          \* the mailboxes
    Cap             \* the capacity of a mailbox

VARIABLES
    phase,          \* "up", "down" (told to shut down) or "broken"
    used,           \* the mailboxes handed out so far
    members,        \* the mailboxes subscribed
    topic,          \* the topic of each mailbox handed out
    closed,         \* the mailboxes closed
    mail,           \* what each mailbox holds
    inflight,       \* the messages on their way
    owed            \* owed[m]: the mailboxes that m must still reach

vars == <<phase, used, members, topic, closed, mail, inflight, owed>>
subVars == <<used, members, topic, closed>>

Init ==
    /\ phase = "up"
    /\ used = {} /\ members = {} /\ closed = {}
    /\ topic = [b \in Boxes |-> <<>>]
    /\ mail = [b \in Boxes |-> <<>>]
    /\ inflight = {}
    /\ owed = [m \in Msgs |-> {}]

Recipients(m) == {b \in members : IsPrefix(topic[b], MsgTopic[m])}

(* A bus that shuts down may ignore a publication.                          *)
Publish(m) ==
    /\ owed' = [owed EXCEPT ![m] = @ \union Recipients(m)]
    /\ inflight' \in {inflight \union {m}} \union
                     IF phase = "down" THEN {inflight} ELSE {}
    /\ UNCHANGED <<phase, subVars, mail>>

Deliver(m, b) ==
    /\ m \in inflight
    /\ b \in Recipients(m) \ closed
    /\ Len(mail[b]) < Cap
    /\ mail' = [mail EXCEPT ![b] = Append(@, m)]
    /\ owed' = [owed EXCEPT ![m] = @ \ {b}]
    /\ UNCHANGED <<phase, subVars, inflight>>

(* A message is dropped once nobody is owed it, or at the shutdown.         *)
Finish(m) ==
    /\ m \in inflight
    /\ owed[m] = {} \/ phase = "down"
    /\ inflight' = inflight \ {m}
    /\ UNCHANGED <<phase, subVars, mail, owed>>

Subscribe(b, t) ==
    /\ b \notin used
    /\ used' = used \union {b}
    /\ members' = members \union {b}
    /\ topic' = [topic EXCEPT ![b] = t]
    /\ UNCHANGED <<phase, closed, mail, inflight, owed>>

(* The mailbox is closed, and owed nothing any more.                        *)
Unsubscribe(b) ==
    /\ closed' = closed \union ({b} \intersect members)
    /\ members' = members \ {b}
    /\ owed' = [m \in Msgs |-> owed[m] \ {b}]
    /\ UNCHANGED <<phase, used, topic, mail, inflight>>

(* A mailbox can be emptied after it is closed.                             *)
Receive(b) ==
    /\ mail[b] # <<>>
    /\ mail' = [mail EXCEPT ![b] = Tail(@)]
    /\ UNCHANGED <<phase, subVars, inflight, owed>>

Shutdown ==
    /\ phase = "up" /\ phase' = "down"
    /\ UNCHANGED <<subVars, mail, inflight, owed>>

(* The shutdown closes mailboxes, and then forgets the closed ones.         *)
Close(b) ==
    /\ phase = "down"
    /\ b \in members \ closed
    /\ closed' = closed \union {b}
    /\ UNCHANGED <<phase, used, members, topic, mail, inflight, owed>>

Disband ==
    /\ phase = "down"
    /\ members \subseteq closed
    /\ members' = {}
    /\ UNCHANGED <<phase, used, topic, closed, mail, inflight, owed>>

Break ==
    /\ phase = "down" /\ phase' = "broken"
    /\ UNCHANGED <<subVars, mail, inflight, owed>>

Next ==
    \/ /\ phase # "broken"
       /\ \/ \E m \in Msgs : Publish(m) \/ Finish(m)
          \/ \E m \in Msgs, b \in Boxes : Deliver(m, b)
          \/ \E b \in Boxes, t \in SubTopics : Subscribe(b, t)
          \/ \E b \in Boxes : Unsubscribe(b) \/ Receive(b) \/ Close(b)
          \/ Disband
    \/ Shutdown
    \/ Break

Spec == Init /\ [][Next]_vars

(* While the bus is up, a message reaches everybody it is owed to who does  *)
(* not unsubscribe first, however often mailboxes are full.                 *)
Delivery ==
    \A m \in Msgs, b \in Boxes :
        b \in owed[m] ~> b \notin owed[m] \/ phase # "up"
===============================================================================
