----------------------------- MODULE MergedConsumers -----------------------------
(***************************************************************************)
(* Consumers and merged consumers (pkg/eventbus/consumer.go) over the       *)
(* subscriptions of Matcher.tla.  MergeConsumers makes one consumer of      *)
(* several: a goroutine receives from any of their channels, the inputs,    *)
(* and sends to mergedCh, which has no buffer and is never closed.  The     *)
(* first input found closed ends it, after an empty event.  OnEventSync     *)
(* goes past the goroutine to the inputs.                                   *)
(***************************************************************************)
EXTENDS Matcher

CONSTANT MaxEvents      \* bound: the number of Publish calls, not more than
                        \* CONSUMER_BUFFER_SIZE, so that no channel is full

ASSUME MergeAssumption == MaxEvents \in 0 .. 10

Chans == 1 .. MaxSubs
Zero == <<0, 0>>        \* the empty event, which no input sent

VARIABLES
    buf,            \* the events in each channel
    inputs,         \* EventConsumerSet.consumers
    mpc,            \* the goroutine: "off", "select", "send" or "ended"
    hand,           \* the event it sends: its input and its number
    got,            \* history: the events of each input that readers have got
    empties,        \* history: how many empty events the goroutine has sent
    sent            \* history: the events each channel was sent

mergeVars == <<buf, inputs, mpc, hand, got, empties>>
vars == <<subVars, mergeVars, sent>>

(* Channels that Subscribe has made and unsubscribe has closed.             *)
Closed(c) == c \in DOMAIN topicOf /\ topicOf[c] = <<>>
SomeClosed == \E c \in inputs : Closed(c)

Published == UNION {sent[c] : c \in Chans}

Init ==
    /\ SubInit
    /\ buf = [c \in Chans |-> <<>>]
    /\ sent = [c \in Chans |-> {}] /\ got = [c \in Chans |-> {}]
    /\ inputs = {} /\ mpc = "off" /\ hand = Zero /\ empties = 0

-------------------------------------------------------------------------------
(* The bus sends an event to each match of its topic.                       *)
Publish(t) ==
    LET n == 1 + Cardinality(Published)
        To == Range(SubscriberMatch(t))
    IN  /\ To # {} /\ n <= MaxEvents
        /\ buf' = [c \in Chans |-> IF c \in To THEN Append(buf[c], n) ELSE buf[c]]
        /\ sent' = [c \in Chans |-> IF c \in To THEN sent[c] \union {n} ELSE sent[c]]
        /\ UNCHANGED <<subVars, inputs, mpc, hand, got, empties>>

(* MergeConsumers, of subscribed consumers.                                 *)
MergeConsumers(cs) ==
    /\ mpc = "off" /\ \A c \in cs : c \in DOMAIN topicOf /\ ~Closed(c)
    /\ inputs' = cs /\ mpc' = "select"
    /\ UNCHANGED <<subVars, buf, hand, got, empties, sent>>

(* Mutant: the cases leave out the last input.                              *)
MergeAllButLast(c) ==
    /\ mpc = "select" /\ c \in inputs /\ buf[c] # <<>>
    /\ \E d \in inputs : c < d
    /\ hand' = <<c, Head(buf[c])>>
    /\ buf' = [buf EXCEPT ![c] = Tail(@)]
    /\ mpc' = "send"
    /\ UNCHANGED <<subVars, inputs, got, empties, sent>>

(* Merge: reflect.Select takes any input that has an event.                 *)
Merge(c) ==
    /\ mpc = "select" /\ c \in inputs /\ buf[c] # <<>>
    /\ hand' = <<c, Head(buf[c])>>
    /\ buf' = [buf EXCEPT ![c] = Tail(@)]
    /\ mpc' = "send"
    /\ UNCHANGED <<subVars, inputs, got, empties, sent>>

(* Mutant: a closed channel counts as such while it still holds events.     *)
MergeClosedEarly(c) ==
    /\ mpc = "select" /\ c \in inputs /\ Closed(c)
    /\ hand' = Zero
    /\ mpc' = "send"
    /\ UNCHANGED <<subVars, buf, inputs, got, empties, sent>>

(* Mutant: ErrChannelClosed does not end the loop.                          *)
MergeClosedIgnored(c) ==
    /\ mpc = "select" /\ c \in inputs /\ Closed(c) /\ buf[c] = <<>>
    /\ UNCHANGED vars

(* An input that is closed and empty is ready as well: ErrChannelClosed and *)
(* an empty event.                                                          *)
MergeClosed(c) ==
    /\ mpc = "select" /\ c \in inputs /\ Closed(c) /\ buf[c] = <<>>
    /\ hand' = Zero
    /\ mpc' = "send"
    /\ UNCHANGED <<subVars, buf, inputs, got, empties, sent>>

(* Mutant: the event is offered to the reader and not waited for.           *)
OnEventOffered ==
    /\ mpc = "send"
    /\ IF hand = Zero THEN mpc' = "ended" /\ empties' = empties + 1 /\ UNCHANGED got
       ELSE /\ mpc' = "select" /\ UNCHANGED empties
            /\ got' \in {got, [got EXCEPT ![hand[1]] = @ \union {hand[2]}]}
    /\ hand' = Zero
    /\ UNCHANGED <<subVars, buf, inputs, sent>>

(* The reader of OnEvent and the goroutine meet at mergedCh.                *)
OnEvent ==
    /\ mpc = "send"
    /\ IF hand = Zero THEN mpc' = "ended" /\ empties' = empties + 1 /\ UNCHANGED got
       ELSE /\ mpc' = "select" /\ UNCHANGED empties
            /\ got' = [got EXCEPT ![hand[1]] = @ \union {hand[2]}]
    /\ hand' = Zero
    /\ UNCHANGED <<subVars, buf, inputs, sent>>

(* OnEventSync of the set receives from an input itself.  What it returns   *)
(* for a closed one is an empty event, which is not recorded here.          *)
OnEventSync(c) ==
    /\ mpc # "off" /\ c \in inputs /\ buf[c] # <<>>
    /\ got' = [got EXCEPT ![c] = @ \union {Head(buf[c])}]
    /\ buf' = [buf EXCEPT ![c] = Tail(@)]
    /\ UNCHANGED <<subVars, inputs, mpc, hand, empties, sent>>

-------------------------------------------------------------------------------
Next ==
    \/ \E t \in Topics : Subscribe(t) /\ UNCHANGED <<mergeVars, sent>>
    \/ \E c \in DOMAIN topicOf : Unsubscribe(c) /\ UNCHANGED <<mergeVars, sent>>
    \/ \E t \in Topics : Publish(t)
    \/ \E cs \in SUBSET Chans \ {{}} : MergeConsumers(cs)
    \/ \E c \in Chans : Merge(c) \/ MergeClosed(c) \/ OnEventSync(c)
    \/ OnEvent

Spec == Init /\ [][Next]_vars

(* The select is random, so no input that stays ready is passed over for    *)
(* ever, and the reader goes on reading.                                    *)
Fairness ==
    /\ \A c \in Chans : SF_vars(Merge(c) \/ MergeClosed(c))
    /\ WF_vars(OnEvent)

FairSpec == Spec /\ Fairness

-------------------------------------------------------------------------------
(* Properties                                                               *)

(* Merging neither loses nor repeats: every event an input was sent is in   *)
(* its channel, in the goroutine's hand or with the reader, in one of them  *)
(* and once, whoever reads and whatever is unsubscribed meanwhile.          *)
MergedOnce ==
    \A c \in inputs :
        LET InHand == IF hand[1] = c THEN {hand[2]} ELSE {}
        IN  /\ sent[c] = got[c] \union InHand \union Range(buf[c])
            /\ Cardinality(sent[c]) =
                   Cardinality(got[c]) + Cardinality(InHand) + Len(buf[c])

(* The empty event means what its reader takes it for: some input is closed *)
(* and has been read to its end, and nothing comes after it from the        *)
(* goroutine.                                                               *)
EmptyMeansClosed ==
    /\ empties = IF mpc = "ended" THEN 1 ELSE 0
    /\ empties > 0 => \E c \in inputs : Closed(c) /\ buf[c] = <<>>

(* Until an input is closed, what is in any of them gets to the reader.     *)
MergeDelivers ==
    \A c \in Chans :
        c \in inputs /\ buf[c] # <<>> ~> got[c] = sent[c] \/ SomeClosed

(* UnSubscribe of one of the inputs ends the goroutine: it does not leak    *)
(* while there is a reader.                                                 *)
MergeEnds == SomeClosed ~> mpc = "ended"
===============================================================================
