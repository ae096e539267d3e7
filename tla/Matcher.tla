-------------------------------- MODULE Matcher --------------------------------
(***************************************************************************)
(* Subscription matching: the Subscribers map as Subscribe and unsubscribe  *)
(* of pkg/eventbus/eventbus.go keep it, a slice of channels per topic, and  *)
(* the recursive SubscriberMatch of pkg/eventbus/matcher.go, checked        *)
(* against the set of channels, and the order, that EventBus.tla uses.      *)
(***************************************************************************)
EXTENDS Naturals, Sequences, SequencesExt

CONSTANTS
    Topics,         \* topics, as the segments that ":" separates
    MaxSubs         \* bound: the number of Subscribe calls

ASSUME MatcherAssumption ==
    /\ Topics \subseteq Seq(STRING) \ {<<>>}
    /\ \A t \in Topics : \A d \in DOMAIN t : SubSeq(t, 1, d) \in Topics
    /\ MaxSubs \in Nat

VARIABLES
    subs,           \* EventBus.subscribers: topic -> slice of channels
    topicOf         \* history: the topic of each channel Subscribe has made
                    \* and unsubscribe has not closed, in order; <<>> if closed

subVars == <<subs, topicOf>>

SubInit ==
    /\ subs = [t \in Topics |-> <<>>]
    /\ topicOf = <<>>

Subscribe(t) ==
    /\ Len(topicOf) < MaxSubs
    /\ topicOf' = Append(topicOf, t)
    /\ subs' = [subs EXCEPT ![t] = Append(@, Len(topicOf) + 1)]

(* append(subscribers[:idx], subscribers[idx+1:]...)                        *)
RemoveIndex(s, idx) == SubSeq(s, 1, idx - 1) \o SubSeq(s, idx + 1, Len(s))

Unsubscribe(c) ==
    /\ topicOf[c] # <<>>
    /\ \E idx \in DOMAIN subs[topicOf[c]] :
        /\ subs[topicOf[c]][idx] = c
        /\ subs' = [subs EXCEPT ![topicOf[c]] = RemoveIndex(@, idx)]
    /\ topicOf' = [topicOf EXCEPT ![c] = <<>>]

-------------------------------------------------------------------------------
(* Mutant: the last segment is not cut off level by level.                  *)
JoinRoot(t, n) == SubSeq(t, 1, 1)

(* strings.Join(topicSlice[:n], ":")                                        *)
Join(t, n) == SubSeq(t, 1, n)

(* The channels of the topic, then those that the recursive call finds for  *)
(* the topic without its last segment.                                      *)
SubscriberMatch(t) ==
    LET match[n \in 0 .. Len(t)] ==
            IF n = 0 THEN <<>> ELSE subs[Join(t, n)] \o match[n - 1]
    IN  match[Len(t)]

-------------------------------------------------------------------------------
Before(c, d) ==
    \/ Len(topicOf[c]) > Len(topicOf[d])
    \/ Len(topicOf[c]) = Len(topicOf[d]) /\ c < d

(* The recursion over the topic's prefixes returns exactly the channels     *)
(* subscribed to the topic or to a prefix of it, each once, the longest     *)
(* prefix first and in the order of their Subscribe calls within one.       *)
MatchIsOrderedPrefixes ==
    \A t \in Topics :
        LET chs == SubscriberMatch(t)
        IN  /\ Range(chs) = {c \in DOMAIN topicOf : /\ topicOf[c] # <<>>
                                                   /\ IsPrefix(topicOf[c], t)}
            /\ \A i, j \in DOMAIN chs : i < j => Before(chs[i], chs[j])
===============================================================================
