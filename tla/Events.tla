--------------------------------- MODULE Events ---------------------------------
(***************************************************************************)
(* Events (pkg/events/events.go) and how AlertQueryResult.ToEvents makes    *)
(* them from alerts.  A label's name is a number, in the order of strings;  *)
(* a value is a sequence, so that writing values one after the other is     *)
(* what it is in the code: concatenation.                                   *)
(***************************************************************************)
EXTENDS Naturals, Sequences, FiniteSets

CONSTANTS
    AlertName,      \* the label "alertname"
    Fnv32a(_)       \* fnv.New32a and hex: any function, two texts may collide

(* ToEvents: the name is a label like any other, and is in the data too.    *)
ToEvent(labels) ==
    [name |-> IF AlertName \in DOMAIN labels THEN labels[AlertName] ELSE <<>>,
     data |-> labels]

-------------------------------------------------------------------------------
(* The orders in which "range" may visit a map: any, and another each time. *)
RangeOrders(keys) ==
    {s \in [1 .. Cardinality(keys) -> keys] : \A i, j \in DOMAIN s :
                                                  s[i] = s[j] => i = j}

(* Mutant: the keys are used in the order of the range.                     *)
SortUnsorted(s) == s

(* sort.Strings                                                             *)
SortStrings(s) ==
    CHOOSE t \in RangeOrders({s[i] : i \in DOMAIN s}) :
        \A i, j \in DOMAIN t : i < j => t[i] < t[j]

(* strings.Builder: one WriteString per key.                                *)
WriteValues(data, keys) ==
    LET upTo[n \in 0 .. Len(keys)] ==
            IF n = 0 THEN <<>> ELSE upTo[n - 1] \o data[keys[n]]
    IN  upTo[Len(keys)]

(* What is hashed: the name and the values, with nothing between them.      *)
HashedText(event, order) ==
    event.name \o WriteValues(event.data, SortStrings(order))

(* Event.Key: no key without a name and data.                               *)
NoKey == <<>>
Key(event, order) ==
    IF DOMAIN event.data = {} /\ event.name = <<>> THEN NoKey
    ELSE Fnv32a(HashedText(event, order))

-------------------------------------------------------------------------------
(* Mutant: the parts are joined in another order.                           *)
TopicAfterSource(topic, source) == source \o <<topic>>

(* CreateFullyQualifiedTopicName, as the segments that ":" separates; the   *)
(* source is <<namespace, name>>, and <<>> if it is empty.                  *)
FullyQualifiedTopicName(topic, source) == <<topic>> \o source
===============================================================================
