----------------------- MODULE MCCounterMeasureController -----------------------
(* Small instances of CounterMeasureController for TLC.                     *)
EXTENDS CounterMeasureController

Entry(kinds, i) == [defines |-> kinds, image |-> i]
OnAlert(s, entries) == [event |-> TRUE, selector |-> s, actions |-> entries]

Good == OnAlert("ok", <<Entry({"debug"}, TRUE), Entry({"delete"}, FALSE)>>)
Other == OnAlert("nil", <<Entry({"restart"}, FALSE)>>)
Unselective == OnAlert("malformed", <<Entry({"restart"}, FALSE)>>)
Twofold == OnAlert("nil", <<Entry({"patch"}, FALSE), Entry({"delete", "restart"}, FALSE)>>)
Imageless == OnAlert("nil", <<Entry({"debug"}, FALSE)>>)
Eventless == [Other EXCEPT !.event = FALSE]

(* Two specs that can be installed, so that users can replace the one by    *)
(* the other, a valid one that cannot, and the ways to be invalid.          *)
MCSpecs == {Good, Other, Unselective, Twofold, Imageless, Eventless}
ValidSpecs == {Good, Other}
===============================================================================
