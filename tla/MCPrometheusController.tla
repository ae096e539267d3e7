------------------------- MODULE MCPrometheusController -------------------------
(* Small instances of PrometheusController for TLC.                         *)
EXTENDS PrometheusController

(* With a secret and a port that makes no address, and with neither.        *)
MCSpecs == {[auth |-> TRUE, port |-> FALSE, pending |-> FALSE],
            [auth |-> FALSE, port |-> TRUE, pending |-> TRUE]}
===============================================================================
