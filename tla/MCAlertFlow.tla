------------------------------ MODULE MCAlertFlow ------------------------------
(* Small instances of AlertFlow for TLC.                                    *)
EXTENDS AlertFlow

Alert(label, value) ==
    [l \in {AlertName, label} |-> IF l = AlertName THEN <<"X">> ELSE value]

(* Three alerts of one name, with the labels alertname and node, or         *)
(* alertname and pod.  Of the first two Event.Key writes the same text, so  *)
(* they have one key.                                                       *)
MCAlerts == {Alert(2, <<"a">>), Alert(3, <<"a">>), Alert(3, <<"b">>)}
MCSteady == {Alert(2, <<"a">>), Alert(3, <<"a">>)}
MCEventName == <<"X">>
MCSources == {<<<<"n">>, <<"s1">>>>}

(* A hash that makes no clashes of its own.                                 *)
MCFnv32a(text) == <<text>>
===============================================================================
