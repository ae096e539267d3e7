----------------------------- MODULE MCEventBus -----------------------------
(* Small instances of EventBus for TLC.                                     *)
EXTENDS EventBus, TLC

CONSTANTS m1, m2

(* m1 goes to a fully qualified topic, as Prometheus producers publish;     *)
(* m2 to the plain name of the same alert.                                  *)
MCMsgTopic == m1 :> <<"a", "p">> @@ m2 :> <<"a">>

(* A countermeasure subscribes to the alert's name; the longer topic names  *)
(* one producer's alerts only.                                              *)
MCSubTopics == {<<"a">>, <<"a", "p">>}

Symmetry == Permutations(Workers)
=============================================================================
