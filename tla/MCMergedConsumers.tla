---------------------------- MODULE MCMergedConsumers ----------------------------
(* Small instances of MergedConsumers for TLC.                              *)
EXTENDS MergedConsumers

(* An alert, qualified by its namespace and its source.                     *)
MCTopics == {<<"a">>, <<"a", "n">>, <<"a", "n", "s">>}
===============================================================================
