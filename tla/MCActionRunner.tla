---------------------------- MODULE MCActionRunner ----------------------------
(* Small instances of ActionRunner for TLC.                                 *)
EXTENDS ActionRunner

CONSTANTS r1, r2, r3

Do(k, t, n) == [kind |-> k, retry |-> t, name |-> n, parses |-> TRUE]
Malformed(k, t) == [Do(k, t, Unnamed) EXCEPT !.parses = FALSE]

(* Two runs install a debug container of the same name; the one then        *)
(* deletes the pod, the other patches and restarts it.  The third is a dry  *)
(* run, whose last action has a malformed template.                         *)
MCActions ==
    [r \in {r1, r2, r3} |->
        CASE r = r1 -> <<Do("debug", TRUE, "d"), Do("delete", FALSE, Unnamed)>>
          [] r = r2 -> <<Do("debug", TRUE, "d"), Do("patch", FALSE, Unnamed),
                         Do("restart", TRUE, Unnamed)>>
          [] r = r3 -> <<Do("debug", FALSE, Unnamed), Do("delete", TRUE, Unnamed),
                         Malformed("patch", FALSE)>>]
===============================================================================
