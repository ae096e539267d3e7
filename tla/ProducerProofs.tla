------------------------------ MODULE ProducerProofs ------------------------------
(***************************************************************************)
(* Proofs about the producer manager, for any names, generations, alerts    *)
(* and number of Add calls.                                                 *)
(***************************************************************************)
EXTENDS ProducerManager, TLAPS

(* Add decides by the shutdown channel whether to launch the producer, and  *)
(* TypeOK says what that tells of Start: that NoProducerMissed is inductive *)
(* with it.                                                                 *)
ProducerInv == TypeOK /\ NoProducerMissed

(* A manager that is new has no channel and no producers.                   *)
LEMMA InitInv == Init => ProducerInv
<1> SUFFICES ASSUME Init PROVE ProducerInv
  OBVIOUS
<1> USE ProducerAssumption
<1>1. (CHOOSE k \in Names \X Gens : TRUE) \in Names \X Gens
  <2>1. PICK n \in Names, g \in Gens : TRUE
    OBVIOUS
  <2>2. <<n, g>> \in Names \X Gens
    OBVIOUS
  <2> QED
    BY <2>2, Zenon
<1>2. key \in [Prods -> Names \X Gens]
  BY <1>1 DEF Init
<1>3. made \in 0 .. MaxAdds
  BY DEF Init
<1>4. TypeOK
  BY <1>2, <1>3 DEF Init, TypeOK, AlertStates
<1> QED
  BY <1>4 DEF Init, ProducerInv, NoProducerMissed

(* Every step of the reconciler, the manager, the producers and Prometheus  *)
(* preserves the invariant.                                                 *)
LEMMA StepInv == ProducerInv /\ [Next]_vars => ProducerInv'
<1> SUFFICES ASSUME ProducerInv, [Next]_vars PROVE ProducerInv'
  OBVIOUS
<1> USE ProducerAssumption DEF ProducerInv, mgrVars, regVars, pollVars
<1>1. ASSUME NEW n \in Names, NEW g \in Gens, NEW p \in BOOLEAN, Add(n, g, p)
      PROVE  ProducerInv'
  <2>1. /\ made \in Nat /\ made' = made + 1 /\ made + 1 \in Prods
        /\ made' \in 0 .. MaxAdds
    BY <1>1 DEF Add, TypeOK, Prods
  <2>2. key' \in [Prods -> Names \X Gens] /\ pending' \in [Prods -> BOOLEAN]
    <3>1. <<n, g>> \in Names \X Gens
      OBVIOUS
    <3>2. key' = [key EXCEPT ![made + 1] = <<n, g>>] /\ key \in [Prods -> Names \X Gens]
      BY <1>1 DEF Add, TypeOK
    <3>3. key' \in [Prods -> Names \X Gens]
      BY <3>1, <3>2
    <3>4. pending' \in [Prods -> BOOLEAN]
      BY <1>1 DEF Add, TypeOK
    <3> QED
      BY <3>3, <3>4
  <2>3. producers' \subseteq 1 .. made'
    <3>1. producers' \subseteq producers \union {made + 1}
      BY <1>1 DEF Add
    <3> QED
      BY <2>1, <3>1 DEF TypeOK
  <2>4. proc' \in [Prods -> {"off", "launched", "polling", "stopped"}]
    <3>1. proc' = proc \/ proc' = [proc EXCEPT ![made + 1] = "launched"]
      BY <1>1 DEF Add
    <3> QED
      BY <3>1, <2>1 DEF TypeOK
  <2>5. TypeOK'
    BY <1>1, <2>1, <2>2, <2>3, <2>4 DEF Add, TypeOK
  <2>6. NoProducerMissed'
    <3> SUFFICES ASSUME mgr' \in {"waiting", "stopped"}, NEW i \in producers'
                 PROVE  proc'[i] # "off"
      BY DEF NoProducerMissed
    <3>1. shutdown # "nil" /\ mgr \in {"waiting", "stopped"}
      BY <1>1 DEF Add, TypeOK
    <3>2. proc' = [proc EXCEPT ![made + 1] = "launched"]
      BY <1>1, <3>1 DEF Add
    <3>3. i \in producers \/ i = made + 1
      BY <1>1 DEF Add
    <3>4. i \in Prods
      BY <2>1, <2>3 DEF Prods
    <3> QED
      BY <2>1, <3>1, <3>2, <3>3, <3>4 DEF TypeOK, NoProducerMissed
  <2> QED
    BY <2>5, <2>6
<1>2. ASSUME NEW n \in Names, Remove(n) PROVE ProducerInv'
  BY <1>2 DEF Remove, TypeOK, NoProducerMissed
<1>3. ASSUME StartEmpty PROVE ProducerInv'
  BY <1>3 DEF StartEmpty, TypeOK, NoProducerMissed
<1>4. ASSUME NEW i \in Prods, StartBlocks(i) PROVE ProducerInv'
  BY <1>4 DEF StartBlocks, TypeOK, NoProducerMissed
<1>5. ASSUME Shutdown PROVE ProducerInv'
  BY <1>5 DEF Shutdown, TypeOK, NoProducerMissed
<1>6. ASSUME NEW i \in Prods, ProducerStart(i) \/ ProducerStop(i)
      PROVE  ProducerInv'
  <2>1. PICK s \in {"polling", "stopped"} : proc' = [proc EXCEPT ![i] = s]
    BY <1>6 DEF ProducerStart, ProducerStop
  <2>2. UNCHANGED <<mgrVars, regVars, pollVars, alerts>>
    BY <1>6 DEF ProducerStart, ProducerStop
  <2>3. proc' \in [Prods -> {"off", "launched", "polling", "stopped"}]
    BY <2>1 DEF TypeOK
  <2>4. \A j \in producers : proc[j] # "off" => proc'[j] # "off"
    BY <2>1 DEF TypeOK
  <2> QED
    BY <2>2, <2>3, <2>4 DEF TypeOK, NoProducerMissed
<1>7. ASSUME NEW i \in Prods, Poll(i) PROVE ProducerInv'
  BY <1>7 DEF Poll, ActiveAlerts, TypeOK, NoProducerMissed
<1>8. ASSUME NEW i \in Prods, NEW a \in Alerts, Publish(i, a)
      PROVE  ProducerInv'
  BY <1>8 DEF Publish, TypeOK, NoProducerMissed
<1>9. ASSUME NEW a \in Alerts, NEW s \in AlertStates, AlertChanges(a, s)
      PROVE  ProducerInv'
  BY <1>9 DEF AlertChanges, TypeOK, NoProducerMissed
<1>10. ASSUME UNCHANGED vars PROVE ProducerInv'
  BY <1>10 DEF vars, TypeOK, NoProducerMissed
<1> QED
  BY <1>1, <1>2, <1>3, <1>4, <1>5, <1>6, <1>7, <1>8, <1>9, <1>10
  DEF Next, ProducerStep

(* It holds throughout.                                                     *)
LEMMA Invariance == Spec => []ProducerInv
  BY InitInv, StepInv, PTL DEF Spec

(* The manager's types, and that the shutdown channel exists once Start has *)
(* begun: close(m.shutdown) is never of nil.                                *)
THEOREM TypeCorrect == Spec => []TypeOK
  BY Invariance, PTL DEF ProducerInv

(* Whichever of Add and Start gets producersMux first, no producer that is  *)
(* registered in a manager past startProducers was left unlaunched.         *)
THEOREM NoneMissed == Spec => []NoProducerMissed
  BY Invariance, PTL DEF ProducerInv
===============================================================================
