-------------------------- MODULE ActionManagerProofs --------------------------
(***************************************************************************)
(* Proofs about the action manager for any number of countermeasures, event *)
(* keys and installations: no goroutine is orphaned, an installed           *)
(* countermeasure is listening, the suppression policy is honoured, a       *)
(* countermeasure runs twice at once only by a leftover goroutine, and what *)
(* can bring the process down.                                              *)
(***************************************************************************)
EXTENDS ActionManager, TLAPS

(* The goroutines that exist are those of the finished Add calls.           *)
InstallsOK ==
    \A i \in Installs :
        gpc[i] # "none" <=> i <= made /\ ~(caller = "adding" /\ i = made)

(* Every channel made is registered or closed, not both; a goroutine only   *)
(* ends when its channel is closed.                                         *)
ChannelsOK ==
    /\ 1 .. made = registered \union closed
    /\ registered \intersect closed = {}
    /\ \A i \in Installs : gpc[i] = "exited" => i \in closed

(* The reconciler's two-step calls.                                         *)
CallerOK ==
    /\ caller = "adding" => /\ made \in Installs
                            /\ name[made] = target
                            /\ consumers[target] = None
                            /\ bus = "up" => made \in registered
    /\ caller = "removing" /\ Exists(target) => consumers[target] \in closed

(* Both maps hold, under each name, the same finished installation of it.   *)
MapsOK ==
    /\ consumers = entries
    /\ \A n \in Names : Exists(n) => /\ name[consumers[n]] = n
                                     /\ gpc[consumers[n]] # "none"

(* A name's entry is never older than an entry a goroutine has seen for it, *)
(* nor than that goroutine's own.                                           *)
EntriesOK ==
    \A i \in Installs :
        /\ gpc[i] # "none" => \/ entries[name[i]] = None
                              \/ entries[name[i]] >= i
        /\ gpc[i] \in {"check", "start"} =>
              /\ entry[i] \in i .. made
              /\ entries[name[i]] = None \/ entries[name[i]] >= entry[i]

(* An entry remembers a suppression for as long as it lasts.                *)
QuietOK ==
    \A i \in Installs, k \in EventKeys :
        /\ last[i][k].until <= now + Duration
        /\ last[i][k].until <= now \/ last[i][k].until <= lastRuns[i][k]

(* A goroutine that passed IsSuppressed may start the entry it saw, unless  *)
(* another goroutine has started it since.                                  *)
PassedOK ==
    \A i \in Installs :
        gpc[i] = "start" /\ last[entry[i]][evt[i]].by = i =>
            last[entry[i]][evt[i]].until <= now

(* The inductive invariant.                                                 *)
ManagerInv ==
    /\ TypeOK
    /\ InstallsOK
    /\ ChannelsOK
    /\ CallerOK
    /\ MapsOK
    /\ NoOrphanGoroutine
    /\ InstalledListens
    /\ EntriesOK
    /\ QuietOK
    /\ PassedOK

-------------------------------------------------------------------------------
(* The initial state satisfies the inductive invariant.                     *)
LEMMA InitInv == Init => ManagerInv
<1> SUFFICES ASSUME Init PROVE ManagerInv
  OBVIOUS
<1> USE ManagerAssumption DEF Init, Installs, None
<1>1. /\ (CHOOSE n \in Names : TRUE) \in Names
      /\ (CHOOSE g \in Gens : TRUE) \in Gens
      /\ (CHOOSE k \in EventKeys : TRUE) \in EventKeys
  OBVIOUS
<1>2. TypeOK
  <2>1. /\ name \in [Installs -> Names] /\ gen \in [Installs -> Gens]
        /\ evt \in [Installs -> EventKeys]
    BY <1>1
  <2>2. /\ buf \in [Installs -> Seq(EventKeys)]
        /\ \A i \in Installs : Len(buf[i]) <= Cap
    OBVIOUS
  <2>3. /\ lastRuns \in [Installs -> [EventKeys -> 0 .. MaxTime + Duration]]
        /\ last \in [Installs -> [EventKeys -> Starts]]
    BY DEF Starts
  <2>4. /\ caller \in {"idle", "adding", "removing"} /\ target \in Names
        /\ made \in 0 .. MaxInstalls /\ now \in 0 .. MaxTime
    OBVIOUS
  <2>5. /\ registered \subseteq 1 .. made /\ closed \subseteq 1 .. made
        /\ bus \in {"up", "down"} /\ crashed \in BOOLEAN
    OBVIOUS
  <2>6. /\ consumers \in [Names -> {None} \union Installs]
        /\ entries \in [Names -> {None} \union Installs]
        /\ entry \in [Installs -> {None} \union Installs]
        /\ running \in [Installs -> BOOLEAN]
    OBVIOUS
  <2>7. gpc \in [Installs -> {"none", "recv", "lookup", "check", "start", "run",
                              "end", "exited"}]
    OBVIOUS
  <2> QED
    BY <2>1, <2>2, <2>3, <2>4, <2>5, <2>6, <2>7 DEF TypeOK
<1>3. InstallsOK /\ ChannelsOK /\ CallerOK /\ MapsOK
  BY DEF InstallsOK, ChannelsOK, CallerOK, MapsOK, Exists
<1>4. NoOrphanGoroutine /\ InstalledListens
  BY DEF NoOrphanGoroutine, InstalledListens, Alive, Exists
<1>5. EntriesOK /\ QuietOK /\ PassedOK
  BY DEF EntriesOK, QuietOK, PassedOK
<1> QED
  BY <1>2, <1>3, <1>4, <1>5 DEF ManagerInv

(* What a step of a live goroutine cannot disturb: it leaves the maps and   *)
(* channels alone and ends only on a closed channel.                        *)
LEMMA GoroutineFrame ==
  ASSUME ManagerInv, NEW i \in Installs, Alive(i),
         NEW v \in {"recv", "lookup", "check", "start", "run", "end", "exited"},
         gpc' = [gpc EXCEPT ![i] = v],
         v = "exited" => i \in closed,
         UNCHANGED <<callVars, registered, bus, closed, mapVars>>
  PROVE  (/\ InstallsOK /\ ChannelsOK /\ CallerOK /\ MapsOK
          /\ NoOrphanGoroutine /\ InstalledListens)'
<1> USE DEF callVars, mapVars
<1>1. \A j \in Installs : gpc'[j] = IF j = i THEN v ELSE gpc[j]
  BY DEF ManagerInv, TypeOK
<1>2. \A j \in Installs : /\ Alive(j)' => Alive(j)
                          /\ gpc'[j] = "none" <=> gpc[j] = "none"
  BY <1>1 DEF Alive
<1>3. InstallsOK'
  BY <1>2 DEF ManagerInv, InstallsOK
<1>4. ChannelsOK'
  BY <1>1 DEF ManagerInv, ChannelsOK
<1>5. CallerOK'
  BY DEF ManagerInv, CallerOK, Exists
<1>6. \A n \in Names : Exists(n) => consumers[n] \in Installs
  BY DEF ManagerInv, TypeOK, Exists
<1>7. MapsOK'
  BY <1>2, <1>6 DEF ManagerInv, MapsOK, Exists
<1>8. NoOrphanGoroutine'
  BY <1>2 DEF ManagerInv, NoOrphanGoroutine
<1>9. InstalledListens'
  <2>1. \A j \in Installs : Alive(j) /\ j \in registered => Alive(j)'
    BY <1>1 DEF Alive, ManagerInv, ChannelsOK
  <2> QED
    BY <1>6, <2>1 DEF ManagerInv, InstalledListens, Exists
<1> QED
  BY <1>3, <1>4, <1>5, <1>7, <1>8, <1>9
(* The calls of the reconciler.                                             *)
LEMMA AddSubscribeInv ==
  ASSUME ManagerInv, NEW n \in Names, NEW g \in Gens, AddSubscribe(n, g)
  PROVE  ManagerInv'
<1> USE DEF AddSubscribe, mapVars, entVars, goVars
<1>0. /\ name \in [Installs -> Names] /\ gen \in [Installs -> Gens]
      /\ entries \in [Names -> {None} \union Installs]
      /\ entry \in [Installs -> {None} \union Installs]
      /\ registered \subseteq 1 .. made /\ closed \subseteq 1 .. made
  BY DEF ManagerInv, TypeOK
<1>1. made + 1 \in Installs /\ made \in Nat /\ made + 1 \in 0 .. MaxInstalls
  <2>1. made \in 0 .. MaxInstalls
    BY DEF ManagerInv, TypeOK
  <2> QED
    BY <2>1, ManagerAssumption DEF Installs
<1>2. \A j \in Installs : gpc[j] # "none" <=> j <= made
  BY DEF ManagerInv, InstallsOK
<1>3. \A j \in Installs : name'[j] = IF j = made + 1 THEN n ELSE name[j]
  BY <1>0
<1>4. TypeOK'
  <2>1. name' \in [Installs -> Names] /\ gen' \in [Installs -> Gens]
    BY <1>0, <1>1
  <2>2. registered' \subseteq 1 .. made' /\ closed' \subseteq 1 .. made'
    BY <1>0, <1>1
  <2>3. made' \in 0 .. MaxInstalls /\ caller' \in {"idle", "adding", "removing"}
    BY <1>1
  <2> QED
    BY <2>1, <2>2, <2>3 DEF ManagerInv, TypeOK
<1>5. InstallsOK'
  BY <1>1, <1>2 DEF InstallsOK, Installs
<1>6. ChannelsOK'
  <2>1. 1 .. made' = (1 .. made) \union {made + 1}
    BY <1>1
  <2>2. made + 1 \notin closed
    BY <1>0, <1>1
  <2> QED
    BY <2>1, <2>2 DEF ManagerInv, ChannelsOK
<1>7. \A m \in Names : Exists(m) => /\ consumers[m] \in Installs
                                    /\ consumers[m] # made + 1
                                    /\ name'[consumers[m]] = m
  <2>1. \A m \in Names : Exists(m) => consumers[m] \in Installs
    BY DEF ManagerInv, TypeOK, Exists
  <2> QED
    BY <1>1, <1>2, <1>3, <2>1 DEF ManagerInv, MapsOK, Exists, Installs
<1>8. CallerOK'
  BY <1>1, <1>3 DEF CallerOK, Exists
<1>9. MapsOK'
  BY <1>7 DEF ManagerInv, MapsOK, Exists
<1>10. NoOrphanGoroutine'
  BY <1>1, <1>2, <1>3 DEF ManagerInv, NoOrphanGoroutine, Alive, Installs
<1>11. InstalledListens'
  BY <1>7 DEF ManagerInv, InstalledListens, Exists, Alive
<1>12. EntriesOK'
  <2> SUFFICES ASSUME NEW j \in Installs, gpc[j] # "none"
               PROVE  /\ entries[name[j]] = None \/ entries[name[j]] >= j
                      /\ gpc[j] \in {"check", "start"} =>
                           /\ entry[j] \in j .. made + 1
                           /\ \/ entries[name[j]] = None
                              \/ entries[name[j]] >= entry[j]
    <3>1. \A j \in Installs : gpc[j] # "none" => name'[j] = name[j]
      BY <1>1, <1>2, <1>3 DEF Installs
    <3> QED
      BY <3>1 DEF EntriesOK
  <2>1. /\ entries[name[j]] = None \/ entries[name[j]] >= j
        /\ gpc[j] \in {"check", "start"} =>
             /\ entry[j] \in j .. made
             /\ entries[name[j]] = None \/ entries[name[j]] >= entry[j]
    BY DEF ManagerInv, EntriesOK
  <2> QED
    BY <1>1, <2>1 DEF Installs
<1>13. QuietOK' /\ PassedOK'
  BY DEF ManagerInv, QuietOK, PassedOK
<1> QED
  BY <1>4, <1>5, <1>6, <1>8, <1>9, <1>10, <1>11, <1>12, <1>13 DEF ManagerInv

(* The rest of Add, which installs what it subscribed.                      *)
LEMMA AddInstallInv == ASSUME ManagerInv, AddInstall PROVE ManagerInv'
<1> USE DEF AddInstall, StateAdd, chanVars, entVars
<1>0. /\ consumers \in [Names -> {None} \union Installs]
      /\ entries \in [Names -> {None} \union Installs]
      /\ gpc \in [Installs -> {"none", "recv", "lookup", "check", "start", "run",
                               "end", "exited"}]
      /\ name \in [Installs -> Names]
      /\ made \in 0 .. MaxInstalls /\ target \in Names
  BY DEF ManagerInv, TypeOK
<1>1. /\ made \in Installs /\ name[made] = target /\ consumers[target] = None
      /\ gpc[made] = "none" /\ made # None
  BY <1>0, ManagerAssumption DEF ManagerInv, CallerOK, InstallsOK, Installs, None
<1>2. \A j \in Installs : gpc'[j] = IF j = made THEN "recv" ELSE gpc[j]
  BY <1>0
<1>3. \A m \in Names : /\ consumers'[m] = IF m = target THEN made ELSE consumers[m]
                       /\ entries'[m] = IF m = target THEN made ELSE entries[m]
  BY <1>0
<1>4. TypeOK'
  <2>1. /\ consumers' \in [Names -> {None} \union Installs]
        /\ entries' \in [Names -> {None} \union Installs]
    BY <1>0, <1>1
  <2>2. gpc' \in [Installs -> {"none", "recv", "lookup", "check", "start", "run",
                               "end", "exited"}]
    BY <1>0, <1>1
  <2> QED
    BY <2>1, <2>2 DEF ManagerInv, TypeOK
<1>5. InstallsOK'
  BY <1>0, <1>1, <1>2, ManagerAssumption DEF ManagerInv, InstallsOK, Installs
<1>6. ChannelsOK'
  BY <1>2 DEF ManagerInv, ChannelsOK
<1>7. CallerOK'
  BY DEF CallerOK
<1>8. \A m \in Names : Exists(m)' =>
          /\ consumers'[m] \in Installs
          /\ name[consumers'[m]] = m
          /\ m # target => consumers'[m] # made /\ consumers[m] # None
  BY <1>0, <1>1, <1>3 DEF ManagerInv, MapsOK, Exists
<1>9. MapsOK'
  <2>1. consumers' = entries'
    BY DEF ManagerInv, MapsOK
  <2>2. \A m \in Names : Exists(m)' => gpc'[consumers'[m]] # "none"
    BY <1>1, <1>2, <1>3, <1>8 DEF ManagerInv, MapsOK, Exists
  <2> QED
    BY <1>8, <2>1, <2>2 DEF MapsOK
<1>10. NoOrphanGoroutine'
  <2> SUFFICES ASSUME NEW j \in Installs, Alive(j)', j \notin closed
               PROVE  consumers'[name[j]] = j
    BY DEF NoOrphanGoroutine
  <2>1. CASE j = made
    BY <1>0, <1>1, <1>3, <2>1
  <2>2. CASE j # made
    <3>1. consumers[name[j]] = j
      BY <1>2, <2>2 DEF ManagerInv, NoOrphanGoroutine, Alive
    <3>2. j # None
      BY ManagerAssumption DEF Installs, None
    <3>3. name[j] # target
      BY <1>1, <3>1, <3>2
    <3> QED
      BY <1>0, <1>3, <3>1, <3>3
  <2> QED
    BY <2>1, <2>2
<1>11. InstalledListens'
  <2> SUFFICES ASSUME NEW m \in Names, Exists(m)', bus = "up"
               PROVE  /\ entries'[m] = consumers'[m]
                      /\ consumers'[m] \in registered
                      /\ gpc'[consumers'[m]] \notin {"none", "exited"}
    BY <1>8 DEF InstalledListens, Alive
  <2>1. CASE m = target
    BY <1>1, <1>2, <1>3, <2>1 DEF ManagerInv, CallerOK
  <2>2. CASE m # target
    BY <1>2, <1>3, <1>8, <2>2 DEF ManagerInv, InstalledListens, Exists, Alive
  <2> QED
    BY <2>1, <2>2
<1>12. EntriesOK'
  <2> SUFFICES ASSUME NEW j \in Installs
               PROVE  /\ gpc'[j] # "none" => \/ entries'[name[j]] = None
                                             \/ entries'[name[j]] >= j
                      /\ gpc'[j] \in {"check", "start"} =>
                           /\ entry[j] \in j .. made
                           /\ \/ entries'[name[j]] = None
                              \/ entries'[name[j]] >= entry[j]
    BY DEF EntriesOK
  <2>1. name[j] \in Names /\ j \in Nat /\ made \in Nat
    BY <1>0, <1>1, ManagerAssumption DEF Installs
  <2>2. gpc'[j] # "none" => j <= made
    BY <1>1, <1>2, <2>1 DEF ManagerInv, InstallsOK
  <2>3. gpc'[j] \in {"check", "start"} => gpc[j] = gpc'[j] /\ entry[j] \in j .. made
    BY <1>2 DEF ManagerInv, EntriesOK
  <2>4. CASE name[j] = target
    <3>1. entries'[name[j]] = made
      BY <1>0, <1>3, <2>4
    <3> QED
      BY <2>1, <2>2, <2>3, <3>1
  <2>5. CASE name[j] # target
    <3>2. j # made
      BY <1>1, <2>5
    <3>3. gpc'[j] = gpc[j]
      BY <1>2, <3>2
    <3>4. entries'[name[j]] = entries[name[j]]
      BY <1>3, <2>1, <2>5
    <3> QED
      BY <2>3, <3>3, <3>4 DEF ManagerInv, EntriesOK
  <2> QED
    BY <2>4, <2>5
<1>13. QuietOK' /\ PassedOK'
  BY <1>2 DEF ManagerInv, QuietOK, PassedOK
<1> QED
  BY <1>4, <1>5, <1>6, <1>7, <1>9, <1>10, <1>11, <1>12, <1>13 DEF ManagerInv

(* Both halves of Remove: closing the channel, forgetting the entry.        *)
LEMMA RemoveInv ==
  ASSUME ManagerInv,
         (\E n \in Names : RemoveUnsubscribe(n)) \/ RemoveState
  PROVE  ManagerInv'
<1>0. /\ consumers \in [Names -> {None} \union Installs]
      /\ entries \in [Names -> {None} \union Installs]
      /\ target \in Names /\ name \in [Installs -> Names]
      /\ registered \subseteq 1 .. made /\ closed \subseteq 1 .. made
  BY DEF ManagerInv, TypeOK
<1>1. ASSUME NEW n \in Names, RemoveUnsubscribe(n) PROVE ManagerInv'
  <2> USE <1>1 DEF RemoveUnsubscribe, mapVars, entVars, goVars
  <2>1. TypeOK'
    <3>1. registered' \subseteq 1 .. made' /\ closed' \subseteq 1 .. made'
      BY <1>0
    <3> QED
      BY <3>1 DEF ManagerInv, TypeOK
  <2>2. InstallsOK'
    BY DEF ManagerInv, InstallsOK
  <2>3. ChannelsOK'
    BY DEF ManagerInv, ChannelsOK
  <2>4. Exists(n) => consumers[n] \in registered \union closed
    <3>1. Exists(n) => consumers[n] \in Installs /\ gpc[consumers[n]] # "none"
      BY <1>0 DEF ManagerInv, MapsOK, Exists
    <3>2. made \in Nat
      BY ManagerAssumption DEF ManagerInv, TypeOK
    <3>3. Exists(n) => consumers[n] \in 1 .. made
      BY <3>1, <3>2, ManagerAssumption DEF ManagerInv, InstallsOK, Installs
    <3> QED
      BY <3>3 DEF ManagerInv, ChannelsOK
  <2>5. CallerOK'
    BY <2>4 DEF CallerOK, Exists
  <2>6. MapsOK'
    BY DEF ManagerInv, MapsOK, Exists
  <2>7. NoOrphanGoroutine'
    BY DEF ManagerInv, NoOrphanGoroutine, Alive
  <2>8. \A m \in Names : Exists(m) /\ m # n => consumers[m] # consumers[n]
    BY <1>0 DEF ManagerInv, MapsOK, Exists
  <2>9. InstalledListens'
    BY <2>8 DEF ManagerInv, InstalledListens, Exists, Alive
  <2>10. EntriesOK' /\ QuietOK' /\ PassedOK'
    BY DEF ManagerInv, EntriesOK, QuietOK, PassedOK
  <2> QED
    BY <2>1, <2>2, <2>3, <2>5, <2>6, <2>7, <2>9, <2>10 DEF ManagerInv
<1>2. ASSUME RemoveState PROVE ManagerInv'
  <2> USE <1>2 DEF RemoveState, StateRemove, chanVars, entVars, goVars
  <2>1. TypeOK'
    <3>1. /\ consumers' \in [Names -> {None} \union Installs]
          /\ entries' \in [Names -> {None} \union Installs]
      BY <1>0
    <3> QED
      BY <3>1 DEF ManagerInv, TypeOK
  <2>2. InstallsOK' /\ ChannelsOK' /\ CallerOK'
    BY DEF ManagerInv, InstallsOK, ChannelsOK, CallerOK
  <2>3. \A m \in Names :
          /\ consumers'[m] = IF m = target THEN None ELSE consumers[m]
          /\ entries'[m] = IF m = target THEN None ELSE entries[m]
    BY <1>0
  <2>4. MapsOK'
    BY <2>3 DEF ManagerInv, MapsOK, Exists
  <2>5. NoOrphanGoroutine'
    <3> SUFFICES ASSUME NEW i \in Installs, Alive(i), i \notin closed
                 PROVE  consumers'[name[i]] = i
      BY DEF NoOrphanGoroutine, Alive
    <3>1. consumers[name[i]] = i /\ i # None
      BY ManagerAssumption
      DEF ManagerInv, NoOrphanGoroutine, Installs, None
    <3>2. name[i] # target
      BY <3>1 DEF ManagerInv, CallerOK, Exists
    <3> QED
      BY <1>0, <2>3, <3>1, <3>2
  <2>6. InstalledListens'
    BY <2>3 DEF ManagerInv, InstalledListens, Exists, Alive
  <2>7. EntriesOK'
    <3>1. \A i \in Installs : \/ entries'[name[i]] = None
                              \/ entries'[name[i]] = entries[name[i]]
      BY <1>0, <2>3
    <3> QED
      BY <3>1 DEF ManagerInv, EntriesOK
  <2>8. QuietOK' /\ PassedOK'
    BY DEF ManagerInv, QuietOK, PassedOK
  <2> QED
    BY <2>1, <2>2, <2>4, <2>5, <2>6, <2>7, <2>8 DEF ManagerInv
<1> QED
  BY <1>1, <1>2

(* The history's windows end at some time.                                  *)
LEMMA HistoryTyped ==
  ASSUME ManagerInv
  PROVE  \A i \in Installs, k \in EventKeys : last[i][k].until \in Nat
<1>1. last \in [Installs -> [EventKeys -> Starts]]
  BY DEF ManagerInv, TypeOK
<1>2. \A s \in Starts : s.until \in Nat
  BY ManagerAssumption DEF Starts
<1> QED
  BY <1>1, <1>2

(* Between GetCounterMeasure and CounterMeasureStart a goroutine holds an   *)
(* entry.                                                                   *)
LEMMA EntrySeen ==
  ASSUME ManagerInv, NEW i \in Installs, gpc[i] \in {"check", "start"}
  PROVE  entry[i] \in Installs
<1>1. entry[i] \in {None} \union Installs /\ entry[i] \in i .. made
  BY DEF ManagerInv, TypeOK, EntriesOK
<1> QED
  BY <1>1, ManagerAssumption DEF Installs, None

(* The event bus and the clock.                                             *)
LEMMA EnvironmentInv ==
  ASSUME ManagerInv,
         \/ \E i \in Installs, k \in EventKeys : BusSend(i, k)
         \/ BusShutdown
         \/ Tick
  PROVE  ManagerInv'
<1> USE DEF callVars, mapVars, entVars, goVars
<1>1. ASSUME NEW i \in Installs, NEW k \in EventKeys, BusSend(i, k)
      PROVE  ManagerInv'
  <2> USE <1>1 DEF BusSend
  <2>1. /\ buf \in [Installs -> Seq(EventKeys)]
        /\ \A j \in Installs : Len(buf[j]) <= Cap
    BY DEF ManagerInv, TypeOK
  <2>2. \A j \in Installs :
          buf'[j] = IF j = i THEN Append(buf[i], k) ELSE buf[j]
    BY <2>1
  <2>3. /\ Append(buf[i], k) \in Seq(EventKeys)
        /\ Len(Append(buf[i], k)) <= Cap
    <3>1. buf[i] \in Seq(EventKeys)
      BY <2>1
    <3>2. Len(Append(buf[i], k)) = Len(buf[i]) + 1 /\ Len(buf[i]) \in Nat
      BY <3>1
    <3> QED
      BY <3>1, <3>2, ManagerAssumption
  <2>4. TypeOK'
    <3>1. buf' \in [Installs -> Seq(EventKeys)]
      BY <2>1, <2>3
    <3>2. \A j \in Installs : Len(buf'[j]) <= Cap
      BY <2>1, <2>2, <2>3
    <3> QED
      BY <3>1, <3>2 DEF ManagerInv, TypeOK
  <2>5. (InstallsOK /\ ChannelsOK /\ CallerOK /\ MapsOK)'
    BY DEF ManagerInv, InstallsOK, ChannelsOK, CallerOK, MapsOK, Exists
  <2>6. (NoOrphanGoroutine /\ InstalledListens)'
    BY DEF ManagerInv, NoOrphanGoroutine, InstalledListens, Exists, Alive
  <2>7. (EntriesOK /\ QuietOK /\ PassedOK)'
    BY DEF ManagerInv, EntriesOK, QuietOK, PassedOK
  <2> QED
    BY <2>4, <2>5, <2>6, <2>7 DEF ManagerInv
<1>2. ASSUME BusShutdown PROVE ManagerInv'
  <2> USE <1>2 DEF BusShutdown
  <2>1. TypeOK'
    <3>1. registered \subseteq 1 .. made /\ closed \subseteq 1 .. made
      BY DEF ManagerInv, TypeOK
    <3>2. registered' \subseteq 1 .. made' /\ closed' \subseteq 1 .. made'
      BY <3>1
    <3> QED
      BY <3>2 DEF ManagerInv, TypeOK
  <2>2. (InstallsOK /\ ChannelsOK /\ CallerOK /\ MapsOK)'
    BY DEF ManagerInv, InstallsOK, ChannelsOK, CallerOK, MapsOK, Exists
  <2>3. (NoOrphanGoroutine /\ InstalledListens)'
    BY DEF ManagerInv, NoOrphanGoroutine, InstalledListens, Exists, Alive
  <2>4. (EntriesOK /\ QuietOK /\ PassedOK)'
    BY DEF ManagerInv, EntriesOK, QuietOK, PassedOK
  <2> QED
    BY <2>1, <2>2, <2>3, <2>4 DEF ManagerInv
<1>3. ASSUME Tick PROVE ManagerInv'
  <2> USE <1>3 DEF Tick, chanVars
  <2>1. /\ now \in Nat /\ now + 1 \in 0 .. MaxTime
        /\ now' = now + 1
    BY ManagerAssumption DEF ManagerInv, TypeOK
  <2>2. TypeOK'
    BY <2>1 DEF ManagerInv, TypeOK
  <2>3. (InstallsOK /\ ChannelsOK /\ CallerOK /\ MapsOK)'
    BY DEF ManagerInv, InstallsOK, ChannelsOK, CallerOK, MapsOK, Exists
  <2>4. (NoOrphanGoroutine /\ InstalledListens)'
    BY DEF ManagerInv, NoOrphanGoroutine, InstalledListens, Exists, Alive
  <2>5. EntriesOK'
    BY DEF ManagerInv, EntriesOK
  <2>6. \A i \in Installs, k \in EventKeys : last[i][k].until \in Nat
    BY HistoryTyped
  <2>7. QuietOK'
    BY <2>1, <2>6, ManagerAssumption DEF ManagerInv, QuietOK
  <2>8. PassedOK'
    <3>1. \A i \in Installs : /\ evt[i] \in EventKeys
                              /\ gpc[i] = "start" => entry[i] \in Installs
      BY EntrySeen DEF ManagerInv, TypeOK
    <3> SUFFICES ASSUME NEW i \in Installs, gpc[i] = "start",
                        last[entry[i]][evt[i]].by = i
                 PROVE  last[entry[i]][evt[i]].until <= now + 1
      BY <2>1 DEF PassedOK
    <3>2. last[entry[i]][evt[i]].until <= now
      BY DEF ManagerInv, PassedOK
    <3>3. last[entry[i]][evt[i]].until \in Nat
      BY <2>6, <3>1
    <3> QED
      BY <2>1, <3>2, <3>3
  <2> QED
    BY <2>2, <2>3, <2>4, <2>5, <2>7, <2>8 DEF ManagerInv
<1> QED
  BY <1>1, <1>2, <1>3

(* What a goroutine's lookup of its key returns.                            *)
LEMMA LookupFinds ==
  ASSUME ManagerInv, NEW i \in Installs, Lookup(i) # None
  PROVE  /\ Lookup(i) \in Installs
         /\ Lookup(i) = entries[name[i]]
         /\ Lookup(i) <= made
<1>1. /\ entries \in [Names -> {None} \union Installs]
      /\ name \in [Installs -> Names] /\ made \in Nat
  BY ManagerAssumption DEF ManagerInv, TypeOK
<1>2. Lookup(i) \in Installs /\ Lookup(i) = entries[name[i]]
  BY <1>1 DEF Lookup
<1>3. gpc[Lookup(i)] # "none"
  BY <1>1, <1>2 DEF ManagerInv, MapsOK, Exists
<1> QED
  BY <1>2, <1>3 DEF ManagerInv, InstallsOK

(* The steps of a goroutine that leave lastRuns and the history alone: they *)
(* keep the invariant if the entry seen is forgotten or kept, and if the    *)
(* goroutine passes IsSuppressed only where it may.                         *)
LEMMA LoopFrame ==
  ASSUME ManagerInv, NEW i \in Installs, Alive(i),
         NEW v \in {"recv", "lookup", "start", "run", "end", "exited"},
         gpc' = [gpc EXCEPT ![i] = v],
         v = "exited" => i \in closed,
         v = "start" => /\ gpc[i] = "check"
                        /\ last[entry[i]][evt[i]].by = i =>
                               last[entry[i]][evt[i]].until <= now,
         entry' \in {entry, [entry EXCEPT ![i] = None]},
         v = "start" => entry' = entry,
         \A j \in Installs : j # i => evt'[j] = evt[j],
         v = "start" => evt' = evt,
         UNCHANGED <<callVars, registered, bus, closed, mapVars, lastRuns, now,
                     last>>
  PROVE  (/\ InstallsOK /\ ChannelsOK /\ CallerOK /\ MapsOK
          /\ NoOrphanGoroutine /\ InstalledListens
          /\ EntriesOK /\ QuietOK /\ PassedOK)'
<1> USE DEF callVars, mapVars
<1>1. (/\ InstallsOK /\ ChannelsOK /\ CallerOK /\ MapsOK
       /\ NoOrphanGoroutine /\ InstalledListens)'
  BY GoroutineFrame
<1>2. \A j \in Installs : gpc'[j] = IF j = i THEN v ELSE gpc[j]
  BY DEF ManagerInv, TypeOK
<1>3. \A j \in Installs : j # i \/ v = "start" => entry'[j] = entry[j]
  BY DEF ManagerInv, TypeOK
<1>4. EntriesOK'
  BY <1>2, <1>3 DEF ManagerInv, EntriesOK, Alive
<1>5. QuietOK'
  BY DEF ManagerInv, QuietOK
<1>6. PassedOK'
  BY <1>2, <1>3 DEF ManagerInv, PassedOK
<1> QED
  BY <1>1, <1>4, <1>5, <1>6

(* GetCounterMeasure forgets expired runs only, so the entry still knows    *)
(* until when it is suppressed.                                             *)
LEMMA GetCounterMeasureInv ==
  ASSUME ManagerInv, NEW i \in Installs, GetCounterMeasure(i)
  PROVE  ManagerInv'
<1> USE DEF GetCounterMeasure
<1> DEFINE e == Lookup(i)
<1>0. /\ lastRuns \in [Installs -> [EventKeys -> 0 .. MaxTime + Duration]]
      /\ last \in [Installs -> [EventKeys -> Starts]]
      /\ entry \in [Installs -> {None} \union Installs]
      /\ gpc \in [Installs -> {"none", "recv", "lookup", "check", "start", "run",
                               "end", "exited"}]
      /\ now \in 0 .. MaxTime /\ made \in 0 .. MaxInstalls
  BY DEF ManagerInv, TypeOK
<1>a. now \in Nat /\ made \in Nat /\ i \in Nat
  BY <1>0, ManagerAssumption DEF Installs
<1>1. e # None => e \in Installs /\ e = entries[name[i]] /\ e <= made
  BY LookupFinds
<1>2. \A j \in Installs, k \in EventKeys :
        lastRuns'[j][k] = lastRuns[j][k] \/ lastRuns[j][k] < now
  <2> SUFFICES ASSUME NEW j \in Installs, NEW k \in EventKeys
               PROVE  \/ lastRuns'[j][k] = lastRuns[j][k]
                      \/ lastRuns[j][k] < now
    OBVIOUS
  <2>1. CASE e = None \/ j # e
    BY <1>0, <1>1, <2>1
  <2>2. CASE e # None /\ j = e
    <3>1. lastRuns'[j] = ClearExpired(lastRuns[j])
      BY <1>0, <1>1, <2>2
    <3> QED
      BY <3>1 DEF ClearExpired
  <2> QED
    BY <2>1, <2>2
<1>3. /\ lastRuns' \in [Installs -> [EventKeys -> 0 .. MaxTime + Duration]]
      /\ entry' \in [Installs -> {None} \union Installs]
      /\ gpc' \in [Installs -> {"none", "recv", "lookup", "check", "start", "run",
                                "end", "exited"}]
  <2>1. ASSUME e # None
        PROVE  ClearExpired(lastRuns[e]) \in [EventKeys -> 0 .. MaxTime + Duration]
    <3>1. lastRuns[e] \in [EventKeys -> 0 .. MaxTime + Duration]
      BY <1>0, <1>1, <2>1
    <3>2. 0 \in 0 .. MaxTime + Duration
      BY ManagerAssumption
    <3> QED
      BY <3>1, <3>2 DEF ClearExpired
  <2>2. lastRuns' \in [Installs -> [EventKeys -> 0 .. MaxTime + Duration]]
    BY <1>0, <1>1, <2>1
  <2>3. entry' \in [Installs -> {None} \union Installs]
    BY <1>0, <1>1
  <2> QED
    BY <1>0, <2>2, <2>3
<1>4. TypeOK'
  BY <1>3 DEF ManagerInv, TypeOK, callVars, chanVars, mapVars
<1>5. (/\ InstallsOK /\ ChannelsOK /\ CallerOK /\ MapsOK
       /\ NoOrphanGoroutine /\ InstalledListens)'
  <2>1. Alive(i) /\ gpc' = [gpc EXCEPT ![i] = IF e = None THEN "recv" ELSE "check"]
    BY DEF Alive
  <2> QED
    BY <2>1, GoroutineFrame DEF chanVars
<1>6. \A j \in Installs :
        /\ gpc'[j] = IF j = i THEN IF e = None THEN "recv" ELSE "check" ELSE gpc[j]
        /\ entry'[j] = IF j = i THEN e ELSE entry[j]
  BY <1>0
<1>7. EntriesOK'
  <2> SUFFICES ASSUME NEW j \in Installs
               PROVE  /\ gpc'[j] # "none" => \/ entries[name[j]] = None
                                             \/ entries[name[j]] >= j
                      /\ gpc'[j] \in {"check", "start"} =>
                           /\ entry'[j] \in j .. made
                           /\ \/ entries[name[j]] = None
                              \/ entries[name[j]] >= entry'[j]
    BY DEF EntriesOK, callVars, mapVars
  <2>1. CASE j = i
    <3>1. entries[name[i]] = None \/ entries[name[i]] >= i
      BY DEF ManagerInv, EntriesOK
    <3>2. e # None => e \in i .. made /\ e >= e
      BY <1>a, <1>1, <3>1, ManagerAssumption DEF Installs
    <3> QED
      BY <1>1, <1>6, <2>1, <3>1, <3>2
  <2>2. CASE j # i
    BY <1>6, <2>2 DEF ManagerInv, EntriesOK
  <2> QED
    BY <2>1, <2>2
<1>8. QuietOK'
  <2> SUFFICES ASSUME NEW j \in Installs, NEW k \in EventKeys
               PROVE  /\ last[j][k].until <= now + Duration
                      /\ last[j][k].until <= now \/ last[j][k].until <= lastRuns'[j][k]
    BY DEF QuietOK
  <2>1. /\ last[j][k].until <= now + Duration
        /\ last[j][k].until <= now \/ last[j][k].until <= lastRuns[j][k]
    BY DEF ManagerInv, QuietOK
  <2>2. last[j][k].until \in Nat /\ lastRuns[j][k] \in Nat
    BY <1>0, HistoryTyped, ManagerAssumption
  <2> QED
    BY <1>a, <1>2, <2>1, <2>2
<1>9. PassedOK'
  BY <1>6 DEF ManagerInv, PassedOK
<1> QED
  BY <1>4, <1>5, <1>7, <1>8, <1>9 DEF ManagerInv

(* CounterMeasureStart records the run, by its own lookup, where the next   *)
(* IsSuppressed of this goroutine finds it.                                 *)
LEMMA CounterMeasureStartInv ==
  ASSUME ManagerInv, NEW i \in Installs, CounterMeasureStart(i)
  PROVE  ManagerInv'
<1> DEFINE e == Lookup(i)
           k == evt[i]
           until == now + Duration
<1>0. /\ lastRuns \in [Installs -> [EventKeys -> 0 .. MaxTime + Duration]]
      /\ last \in [Installs -> [EventKeys -> Starts]]
      /\ entry \in [Installs -> {None} \union Installs]
      /\ running \in [Installs -> BOOLEAN]
      /\ gpc \in [Installs -> {"none", "recv", "lookup", "check", "start", "run",
                               "end", "exited"}]
      /\ evt \in [Installs -> EventKeys]
  BY DEF ManagerInv, TypeOK
<1>1. /\ k \in EventKeys /\ now \in Nat /\ until \in Nat
      /\ until \in 0 .. MaxTime + Duration
  BY <1>0, ManagerAssumption DEF ManagerInv, TypeOK
<1>2. e \in Installs
  BY LookupFinds DEF CounterMeasureStart
<1>3. /\ gpc[i] = "start"
      /\ gpc' = [gpc EXCEPT ![i] = "run"]
      /\ entry' = [entry EXCEPT ![i] = None]
      /\ running' = [running EXCEPT ![e] = TRUE]
      /\ UNCHANGED <<callVars, chanVars, mapVars, evt, now, crashed>>
  BY DEF CounterMeasureStart
<1>4. \/ UNCHANGED <<lastRuns, last>>
      \/ /\ lastRuns' = [lastRuns EXCEPT ![e][k] = until]
         /\ last' = [last EXCEPT ![e][k] = [by |-> i, until |-> until]]
  BY DEF CounterMeasureStart
<1>5. \A j \in Installs, x \in EventKeys :
        /\ \/ last'[j][x] = last[j][x]
           \/ /\ last'[j][x] = [by |-> i, until |-> until]
              /\ lastRuns'[j][x] = until
        /\ lastRuns'[j][x] = lastRuns[j][x] \/ lastRuns'[j][x] = until
  <2> SUFFICES ASSUME NEW j \in Installs, NEW x \in EventKeys,
                      lastRuns' = [lastRuns EXCEPT ![e][k] = until],
                      last' = [last EXCEPT ![e][k] = [by |-> i, until |-> until]]
               PROVE  /\ \/ last'[j][x] = last[j][x]
                         \/ /\ last'[j][x] = [by |-> i, until |-> until]
                            /\ lastRuns'[j][x] = until
                      /\ \/ lastRuns'[j][x] = lastRuns[j][x]
                         \/ lastRuns'[j][x] = until
    BY <1>4
  <2> HIDE DEF e, k, until
  <2>1. lastRuns'[j][x] = IF j = e /\ x = k THEN until ELSE lastRuns[j][x]
    BY <1>0, <1>1, <1>2
  <2>2. last'[j][x] = IF j = e /\ x = k THEN [by |-> i, until |-> until]
                      ELSE last[j][x]
    BY <1>0, <1>1, <1>2
  <2> QED
    BY <2>1, <2>2
<1>6. TypeOK'
  <2>1. /\ [lastRuns EXCEPT ![e][k] = until]
             \in [Installs -> [EventKeys -> 0 .. MaxTime + Duration]]
        /\ [last EXCEPT ![e][k] = [by |-> i, until |-> until]]
             \in [Installs -> [EventKeys -> Starts]]
    BY <1>0, <1>1, <1>2 DEF Starts
  <2>2. /\ lastRuns' \in [Installs -> [EventKeys -> 0 .. MaxTime + Duration]]
        /\ last' \in [Installs -> [EventKeys -> Starts]]
    BY <1>0, <1>4, <2>1
  <2>3. /\ entry' \in [Installs -> {None} \union Installs]
        /\ running' \in [Installs -> BOOLEAN]
        /\ gpc' \in [Installs -> {"none", "recv", "lookup", "check", "start",
                                  "run", "end", "exited"}]
    BY <1>0, <1>3
  <2> QED
    BY <1>3, <2>2, <2>3 DEF ManagerInv, TypeOK, callVars, chanVars, mapVars
<1>7. (/\ InstallsOK /\ ChannelsOK /\ CallerOK /\ MapsOK
       /\ NoOrphanGoroutine /\ InstalledListens)'
  <2>1. Alive(i)
    BY <1>3 DEF Alive
  <2> QED
    BY <1>3, <2>1, GoroutineFrame DEF chanVars
<1>8. \A j \in Installs : /\ gpc'[j] = IF j = i THEN "run" ELSE gpc[j]
                          /\ j # i => entry'[j] = entry[j]
  BY <1>0, <1>3
<1>9. EntriesOK'
  BY <1>3, <1>8 DEF ManagerInv, EntriesOK, callVars, mapVars
<1>10. QuietOK'
  <2> SUFFICES ASSUME NEW j \in Installs, NEW x \in EventKeys
               PROVE  /\ last'[j][x].until <= now + Duration
                      /\ last'[j][x].until <= now \/ last'[j][x].until <= lastRuns'[j][x]
    BY <1>3 DEF QuietOK
  <2>1. /\ last[j][x].until <= now + Duration
        /\ last[j][x].until <= now \/ last[j][x].until <= lastRuns[j][x]
    BY DEF ManagerInv, QuietOK
  <2>2. last[j][x].until \in Nat /\ lastRuns[j][x] \in Nat
    BY <1>0, HistoryTyped, ManagerAssumption
  <2> QED
    BY <1>1, <1>5, <2>1, <2>2, ManagerAssumption
<1>11. PassedOK'
  <2> SUFFICES ASSUME NEW j \in Installs, gpc'[j] = "start",
                      last'[entry'[j]][evt[j]].by = j
               PROVE  last'[entry'[j]][evt[j]].until <= now
    BY <1>3 DEF PassedOK
  <2>1. j # i /\ gpc[j] = "start" /\ entry'[j] = entry[j]
    BY <1>8
  <2>2. entry[j] \in Installs /\ evt[j] \in EventKeys
    BY <1>0, <2>1, EntrySeen
  <2>3. last'[entry[j]][evt[j]] = last[entry[j]][evt[j]]
    BY <1>5, <2>1, <2>2
  <2> QED
    BY <2>1, <2>3 DEF ManagerInv, PassedOK
<1> QED
  BY <1>6, <1>7, <1>9, <1>10, <1>11 DEF ManagerInv

(* Every step of a countermeasure's goroutine.                              *)
LEMMA GoStepInv ==
  ASSUME ManagerInv, NEW i \in Installs, GoStep(i)
  PROVE  ManagerInv'
<1> USE DEF callVars, chanVars, mapVars, entVars
<1>0. /\ buf \in [Installs -> Seq(EventKeys)]
      /\ \A j \in Installs : Len(buf[j]) <= Cap
      /\ running \in [Installs -> BOOLEAN]
      /\ gpc \in [Installs -> {"none", "recv", "lookup", "check", "start", "run",
                               "end", "exited"}]
      /\ evt \in [Installs -> EventKeys]
      /\ entry \in [Installs -> {None} \union Installs]
  BY DEF ManagerInv, TypeOK
<1>1. ASSUME Receive(i) PROVE ManagerInv'
  <2> USE <1>1 DEF Receive
  <2>1. Head(buf[i]) \in EventKeys /\ Tail(buf[i]) \in Seq(EventKeys)
        /\ Len(Tail(buf[i])) <= Cap
    <3>1. buf[i] \in Seq(EventKeys) /\ buf[i] # <<>> /\ Len(buf[i]) <= Cap
      BY <1>0
    <3>2. Len(Tail(buf[i])) = Len(buf[i]) - 1 /\ Len(buf[i]) \in Nat
      BY <3>1
    <3> QED
      BY <3>1, <3>2, ManagerAssumption
  <2>2. TypeOK'
    <3>1. buf' \in [Installs -> Seq(EventKeys)]
      BY <1>0, <2>1
    <3>2. \A j \in Installs : Len(buf'[j]) <= Cap
      BY <1>0, <2>1
    <3>3. /\ evt' \in [Installs -> EventKeys]
          /\ gpc' \in [Installs -> {"none", "recv", "lookup", "check", "start",
                                    "run", "end", "exited"}]
      BY <1>0, <2>1
    <3> QED
      BY <3>1, <3>2, <3>3 DEF ManagerInv, TypeOK
  <2>3. \A j \in Installs : j # i => evt'[j] = evt[j]
    BY <1>0
  <2> QED
    BY <2>2, <2>3, LoopFrame DEF ManagerInv, Alive
<1>2. ASSUME Exit(i) PROVE ManagerInv'
  <2> USE <1>2 DEF Exit
  <2>1. TypeOK'
    <3>1. gpc' \in [Installs -> {"none", "recv", "lookup", "check", "start",
                                 "run", "end", "exited"}]
      BY <1>0
    <3> QED
      BY <3>1 DEF ManagerInv, TypeOK
  <2> QED
    BY <2>1, LoopFrame DEF ManagerInv, Alive
<1>3. ASSUME Skip(i) PROVE ManagerInv'
  <2> USE <1>3 DEF Skip
  <2>1. TypeOK'
    <3>1. /\ entry' \in [Installs -> {None} \union Installs]
          /\ gpc' \in [Installs -> {"none", "recv", "lookup", "check", "start",
                                    "run", "end", "exited"}]
      BY <1>0
    <3> QED
      BY <3>1 DEF ManagerInv, TypeOK
  <2> QED
    BY <2>1, LoopFrame DEF ManagerInv, Alive
<1>4. ASSUME Proceed(i) PROVE ManagerInv'
  <2> USE <1>4 DEF Proceed
  <2>1. TypeOK'
    <3>1. gpc' \in [Installs -> {"none", "recv", "lookup", "check", "start",
                                 "run", "end", "exited"}]
      BY <1>0
    <3> QED
      BY <3>1 DEF ManagerInv, TypeOK
  <2>2. last[entry[i]][evt[i]].until <= now
    <3>1. entry[i] \in Installs /\ evt[i] \in EventKeys
      BY <1>0, EntrySeen
    <3>2. /\ lastRuns[entry[i]][evt[i]] \in 0 .. MaxTime + Duration
          /\ last[entry[i]][evt[i]].until \in Nat /\ now \in 0 .. MaxTime
      BY <3>1, HistoryTyped DEF ManagerInv, TypeOK
    <3>3. \/ last[entry[i]][evt[i]].until <= now
          \/ last[entry[i]][evt[i]].until <= lastRuns[entry[i]][evt[i]]
      BY <3>1 DEF ManagerInv, QuietOK
    <3>4. ~(lastRuns[entry[i]][evt[i]] > now)
      BY DEF IsSuppressed
    <3> QED
      BY <3>2, <3>3, <3>4, ManagerAssumption
  <2> QED
    BY <2>1, <2>2, LoopFrame DEF ManagerInv, Alive
<1>5. ASSUME Run(i) PROVE ManagerInv'
  <2> USE <1>5 DEF Run
  <2>1. TypeOK'
    <3>1. gpc' \in [Installs -> {"none", "recv", "lookup", "check", "start",
                                 "run", "end", "exited"}]
      BY <1>0
    <3> QED
      BY <3>1 DEF ManagerInv, TypeOK
  <2> QED
    BY <2>1, LoopFrame DEF ManagerInv, Alive
<1>6. ASSUME CounterMeasureEnd(i) PROVE ManagerInv'
  <2> USE <1>6 DEF CounterMeasureEnd
  <2>1. TypeOK'
    <3>1. /\ gpc' \in [Installs -> {"none", "recv", "lookup", "check", "start",
                                    "run", "end", "exited"}]
          /\ running' \in [Installs -> BOOLEAN]
      BY <1>0
    <3> QED
      BY <3>1 DEF ManagerInv, TypeOK
  <2> QED
    BY <2>1, LoopFrame DEF ManagerInv, Alive
<1>7. ASSUME NilEntry(i) \/ RunPanics(i) PROVE ManagerInv'
  <2> USE <1>7 DEF NilEntry, RunPanics, goVars
  <2>1. TypeOK'
    BY DEF ManagerInv, TypeOK
  <2>2. (InstallsOK /\ ChannelsOK /\ CallerOK /\ MapsOK)'
    BY DEF ManagerInv, InstallsOK, ChannelsOK, CallerOK, MapsOK, Exists
  <2>3. (NoOrphanGoroutine /\ InstalledListens)'
    BY DEF ManagerInv, NoOrphanGoroutine, InstalledListens, Exists, Alive
  <2>4. (EntriesOK /\ QuietOK /\ PassedOK)'
    BY DEF ManagerInv, EntriesOK, QuietOK, PassedOK
  <2> QED
    BY <2>1, <2>2, <2>3, <2>4 DEF ManagerInv
<1> QED
  BY <1>1, <1>2, <1>3, <1>4, <1>5, <1>6, <1>7, GetCounterMeasureInv,
     CounterMeasureStartInv
  DEF GoStep

(* Every step preserves the inductive invariant.                            *)
LEMMA StepInv == ManagerInv /\ [Next]_vars => ManagerInv'
<1> SUFFICES ASSUME ManagerInv, [Next]_vars PROVE ManagerInv'
  OBVIOUS
<1>1. ASSUME Step PROVE ManagerInv'
  BY <1>1, AddSubscribeInv, AddInstallInv, RemoveInv, EnvironmentInv, GoStepInv
  DEF Step
<1>2. ASSUME UNCHANGED vars PROVE ManagerInv'
  <2> USE <1>2 DEF vars, callVars, chanVars, mapVars, entVars, goVars
  <2>1. TypeOK'
    BY DEF ManagerInv, TypeOK
  <2>2. (InstallsOK /\ ChannelsOK /\ CallerOK /\ MapsOK)'
    BY DEF ManagerInv, InstallsOK, ChannelsOK, CallerOK, MapsOK, Exists
  <2>3. (NoOrphanGoroutine /\ InstalledListens)'
    BY DEF ManagerInv, NoOrphanGoroutine, InstalledListens, Exists, Alive
  <2>4. (EntriesOK /\ QuietOK /\ PassedOK)'
    BY DEF ManagerInv, EntriesOK, QuietOK, PassedOK
  <2> QED
    BY <2>1, <2>2, <2>3, <2>4 DEF ManagerInv
<1> QED
  BY <1>1, <1>2 DEF Next

-------------------------------------------------------------------------------
(* Every reachable state of the manager satisfies the inductive invariant.  *)
THEOREM Invariance == Spec => []ManagerInv
  BY InitInv, StepInv, PTL DEF Spec

(* The manager's state is well typed, channels within their capacity.       *)
THEOREM TypeCorrect == Spec => []TypeOK
<1>1. ManagerInv => TypeOK
  BY DEF ManagerInv
<1> QED
  BY <1>1, Invariance, PTL

(* Remove can always stop the goroutines that Add started.                  *)
THEOREM GoroutinesOwned == Spec => []NoOrphanGoroutine
<1>1. ManagerInv => NoOrphanGoroutine
  BY DEF ManagerInv
<1> QED
  BY <1>1, Invariance, PTL

(* What Exists reports to the reconciler really receives events.            *)
THEOREM InstalledAreListening == Spec => []InstalledListens
<1>1. ManagerInv => InstalledListens
  BY DEF ManagerInv
<1> QED
  BY <1>1, Invariance, PTL

-------------------------------------------------------------------------------
(* Who made an entry's last start: a goroutine that exists, which cannot    *)
(* come back to an older entry.                                             *)
ByOK ==
    \A i \in Installs, e \in Installs, k \in EventKeys :
        last[e][k].by = i =>
            /\ e <= made /\ gpc[i] # "none"
            /\ entries[name[i]] = None \/ entries[name[i]] >= e
            /\ gpc[i] \in {"check", "start"} => entry[i] >= e

(* Goroutines whose own installation or place is unchanged, or that leave   *)
(* the section between lookup and start, keep ByOK.                         *)
LEMMA ByFrame ==
  ASSUME ManagerInv, ByOK, made' \in Nat, made <= made', last' = last,
         \A j \in Installs : gpc[j] # "none" =>
             /\ gpc'[j] # "none" /\ name'[j] = name[j]
             /\ entries'[name[j]] \in {None, entries[name[j]], made}
             /\ gpc'[j] \in {"check", "start"} =>
                   gpc[j] \in {"check", "start"} /\ entry'[j] = entry[j]
  PROVE  ByOK'
<1> SUFFICES ASSUME NEW i \in Installs, NEW e \in Installs, NEW k \in EventKeys,
                    last[e][k].by = i
             PROVE  /\ e <= made' /\ gpc'[i] # "none"
                    /\ entries'[name'[i]] = None \/ entries'[name'[i]] >= e
                    /\ gpc'[i] \in {"check", "start"} => entry'[i] >= e
  BY DEF ByOK
<1>1. /\ e <= made /\ gpc[i] # "none"
      /\ entries[name[i]] = None \/ entries[name[i]] >= e
      /\ gpc[i] \in {"check", "start"} => entry[i] >= e
  BY DEF ByOK
<1>2. e \in Nat /\ made \in Nat
  BY ManagerAssumption DEF ManagerInv, TypeOK, Installs
<1>3. /\ gpc'[i] # "none" /\ name'[i] = name[i]
      /\ entries'[name[i]] \in {None, entries[name[i]], made}
      /\ gpc'[i] \in {"check", "start"} =>
            gpc[i] \in {"check", "start"} /\ entry'[i] = entry[i]
  BY <1>1
<1>4. e <= made' /\ made >= e
  BY <1>1, <1>2
<1>5. entries'[name'[i]] = None \/ entries'[name'[i]] >= e
  BY <1>1, <1>3, <1>4
<1> QED
  BY <1>1, <1>3, <1>4, <1>5

(* Every step preserves ByOK.                                               *)
LEMMA ByStep == ASSUME ManagerInv, ByOK, [Next]_vars PROVE ByOK'
<1> USE DEF callVars, chanVars, mapVars, entVars, goVars
<1>0. /\ name \in [Installs -> Names] /\ made \in Nat /\ target \in Names
      /\ entries \in [Names -> {None} \union Installs]
      /\ entry \in [Installs -> {None} \union Installs]
      /\ gpc \in [Installs -> {"none", "recv", "lookup", "check", "start", "run",
                               "end", "exited"}]
      /\ evt \in [Installs -> EventKeys]
      /\ last \in [Installs -> [EventKeys -> Starts]]
  BY ManagerAssumption DEF ManagerInv, TypeOK
<1>1. ASSUME NEW n \in Names, NEW g \in Gens, AddSubscribe(n, g) PROVE ByOK'
  <2> USE <1>1 DEF AddSubscribe
  <2>1. \A j \in Installs : gpc[j] # "none" => j # made + 1
    BY <1>0, ManagerAssumption DEF ManagerInv, InstallsOK, Installs
  <2>2. \A j \in Installs : gpc[j] # "none" => name'[j] = name[j]
    BY <1>0, <2>1
  <2> QED
    BY <1>0, <2>2, ByFrame
<1>2. ASSUME AddInstall PROVE ByOK'
  <2> USE <1>2 DEF AddInstall, StateAdd
  <2>1. \A m \in Names : entries'[m] \in {entries[m], made}
    BY <1>0
  <2>2. \A j \in Installs : gpc'[j] \in {gpc[j], "recv"}
    BY <1>0
  <2> QED
    BY <1>0, <2>1, <2>2, ByFrame
<1>3. ASSUME RemoveState PROVE ByOK'
  <2> USE <1>3 DEF RemoveState, StateRemove
  <2>1. \A m \in Names : entries'[m] \in {entries[m], None}
    BY <1>0
  <2> QED
    BY <1>0, <2>1, ByFrame
<1>4. ASSUME UNCHANGED <<made, name, gen, mapVars, gpc, entry, last>> PROVE ByOK'
  BY <1>0, <1>4, ByFrame
<1>5. ASSUME NEW i \in Installs,
             \/ Receive(i) \/ Exit(i) \/ Skip(i) \/ Run(i) \/ CounterMeasureEnd(i)
      PROVE  ByOK'
  <2>1. /\ UNCHANGED <<callVars, mapVars, last>> /\ gpc[i] # "none"
        /\ entry' = entry \/ entry' = [entry EXCEPT ![i] = None]
        /\ \E v \in {"lookup", "exited", "recv", "end"} : gpc' = [gpc EXCEPT ![i] = v]
    BY <1>5 DEF Receive, Exit, Skip, Run, CounterMeasureEnd
  <2>2. \A j \in Installs : \/ gpc'[j] = gpc[j] /\ entry'[j] = entry[j]
                            \/ gpc'[j] \in {"lookup", "exited", "recv", "end"}
    BY <1>0, <2>1
  <2> QED
    BY <1>0, <2>1, <2>2, ByFrame
<1>6. ASSUME NEW i \in Installs, Proceed(i) PROVE ByOK'
  <2>1. \A j \in Installs : gpc'[j] = IF j = i THEN "start" ELSE gpc[j]
    BY <1>0, <1>6 DEF Proceed
  <2> QED
    BY <1>0, <1>6, <2>1, ByFrame DEF Proceed
<1>7. ASSUME NEW i \in Installs, GetCounterMeasure(i) PROVE ByOK'
  <2> USE <1>7 DEF GetCounterMeasure
  <2> SUFFICES ASSUME NEW j \in Installs, NEW e \in Installs, NEW k \in EventKeys,
                      last[e][k].by = j
               PROVE  /\ e <= made /\ gpc'[j] # "none"
                      /\ entries[name[j]] = None \/ entries[name[j]] >= e
                      /\ gpc'[j] \in {"check", "start"} => entry'[j] >= e
    BY DEF ByOK
  <2>1. /\ e <= made /\ gpc[j] # "none"
        /\ entries[name[j]] = None \/ entries[name[j]] >= e
        /\ gpc[j] \in {"check", "start"} => entry[j] >= e
    BY DEF ByOK
  <2>2. CASE j # i
    BY <1>0, <2>1, <2>2
  <2>3. CASE j = i
    <3>1. Lookup(i) # None => Lookup(i) = entries[name[i]]
      BY LookupFinds
    <3>2. /\ entry'[i] = Lookup(i) /\ gpc'[i] \in {"recv", "check"}
          /\ gpc'[i] = "check" => Lookup(i) # None
      BY <1>0
    <3> QED
      BY <2>1, <2>3, <3>1, <3>2
  <2> QED
    BY <2>2, <2>3
<1>8. ASSUME NEW i \in Installs, CounterMeasureStart(i) PROVE ByOK'
  <2>1. /\ UNCHANGED <<callVars, mapVars>>
        /\ \A j \in Installs : /\ gpc'[j] = IF j = i THEN "run" ELSE gpc[j]
                               /\ j # i => entry'[j] = entry[j]
    BY <1>0, <1>8 DEF CounterMeasureStart
  <2>2. /\ Lookup(i) \in Installs /\ Lookup(i) = entries[name[i]]
        /\ Lookup(i) <= made
    BY <1>8, LookupFinds DEF CounterMeasureStart
  <2>3. \A e \in Installs, k \in EventKeys :
          last'[e][k].by = last[e][k].by \/ (e = Lookup(i) /\ last'[e][k].by = i)
    <3>1. \/ last' = last
          \/ last' = [last EXCEPT ![Lookup(i)][evt[i]] =
                                  [by |-> i, until |-> now + Duration]]
      BY <1>8 DEF CounterMeasureStart
    <3> HIDE DEF Lookup
    <3> QED
      BY <1>0, <2>2, <3>1
  <2> SUFFICES ASSUME NEW j \in Installs, NEW e \in Installs, NEW k \in EventKeys,
                      last'[e][k].by = j
               PROVE  /\ e <= made /\ gpc'[j] # "none"
                      /\ entries[name[j]] = None \/ entries[name[j]] >= e
                      /\ gpc'[j] \in {"check", "start"} => entry'[j] >= e
    BY <2>1 DEF ByOK
  <2>4. CASE last[e][k].by = j
    BY <2>1, <2>4 DEF ByOK
  <2>5. CASE last[e][k].by # j
    <3>1. e = Lookup(i) /\ j = i
      BY <2>3, <2>5
    <3>2. e >= e
      BY ManagerAssumption DEF Installs
    <3> QED
      BY <2>1, <2>2, <3>1, <3>2
  <2> QED
    BY <2>4, <2>5
<1>9. CASE Step
  <2>1. ASSUME NEW i \in Installs, GoStep(i) PROVE ByOK'
    <3>1. CASE RunPanics(i) \/ NilEntry(i)
      BY <1>4, <3>1 DEF RunPanics, NilEntry
    <3> QED
      BY <1>5, <1>6, <1>7, <1>8, <2>1, <3>1 DEF GoStep
  <2>2. ASSUME \/ \E n \in Names : RemoveUnsubscribe(n)
               \/ \E i \in Installs, k \in EventKeys : BusSend(i, k)
               \/ BusShutdown
               \/ Tick
        PROVE  ByOK'
    BY <1>4, <2>2 DEF RemoveUnsubscribe, BusSend, BusShutdown, Tick
  <2> QED
    BY <1>1, <1>2, <1>3, <1>9, <2>1, <2>2, Zenon DEF Step
<1> QED
  BY <1>4, <1>9 DEF Next, vars

(* However Add, Remove and the goroutines interleave between IsSuppressed   *)
(* and CounterMeasureStart, a goroutine does not start an entry, its own or *)
(* a later one with its key, for an event key within the duration of the    *)
(* start it made itself.  What it starts is the entry it checked: it has    *)
(* started none that is newer.                                              *)
THEOREM SuppressionIsHonoured == Spec => []SuppressionHonoured
<1>1. Init => ByOK
  <2> SUFFICES ASSUME Init, NEW i \in Installs, NEW e \in Installs,
                      NEW k \in EventKeys
               PROVE  last[e][k].by # i
    BY DEF ByOK
  <2> QED
    BY ManagerAssumption DEF Init, Installs, None
<1>2. ManagerInv /\ ByOK => SuppressionHonoured
  <2> SUFFICES ASSUME ManagerInv, ByOK, NEW i \in Installs, gpc[i] = "start",
                      Lookup(i) # None, last[Lookup(i)][evt[i]].by = i
               PROVE  now >= last[Lookup(i)][evt[i]].until
    BY DEF SuppressionHonoured
  <2>1. Lookup(i) \in Installs /\ Lookup(i) = entries[name[i]]
    BY LookupFinds
  <2>2. entry[i] = Lookup(i)
    <3>1. entry[i] \in Installs /\ evt[i] \in EventKeys
      BY EntrySeen DEF ManagerInv, TypeOK
    <3>2. entry[i] >= Lookup(i)
      BY <2>1, <3>1 DEF ByOK
    <3>3. Lookup(i) >= entry[i]
      BY <2>1 DEF ManagerInv, EntriesOK
    <3> QED
      BY <2>1, <3>1, <3>2, <3>3, ManagerAssumption DEF Installs
  <2>3. evt[i] \in EventKeys /\ now \in Nat
    BY ManagerAssumption DEF ManagerInv, TypeOK
  <2>4. last[entry[i]][evt[i]].until \in Nat
    BY <2>1, <2>2, <2>3, HistoryTyped
  <2> QED
    BY <2>2, <2>3, <2>4 DEF ManagerInv, PassedOK
<1> QED
  BY <1>1, <1>2, ByStep, Invariance, PTL DEF Spec

-------------------------------------------------------------------------------
(* A running entry of the map is run by a goroutine with the entry's key;   *)
(* an installation that is not finished has not run.                        *)
RunningOK ==
    /\ \A n \in Names :
          entries[n] # None /\ running[entries[n]] =>
              \E j \in Installs : /\ gpc[j] \in {"run", "end"}
                                  /\ name[j] = n /\ gen[j] = gen[entries[n]]
    /\ \A i \in Installs : running[i] => gpc[i] # "none"

(* Steps that start and end no run keep RunningOK.                          *)
LEMMA RunningFrame ==
  ASSUME ManagerInv, RunningOK, running' = running,
         \A j \in Installs : gpc[j] # "none" =>
             /\ gpc'[j] # "none" /\ name'[j] = name[j] /\ gen'[j] = gen[j]
             /\ gpc[j] \in {"run", "end"} => gpc'[j] \in {"run", "end"},
         \A n \in Names : \/ entries'[n] \in {None, entries[n]}
                          \/ entries'[n] \in Installs /\ ~running[entries'[n]]
  PROVE  RunningOK'
<1>1. \A i \in Installs : running'[i] => gpc'[i] # "none"
  BY DEF RunningOK
<1>2. ASSUME NEW n \in Names, entries'[n] # None, running'[entries'[n]]
      PROVE  \E j \in Installs : /\ gpc'[j] \in {"run", "end"}
                                 /\ name'[j] = n /\ gen'[j] = gen'[entries'[n]]
  <2>1. entries'[n] = entries[n]
    BY <1>2
  <2>2. PICK j \in Installs : /\ gpc[j] \in {"run", "end"}
                              /\ name[j] = n /\ gen[j] = gen[entries[n]]
    BY <1>2, <2>1 DEF RunningOK
  <2>3. entries[n] \in Installs /\ gpc[entries[n]] # "none"
    BY <1>2, <2>1 DEF ManagerInv, TypeOK, MapsOK, Exists
  <2> QED
    BY <2>1, <2>2, <2>3
<1> QED
  BY <1>1, <1>2 DEF RunningOK

(* Every step preserves RunningOK.                                          *)
LEMMA RunningStep == ASSUME ManagerInv, RunningOK, [Next]_vars PROVE RunningOK'
<1> USE DEF callVars, chanVars, mapVars, entVars, goVars
<1>0. /\ name \in [Installs -> Names] /\ gen \in [Installs -> Gens]
      /\ made \in Nat /\ target \in Names
      /\ entries \in [Names -> {None} \union Installs]
      /\ running \in [Installs -> BOOLEAN]
      /\ gpc \in [Installs -> {"none", "recv", "lookup", "check", "start", "run",
                               "end", "exited"}]
  BY ManagerAssumption DEF ManagerInv, TypeOK
<1>1. ASSUME NEW n \in Names, NEW g \in Gens, AddSubscribe(n, g) PROVE RunningOK'
  <2> USE <1>1 DEF AddSubscribe
  <2>1. \A j \in Installs : gpc[j] # "none" => j # made + 1
    BY <1>0, ManagerAssumption DEF ManagerInv, InstallsOK, Installs
  <2>2. \A j \in Installs : gpc[j] # "none" => name'[j] = name[j] /\ gen'[j] = gen[j]
    BY <1>0, <2>1
  <2> QED
    BY <2>2, RunningFrame
<1>2. ASSUME AddInstall PROVE RunningOK'
  <2> USE <1>2 DEF AddInstall, StateAdd
  <2>1. made \in Installs /\ gpc[made] = "none"
    BY ManagerAssumption DEF ManagerInv, CallerOK, InstallsOK, Installs
  <2>2. ~running[made]
    BY <2>1 DEF RunningOK
  <2>3. \A m \in Names : entries'[m] \in {entries[m], made}
    BY <1>0
  <2>4. \A j \in Installs : gpc[j] # "none" => gpc'[j] = gpc[j]
    BY <1>0, <2>1
  <2> QED
    BY <2>1, <2>2, <2>3, <2>4, RunningFrame
<1>3. ASSUME RemoveState PROVE RunningOK'
  <2> USE <1>3 DEF RemoveState, StateRemove
  <2>1. \A m \in Names : entries'[m] \in {entries[m], None}
    BY <1>0
  <2> QED
    BY <2>1, RunningFrame
<1>4. ASSUME UNCHANGED <<made, name, gen, mapVars, gpc, running>> PROVE RunningOK'
  BY <1>4, RunningFrame
<1>5. ASSUME NEW i \in Installs,
             \/ Receive(i) \/ Exit(i) \/ Skip(i) \/ Run(i) \/ GetCounterMeasure(i)
             \/ Proceed(i)
      PROVE  RunningOK'
  <2>1. /\ UNCHANGED <<callVars, mapVars, running>> /\ gpc[i] # "none"
        /\ \E v \in {"lookup", "exited", "recv", "end", "check", "start"} :
              /\ gpc' = [gpc EXCEPT ![i] = v]
              /\ gpc[i] \in {"run", "end"} => v = "end"
    BY <1>5 DEF Receive, Exit, Skip, Run, GetCounterMeasure, Proceed
  <2>2. \A j \in Installs : gpc[j] # "none" =>
          gpc'[j] # "none" /\ (gpc[j] \in {"run", "end"} => gpc'[j] \in {"run", "end"})
    BY <1>0, <2>1
  <2> QED
    BY <2>1, <2>2, RunningFrame
<1>6. ASSUME NEW i \in Installs, CounterMeasureStart(i) PROVE RunningOK'
  <2> DEFINE e == Lookup(i)
  <2>1. /\ UNCHANGED <<callVars, mapVars>>
        /\ \A j \in Installs : /\ gpc'[j] = IF j = i THEN "run" ELSE gpc[j]
        /\ gpc[i] = "start" /\ running' = [running EXCEPT ![e] = TRUE]
    BY <1>0, <1>6 DEF CounterMeasureStart
  <2>2. e \in Installs /\ e = entries[name[i]]
    BY <1>6, LookupFinds DEF CounterMeasureStart
  <2>3. gen[e] = gen[i] /\ gpc[e] # "none"
    BY <1>0, <1>6, <2>2 DEF CounterMeasureStart, Lookup, ManagerInv, MapsOK, Exists
  <2> HIDE DEF e
  <2>4. \A j \in Installs : running'[j] = IF j = e THEN TRUE ELSE running[j]
    BY <1>0, <2>1, <2>2
  <2>5. \A j \in Installs : running'[j] => gpc'[j] # "none"
    BY <2>1, <2>3, <2>4 DEF RunningOK
  <2>6. ASSUME NEW n \in Names, entries[n] # None, running'[entries[n]]
        PROVE  \E j \in Installs : /\ gpc'[j] \in {"run", "end"}
                                   /\ name[j] = n /\ gen[j] = gen[entries[n]]
    <3>1. CASE entries[n] = e
      <4>1. name[i] = n
        BY <1>0, <2>2, <2>6, <3>1 DEF ManagerInv, MapsOK, Exists
      <4> QED
        BY <2>1, <2>3, <3>1, <4>1
    <3>2. CASE entries[n] # e
      BY <1>0, <2>1, <2>4, <2>6, <3>2 DEF RunningOK
    <3> QED
      BY <3>1, <3>2
  <2> QED
    BY <2>1, <2>5, <2>6 DEF RunningOK
<1>7. ASSUME NEW i \in Installs, CounterMeasureEnd(i) PROVE RunningOK'
  <2> DEFINE e == Lookup(i)
  <2>1. /\ UNCHANGED <<callVars, mapVars>>
        /\ \A j \in Installs : /\ gpc'[j] = IF j = i THEN "recv" ELSE gpc[j]
        /\ gpc[i] = "end" /\ running' = [running EXCEPT ![e] = FALSE]
    BY <1>0, <1>7 DEF CounterMeasureEnd
  <2>2. e \in Installs /\ e = entries[name[i]]
    BY <1>7, LookupFinds DEF CounterMeasureEnd
  <2>3. \A n \in Names :
          entries[n] # None /\ name[i] = n /\ gen[i] = gen[entries[n]] =>
              entries[n] = e
    BY DEF Lookup
  <2> HIDE DEF e
  <2>4. \A j \in Installs : running'[j] = IF j = e THEN FALSE ELSE running[j]
    BY <1>0, <2>1, <2>2
  <2>5. \A j \in Installs : running'[j] => gpc'[j] # "none"
    BY <2>1, <2>4 DEF RunningOK
  <2>6. ASSUME NEW n \in Names, entries[n] # None, running'[entries[n]]
        PROVE  \E j \in Installs : /\ gpc'[j] \in {"run", "end"}
                                   /\ name[j] = n /\ gen[j] = gen[entries[n]]
    <3>1. entries[n] \in Installs /\ entries[n] # e /\ running[entries[n]]
      BY <1>0, <2>4, <2>6
    <3>2. PICK j \in Installs : /\ gpc[j] \in {"run", "end"}
                                /\ name[j] = n /\ gen[j] = gen[entries[n]]
      BY <2>6, <3>1 DEF RunningOK
    <3>3. j # i
      BY <2>3, <2>6, <3>1, <3>2
    <3> QED
      BY <2>1, <3>2, <3>3
  <2> QED
    BY <2>1, <2>5, <2>6 DEF RunningOK
<1>8. CASE Step
  <2>1. ASSUME NEW i \in Installs, GoStep(i) PROVE RunningOK'
    <3>1. CASE RunPanics(i) \/ NilEntry(i)
      BY <1>4, <3>1 DEF RunPanics, NilEntry
    <3> QED
      BY <1>5, <1>6, <1>7, <2>1, <3>1 DEF GoStep
  <2>2. ASSUME \/ \E n \in Names : RemoveUnsubscribe(n)
               \/ \E i \in Installs, k \in EventKeys : BusSend(i, k)
               \/ BusShutdown
               \/ Tick
        PROVE  RunningOK'
    BY <1>4, <2>2 DEF RemoveUnsubscribe, BusSend, BusShutdown, Tick
  <2> QED
    BY <1>1, <1>2, <1>3, <1>8, <2>1, <2>2, Zenon DEF Step
<1> QED
  BY <1>4, <1>8 DEF Next, vars

(* IsSuppressed and CounterMeasureStart are two steps, and yet two runs of  *)
(* an entry meet only where a goroutine that Remove unsubscribed works on   *)
(* beside the goroutine of a later installation with the same key: alone,   *)
(* a goroutine is at one place of its loop.                                 *)
THEOREM OnlyLeftoversRunTwice == Spec => []TwiceOnlyByLeftover
<1>1. Init => RunningOK
  BY DEF Init, RunningOK
<1>2. ManagerInv /\ RunningOK => TwiceOnlyByLeftover
  <2> SUFFICES ASSUME ManagerInv, RunningOK, NEW i \in Installs, gpc[i] = "start",
                      Lookup(i) # None, running[Lookup(i)]
               PROVE  \E j \in closed \ {Lookup(i)} :
                         name[j] = name[i] /\ gen[j] = gen[Lookup(i)] /\ Alive(j)
    BY DEF TwiceOnlyByLeftover
  <2>1. Lookup(i) \in Installs /\ Lookup(i) = entries[name[i]]
    BY LookupFinds
  <2>2. gen[i] = gen[Lookup(i)] /\ name[i] \in Names
    BY <2>1 DEF Lookup, ManagerInv, TypeOK
  <2>3. consumers[name[i]] = Lookup(i)
    BY <2>1 DEF ManagerInv, MapsOK
  <2>4. PICK j \in Installs : /\ gpc[j] \in {"run", "end"}
                              /\ name[j] = name[i] /\ gen[j] = gen[Lookup(i)]
    BY <2>1, <2>2 DEF RunningOK
  <2>5. Alive(i) /\ Alive(j) /\ i # j
    BY <2>4 DEF Alive
  <2>6. \A x \in {i, j} : x # Lookup(i) => x \in closed
    BY <2>3, <2>4, <2>5 DEF ManagerInv, NoOrphanGoroutine
  <2> QED
    BY <2>2, <2>4, <2>5, <2>6
<1> QED
  BY <1>1, <1>2, RunningStep, Invariance, PTL DEF Spec

-------------------------------------------------------------------------------
(* Beside a malformed template, only a Remove can bring the process down:   *)
(* while a countermeasure is installed, and also when the bus alone has     *)
(* closed its channel, CounterMeasureStart and CounterMeasureEnd of its     *)
(* goroutine find its entry.                                                *)
THEOREM CrashesHaveCauses == Spec => []CrashCauses
<1>1. Init => CrashCauses
  BY DEF Init, CrashCauses
<1>2. ASSUME ManagerInv, CrashCauses, [Next]_vars
      PROVE  CrashCauses'
  <2>1. CASE UNCHANGED vars
    BY <1>2, <2>1 DEF vars, callVars, chanVars, mapVars, goVars, CrashCauses
  <2>2. ASSUME NEW i \in Installs, NilEntry(i)
        PROVE  CrashCauses'
    <3>1. /\ gpc[i] \in {"start", "end"} /\ Lookup(i) = None
          /\ UNCHANGED <<callVars, chanVars, mapVars, goVars>>
      BY <2>2 DEF NilEntry
    <3>2. consumers[name[i]] # i
      <4>1. entries = consumers /\ i # None
        BY <1>2, ManagerAssumption DEF ManagerInv, MapsOK, Installs, None
      <4> QED
        BY <3>1, <4>1 DEF Lookup
    <3>3. i \in closed
      BY <1>2, <3>1, <3>2 DEF ManagerInv, NoOrphanGoroutine, Alive
    <3> QED
      BY <3>1, <3>2, <3>3 DEF callVars, chanVars, mapVars, goVars, CrashCauses
  <2>3. ASSUME NEW i \in Installs, RunPanics(i) PROVE CrashCauses'
    BY <2>3 DEF RunPanics, callVars, goVars, CrashCauses
  <2>4. ASSUME ~crashed, crashed' = crashed PROVE CrashCauses'
    BY <2>4 DEF CrashCauses
  <2>5. CASE ~crashed /\ Step
    BY <2>2, <2>3, <2>4, <2>5 DEF Step, GoStep, AddSubscribe, AddInstall,
       RemoveUnsubscribe, RemoveState, BusSend, BusShutdown, Tick, Receive, Exit,
       GetCounterMeasure, Skip, Proceed, CounterMeasureStart, Run, CounterMeasureEnd
  <2> QED
    BY <1>2, <2>1, <2>5 DEF Next
<1> QED
  BY <1>1, <1>2, Invariance, PTL DEF Spec
===============================================================================
