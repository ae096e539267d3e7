------------------------------- MODULE RunnerProofs -------------------------------
(***************************************************************************)
(* Proofs about the action runner, for any number of concurrent runs, any   *)
(* actions and any number of attempts.                                      *)
(***************************************************************************)
EXTENDS ActionRunner, SequenceTheorems, TLAPS

Objs == [uid : 0 .. MaxLives, version : Nat, debuggers : Seq(STRING)]

(* The objects and the runs' places are well formed.                        *)
ObjectsOK ==
    /\ target \in Objs /\ cache \in Objs /\ seen \in [Runs -> Objs]
    /\ lives \in 0 .. MaxLives

PlacesOK ==
    /\ pc \in [Runs -> {"get", "write", "done", "failed"}]
    /\ idx \in [Runs -> Nat \ {0}]
    /\ tries \in [Runs -> 1 .. Steps]
    /\ succeeded \in [Runs -> SUBSET Nat]
    /\ effects = [r \in Runs |-> effects[r]]
    /\ \A r \in Runs : /\ idx[r] \in 1 .. Len(Actions[r])
                       /\ effects[r] \in [1 .. Len(Actions[r]) -> 0 .. Steps]

(* What has succeeded is what comes before the present action; later ones   *)
(* have had no effect, and the present one at most one per attempt made.    *)
ProgressOK ==
    \A r \in Runs :
        /\ succeeded[r] = IF pc[r] = "done" THEN 1 .. Len(Actions[r])
                          ELSE 1 .. idx[r] - 1
        /\ \A i \in 1 .. Len(Actions[r]) :
              /\ ~Actions[r][i].retry => effects[r][i] <= 1
              /\ i > idx[r] => effects[r][i] = 0
        /\ pc[r] \in {"get", "write"} =>
              /\ effects[r][idx[r]] < tries[r]
              /\ ~Actions[r][idx[r]].retry => tries[r] = 1

(* A copy of the object that has its uid and its resourceVersion has its    *)
(* containers, and none is ahead of the object.                             *)
CopyOK(o) ==
    /\ o.uid <= lives
    /\ o.uid = 0 => o = Gone
    /\ o.uid = target.uid =>
          /\ o.version <= target.version
          /\ o.version = target.version => o.debuggers = target.debuggers

CopiesOK ==
    /\ target.uid <= lives /\ (target.uid = 0 => target = Gone)
    /\ CopyOK(cache)
    /\ \A r \in Runs : CopyOK(seen[r])

(* Debug only goes on to write if what it read lacks the container.         *)
ReadOK ==
    \A r \in Runs :
        pc[r] = "write" /\ Action(r).kind = "debug" /\ Action(r).name # Unnamed =>
            \A i \in 1 .. Len(seen[r].debuggers) :
                seen[r].debuggers[i] # Action(r).name

RunnerInv ==
    /\ panicked \in BOOLEAN
    /\ ObjectsOK /\ PlacesOK /\ ProgressOK /\ CopiesOK /\ ReadOK /\ DebugOnce

-------------------------------------------------------------------------------
(* What the assumption says of the bounds, and of one run's actions.        *)
LEMMA BoundsType == Steps \in Nat \ {0} /\ MaxLives \in Nat \ {0}
  BY RunnerAssumption

(* Every action is of one of the kinds; its name is a string.               *)
LEMMA ActionsType ==
  ASSUME NEW r \in Runs
  PROVE  /\ Len(Actions[r]) \in Nat \ {0} /\ DOMAIN Actions[r] = 1 .. Len(Actions[r])
         /\ \A i \in 1 .. Len(Actions[r]) :
               /\ Actions[r][i].kind \in Kinds
               /\ Actions[r][i].retry \in BOOLEAN
               /\ Actions[r][i].name \in STRING
<1>1. /\ Actions[r] \in Seq([kind : Kinds, retry : BOOLEAN, name : STRING,
                             parses : BOOLEAN])
      /\ Actions[r] # <<>>
  BY RunnerAssumption
<1>2. Len(Actions[r]) \in Nat /\ DOMAIN Actions[r] = 1 .. Len(Actions[r])
  BY <1>1
<1>3. Len(Actions[r]) # 0
  BY <1>1
<1>4. \A i \in 1 .. Len(Actions[r]) :
         Actions[r][i] \in [kind : Kinds, retry : BOOLEAN, name : STRING,
                           parses : BOOLEAN]
  <2> DEFINE Entries == [kind : Kinds, retry : BOOLEAN, name : STRING,
                         parses : BOOLEAN]
             acts == Actions[r]
  <2>1. acts \in Seq(Entries)
    BY <1>1
  <2> HIDE DEF Entries, acts
  <2>2. \A i \in 1 .. Len(acts) : acts[i] \in Entries
    BY <2>1
  <2> QED
    BY <2>2 DEF Entries, acts
<1>5. \A i \in 1 .. Len(Actions[r]) : Actions[r][i].retry \in BOOLEAN
  BY <1>4, Zenon
<1>6. \A i \in 1 .. Len(Actions[r]) :
         Actions[r][i].kind \in Kinds /\ Actions[r][i].name \in STRING
  BY <1>4
<1>7. Len(Actions[r]) \in Nat \ {0}
  BY <1>2, <1>3
<1> QED
  BY <1>2, <1>5, <1>6, <1>7, Zenon

(* The effect a step of run r may have on the history.                      *)
Counts(r) ==
    \/ effects' = effects
    \/ effects' = [effects EXCEPT ![r][idx[r]] = @ + 1]

(* An attempt's effect, if it has one, is within its limits.                *)
LEMMA CountsOK ==
  ASSUME PlacesOK, ProgressOK, NEW r \in Runs, pc[r] \in {"get", "write"}, Counts(r)
  PROVE  /\ effects' = [s \in Runs |-> effects'[s]]
         /\ \A s \in Runs : effects'[s] \in [1 .. Len(Actions[s]) -> 0 .. Steps]
         /\ \A s \in Runs \ {r} : effects'[s] = effects[s]
         /\ \A i \in 1 .. Len(Actions[r]) :
               /\ ~Actions[r][i].retry => effects'[r][i] <= 1
               /\ i > idx[r] => effects'[r][i] = 0
         /\ effects'[r][idx[r]] <= tries[r]
<1> USE BoundsType
<1>1. /\ idx[r] \in 1 .. Len(Actions[r]) /\ Len(Actions[r]) \in Nat
      /\ tries[r] \in 1 .. Steps /\ Steps \in Nat
      /\ effects[r] \in [1 .. Len(Actions[r]) -> 0 .. Steps]
      /\ effects[r][idx[r]] \in 0 .. Steps
  BY ActionsType DEF PlacesOK
<1>2. /\ effects[r][idx[r]] < tries[r]
      /\ ~Actions[r][idx[r]].retry => tries[r] = 1
  BY DEF ProgressOK
<1>3. CASE effects' = effects
  BY <1>1, <1>2, <1>3 DEF PlacesOK, ProgressOK
<1>4. CASE effects' = [effects EXCEPT ![r][idx[r]] = @ + 1]
  <2>1. /\ effects' = [s \in Runs |-> effects'[s]]
        /\ \A s \in Runs \ {r} : effects'[s] = effects[s]
        /\ effects'[r] = [effects[r] EXCEPT ![idx[r]] = @ + 1]
    BY <1>4 DEF PlacesOK
  <2>2. /\ effects'[r][idx[r]] = effects[r][idx[r]] + 1
        /\ \A i \in 1 .. Len(Actions[r]) : i # idx[r] => effects'[r][i] = effects[r][i]
    BY <1>1, <2>1
  <2>3. effects[r][idx[r]] + 1 \in 0 .. Steps /\ effects[r][idx[r]] + 1 <= tries[r]
    BY <1>1, <1>2
  <2>4. effects'[r] \in [1 .. Len(Actions[r]) -> 0 .. Steps]
    BY <1>1, <2>1, <2>3
  <2>5. \A i \in 1 .. Len(Actions[r]) :
           /\ ~Actions[r][i].retry => effects'[r][i] <= 1
           /\ i > idx[r] => effects'[r][i] = 0
    <3> TAKE i \in 1 .. Len(Actions[r])
    <3>1. CASE i = idx[r]
      BY <1>1, <1>2, <2>2, <2>3, <3>1
    <3>2. CASE i # idx[r]
      BY <2>2, <3>2 DEF ProgressOK
    <3> QED
      BY <3>1, <3>2
  <2> QED
    BY <2>1, <2>2, <2>3, <2>4, <2>5 DEF PlacesOK
<1> QED
  BY <1>3, <1>4 DEF Counts

(* Moving on to the next action keeps the run's books.                      *)
LEMMA SucceedOK ==
  ASSUME PlacesOK, ProgressOK, NEW r \in Runs, pc[r] \in {"get", "write"},
         Counts(r), Succeed(r)
  PROVE  PlacesOK' /\ ProgressOK'
<1> USE BoundsType
<1>1. /\ idx[r] \in 1 .. Len(Actions[r]) /\ Len(Actions[r]) \in Nat \ {0}
      /\ 1 \in 1 .. Steps /\ succeeded[r] = 1 .. idx[r] - 1
  BY ActionsType DEF PlacesOK, ProgressOK
<1>2. /\ succeeded' = [succeeded EXCEPT ![r] = 1 .. idx[r]]
      /\ tries' = [tries EXCEPT ![r] = 1]
  <2>1. (1 .. idx[r] - 1) \union {idx[r]} = 1 .. idx[r]
    BY <1>1
  <2> QED
    BY <1>1, <2>1 DEF Succeed, PlacesOK
<1>3. /\ \A s \in Runs \ {r} : /\ succeeded'[s] = succeeded[s] /\ tries'[s] = tries[s]
                               /\ idx'[s] = idx[s] /\ pc'[s] = pc[s]
      /\ succeeded'[r] = 1 .. idx[r] /\ tries'[r] = 1
      /\ succeeded' \in [Runs -> SUBSET Nat] /\ tries' \in [Runs -> 1 .. Steps]
  BY <1>1, <1>2 DEF Succeed, PlacesOK
<1>4. CASE idx[r] < Len(Actions[r])
  <2>1. /\ pc' = [pc EXCEPT ![r] = "get"] /\ idx' = [idx EXCEPT ![r] = @ + 1]
    BY <1>4 DEF Succeed
  <2>2. /\ pc'[r] = "get" /\ idx'[r] = idx[r] + 1
        /\ idx[r] + 1 \in 1 .. Len(Actions[r]) /\ (idx[r] + 1) - 1 = idx[r]
    BY <1>1, <1>4, <2>1 DEF PlacesOK
  <2>3. /\ pc' \in [Runs -> {"get", "write", "done", "failed"}]
        /\ idx' \in [Runs -> Nat \ {0}]
    BY <1>1, <2>1 DEF PlacesOK
  <2>4. PlacesOK'
    BY <1>3, <2>2, <2>3, CountsOK DEF PlacesOK
  <2>5. ASSUME NEW s \in Runs PROVE ProgressOK!(s)'
    <3>1. CASE s = r
      <4>0. \A i \in 1 .. Len(Actions[r]) : i > idx[r] => effects'[r][i] = 0
        BY CountsOK
      <4>1. effects'[r][idx'[r]] = 0 /\ 0 < tries'[r]
        <5>1. idx[r] + 1 > idx[r]
          BY <1>1
        <5> QED
          BY <1>3, <2>2, <4>0, <5>1
      <4>2. \A i \in 1 .. Len(Actions[r]) : i > idx'[r] => i > idx[r]
        BY <1>1, <2>2
      <4> QED
        BY <3>1, <1>3, <2>2, <4>1, <4>2, CountsOK DEF ProgressOK
    <3>2. CASE s # r
      <4>1. /\ succeeded'[s] = succeeded[s] /\ tries'[s] = tries[s]
            /\ idx'[s] = idx[s] /\ pc'[s] = pc[s] /\ effects'[s] = effects[s]
        BY <3>2, <1>3, CountsOK
      <4> QED
        BY <4>1 DEF ProgressOK
    <3> QED
      BY <3>1, <3>2
  <2> QED
    BY <2>4, <2>5 DEF ProgressOK
<1>5. CASE ~(idx[r] < Len(Actions[r]))
  <2>1. pc' = [pc EXCEPT ![r] = "done"] /\ idx' = idx /\ idx[r] = Len(Actions[r])
    BY <1>1, <1>5 DEF Succeed
  <2>2. pc'[r] = "done" /\ pc' \in [Runs -> {"get", "write", "done", "failed"}]
    BY <2>1 DEF PlacesOK
  <2>3. PlacesOK'
    BY <1>3, <2>1, <2>2, CountsOK DEF PlacesOK
  <2>4. ASSUME NEW s \in Runs PROVE ProgressOK!(s)'
    <3>1. CASE s = r
      BY <3>1, <1>3, <2>1, <2>2, CountsOK DEF ProgressOK
    <3>2. CASE s # r
      <4>1. /\ succeeded'[s] = succeeded[s] /\ tries'[s] = tries[s]
            /\ idx'[s] = idx[s] /\ pc'[s] = pc[s] /\ effects'[s] = effects[s]
        BY <3>2, <1>3, CountsOK
      <4> QED
        BY <4>1 DEF ProgressOK
    <3> QED
      BY <3>1, <3>2
  <2> QED
    BY <2>3, <2>4 DEF ProgressOK
<1> QED
  BY <1>4, <1>5

(* So does another attempt, or giving up.                                   *)
LEMMA FailOK ==
  ASSUME PlacesOK, ProgressOK, NEW r \in Runs, pc[r] \in {"get", "write"},
         Counts(r), Fail(r)
  PROVE  PlacesOK' /\ ProgressOK'
<1> USE BoundsType
<1>1. /\ idx[r] \in 1 .. Len(Actions[r]) /\ Len(Actions[r]) \in Nat \ {0}
      /\ tries[r] \in 1 .. Steps /\ succeeded[r] = 1 .. idx[r] - 1
      /\ Action(r) = Actions[r][idx[r]]
  BY ActionsType DEF PlacesOK, ProgressOK, Action
<1>2. idx' = idx /\ succeeded' = succeeded
  BY DEF Fail
<1>3. CASE Action(r).retry /\ tries[r] < Steps
  <2>1. tries' = [tries EXCEPT ![r] = @ + 1] /\ pc' = [pc EXCEPT ![r] = "get"]
    BY <1>3 DEF Fail
  <2>2. /\ \A s \in Runs \ {r} : tries'[s] = tries[s] /\ pc'[s] = pc[s]
        /\ tries'[r] = tries[r] + 1 /\ pc'[r] = "get" /\ tries[r] + 1 \in 1 .. Steps
    BY <1>1, <1>3, <2>1 DEF PlacesOK
  <2>3. /\ pc' \in [Runs -> {"get", "write", "done", "failed"}]
        /\ tries' \in [Runs -> 1 .. Steps]
    BY <2>1, <2>2 DEF PlacesOK
  <2>4. PlacesOK'
    BY <1>2, <2>3, CountsOK DEF PlacesOK
  <2>5. effects'[r][idx'[r]] < tries'[r]
    BY <1>1, <1>2, <2>2, <2>4, CountsOK DEF PlacesOK
  <2>6. ASSUME NEW s \in Runs PROVE ProgressOK!(s)'
    <3>1. CASE s = r
      BY <3>1, <1>1, <1>2, <1>3, <2>2, <2>5, CountsOK DEF ProgressOK
    <3>2. CASE s # r
      BY <3>2, <1>2, <2>2, CountsOK DEF ProgressOK
    <3> QED
      BY <3>1, <3>2
  <2> QED
    BY <2>4, <2>6 DEF ProgressOK
<1>4. CASE ~(Action(r).retry /\ tries[r] < Steps)
  <2>1. tries' = tries /\ pc' = [pc EXCEPT ![r] = "failed"]
    BY <1>4 DEF Fail
  <2>2. /\ \A s \in Runs \ {r} : pc'[s] = pc[s]
        /\ pc'[r] = "failed" /\ pc' \in [Runs -> {"get", "write", "done", "failed"}]
    BY <2>1 DEF PlacesOK
  <2>3. PlacesOK'
    BY <1>2, <2>1, <2>2, CountsOK DEF PlacesOK
  <2>4. ASSUME NEW s \in Runs PROVE ProgressOK!(s)'
    <3>1. CASE s = r
      BY <3>1, <1>1, <1>2, <2>1, <2>2, CountsOK DEF ProgressOK
    <3>2. CASE s # r
      BY <3>2, <1>2, <2>1, <2>2, CountsOK DEF ProgressOK
    <3> QED
      BY <3>1, <3>2
  <2> QED
    BY <2>3, <2>4 DEF ProgressOK
<1> QED
  BY <1>3, <1>4

-------------------------------------------------------------------------------
(* A debug container may be added under a version that was read without it. *)
LEMMA AppendOnce ==
  ASSUME NEW Name, NEW ds \in Seq(Name), NEW n \in Name, NEW u,
         \A i, j \in 1 .. Len(ds) : ds[i] = ds[j] /\ ds[i] # u => i = j,
         n # u => \A i \in 1 .. Len(ds) : ds[i] # n
  PROVE  /\ Append(ds, n) \in Seq(Name)
         /\ \A i, j \in 1 .. Len(Append(ds, n)) :
               Append(ds, n)[i] = Append(ds, n)[j] /\ Append(ds, n)[i] # u => i = j
<1>1. /\ Len(ds) \in Nat /\ Append(ds, n) \in Seq(Name)
      /\ Len(Append(ds, n)) = Len(ds) + 1
      /\ \A i \in 1 .. Len(ds) : Append(ds, n)[i] = ds[i]
      /\ Append(ds, n)[Len(ds) + 1] = n
  BY AppendProperties, LenProperties
<1>2. \A i \in 1 .. Len(ds) + 1 : i \in 1 .. Len(ds) \/ i = Len(ds) + 1
  BY <1>1
<1> QED
  BY <1>1, <1>2

(* The object exists once, with nothing run and nobody ahead of it.         *)
LEMMA InitInv == Init => RunnerInv
<1> SUFFICES ASSUME Init PROVE RunnerInv
  OBVIOUS
<1> USE BoundsType
<1>0. /\ 0 \in 0 .. MaxLives /\ 1 \in 0 .. MaxLives /\ 1 \in 1 .. Steps
      /\ 0 \in 0 .. Steps /\ 1 .. 1 - 1 = {}
  OBVIOUS
<1>1. /\ Gone \in Objs /\ target \in Objs /\ target.uid = 1 /\ target.version = 0
      /\ target.debuggers = <<>> /\ cache = target /\ lives = 1
      /\ seen = [r \in Runs |-> Gone] /\ Gone.uid = 0
  <2>1. Gone \in Objs /\ Gone.uid = 0
    BY <1>0 DEF Gone, Objs
  <2>2. target = [uid |-> 1, version |-> 0, debuggers |-> <<>>]
    BY DEF Init, Gone
  <2>3. target \in Objs
    BY <1>0, <2>2 DEF Objs
  <2> QED
    BY <2>1, <2>2, <2>3 DEF Init
<1>2. ObjectsOK
  BY <1>0, <1>1 DEF ObjectsOK
<1>3. /\ \A r \in Runs : /\ pc[r] = "get" /\ idx[r] = 1 /\ tries[r] = 1
                          /\ succeeded[r] = {}
                          /\ effects[r] = [i \in 1 .. Len(Actions[r]) |-> 0]
      /\ effects = [r \in Runs |-> effects[r]]
  BY ActionsType DEF Init
<1>4. PlacesOK
  <2>1. /\ pc \in [Runs -> {"get", "write", "done", "failed"}]
        /\ idx \in [Runs -> Nat \ {0}] /\ tries \in [Runs -> 1 .. Steps]
        /\ succeeded \in [Runs -> SUBSET Nat]
    BY <1>0 DEF Init
  <2>2. \A r \in Runs : /\ idx[r] \in 1 .. Len(Actions[r])
                        /\ effects[r] \in [1 .. Len(Actions[r]) -> 0 .. Steps]
    <3> TAKE r \in Runs
    <3>1. Len(Actions[r]) \in Nat \ {0} /\ idx[r] = 1
          /\ effects[r] = [i \in 1 .. Len(Actions[r]) |-> 0]
      BY <1>3, ActionsType
    <3> QED
      BY <1>0, <3>1
  <2> QED
    BY <1>3, <2>1, <2>2 DEF PlacesOK
<1>5. ProgressOK
  <2> SUFFICES ASSUME NEW r \in Runs PROVE ProgressOK!(r)
    BY DEF ProgressOK
  <2>1. /\ Len(Actions[r]) \in Nat \ {0} /\ idx[r] = 1 /\ tries[r] = 1
        /\ pc[r] = "get" /\ succeeded[r] = {}
        /\ \A i \in 1 .. Len(Actions[r]) : effects[r][i] = 0
    BY <1>3, ActionsType
  <2> QED
    BY <1>0, <2>1
<1>6. CopiesOK
  BY <1>1 DEF CopiesOK, CopyOK
<1>7. ReadOK
  BY <1>3 DEF ReadOK
<1>8. DebugOnce
  BY <1>1 DEF DebugOnce
<1>9. panicked \in BOOLEAN
  BY DEF Init
<1> QED
  BY <1>2, <1>4, <1>5, <1>6, <1>7, <1>8, <1>9 DEF RunnerInv

(* Reading, failing and retrying leave the object as it is.                 *)
LEMMA StepReads ==
  ASSUME RunnerInv, NEW r \in Runs,
         Get(r) \/ GetNotFound(r) \/ RejectVersion(r) \/ Reject(r)
  PROVE  RunnerInv'
<1> USE BoundsType DEF RunnerInv
<1>1. /\ UNCHANGED <<target, cache, lives, panicked>> /\ Counts(r)
      /\ pc[r] \in {"get", "write"} /\ DebugOnce'
  BY DEF Get, GetNotFound, RejectVersion, Reject, Counts, DebugOnce
<1>2. Fetched(r) \in Objs /\ CopyOK(Fetched(r))
  <2>1. CopyOK(target)
    BY DEF CopiesOK, CopyOK, ObjectsOK, Objs
  <2> QED
    BY <2>1 DEF Fetched, ObjectsOK, CopiesOK
<1>3. ASSUME \/ Succeed(r) /\ seen' = seen
             \/ Fail(r) /\ seen' = seen
      PROVE  RunnerInv'
  <2>1. PlacesOK' /\ ProgressOK'
    BY <1>1, <1>3, SucceedOK, FailOK
  <2>2. ObjectsOK' /\ CopiesOK'
    BY <1>1, <1>3 DEF ObjectsOK, CopiesOK, CopyOK
  <2>3. /\ \A s \in Runs \ {r} : pc'[s] = pc[s] /\ idx'[s] = idx[s]
        /\ pc'[r] # "write"
    BY <1>3 DEF Succeed, Fail, PlacesOK
  <2>4. ReadOK'
    BY <1>3, <2>3 DEF ReadOK, Action
  <2> QED
    BY <1>1, <2>1, <2>2, <2>4
<1>4. ASSUME Get(r), ~HasDebugger(r)
      PROVE  RunnerInv'
  <2>1. /\ pc' = [pc EXCEPT ![r] = "write"]
        /\ seen' = [seen EXCEPT ![r] = Fetched(r)]
        /\ UNCHANGED <<idx, tries, succeeded, effects>>
    BY <1>4 DEF Get
  <2>2. /\ \A s \in Runs \ {r} : pc'[s] = pc[s] /\ seen'[s] = seen[s]
        /\ pc'[r] = "write" /\ pc[r] = "get" /\ seen'[r] = Fetched(r)
        /\ pc' \in [Runs -> {"get", "write", "done", "failed"}]
        /\ seen' \in [Runs -> Objs]
    BY <1>2, <1>4, <2>1 DEF Get, PlacesOK, ObjectsOK
  <2>3. PlacesOK'
    BY <2>1, <2>2 DEF PlacesOK
  <2>4. ProgressOK'
    BY <2>1, <2>2 DEF ProgressOK
  <2>5. ObjectsOK' /\ CopiesOK'
    BY <1>1, <1>2, <2>2 DEF ObjectsOK, CopiesOK, CopyOK
  <2>6. ReadOK'
    <3>1. Action(r).kind = "debug" /\ Action(r).name # Unnamed =>
              \A i \in 1 .. Len(Fetched(r).debuggers) :
                  Fetched(r).debuggers[i] # Action(r).name
      <4>1. DOMAIN Fetched(r).debuggers = 1 .. Len(Fetched(r).debuggers)
        BY <1>2 DEF Objs
      <4> QED
        BY <4>1, <1>4 DEF HasDebugger
    <3> QED
      BY <3>1, <2>1, <2>2 DEF ReadOK, Action
  <2> QED
    BY <1>1, <2>3, <2>4, <2>5, <2>6
<1> QED
  BY <1>3, <1>4 DEF Get, GetNotFound, RejectVersion, Reject

(* A write makes a version nobody has seen, or none.                        *)
LEMMA StepWrite ==
  ASSUME RunnerInv, NEW r \in Runs, Write(r)
  PROVE  RunnerInv'
<1> USE BoundsType DEF RunnerInv
<1>1. /\ UNCHANGED <<cache, lives, seen, panicked>> /\ Counts(r) /\ pc[r] = "write"
      /\ (Succeed(r) \/ Fail(r)) /\ target # Gone
  BY DEF Write, Counts
<1>2. PlacesOK' /\ ProgressOK'
  BY <1>1, SucceedOK, FailOK
<1>3. ReadOK'
  <2>1. /\ \A s \in Runs \ {r} : pc'[s] = pc[s] /\ idx'[s] = idx[s]
        /\ pc'[r] # "write"
    BY <1>1 DEF Succeed, Fail, PlacesOK
  <2> QED
    BY <1>1, <2>1 DEF ReadOK, Action
<1>4. CASE target' = target
  BY <1>1, <1>2, <1>3, <1>4 DEF ObjectsOK, CopiesOK, CopyOK, DebugOnce
<1>5. CASE target' # target
  <2>1. /\ Action(r).kind \in Kinds /\ Action(r).name \in STRING
        /\ target' = Written(r)
        /\ Action(r).kind = "debug" =>
              seen[r].uid = target.uid /\ seen[r].version = target.version
    BY <1>5, ActionsType DEF Write, Action, PlacesOK
  <2>2. /\ target \in Objs /\ target.uid \in 1 .. MaxLives /\ target.uid <= lives
        /\ lives \in Nat /\ target.version \in Nat
        /\ target.debuggers \in Seq(STRING)
    BY <1>1 DEF ObjectsOK, CopiesOK, Objs
  <2>3. CASE Action(r).kind = "delete"
    <3>1. target' = Gone
      BY <2>1, <2>3 DEF Written, Deleted
    <3>2. /\ Gone \in Objs /\ Gone.uid = 0 /\ Gone.version = 0
          /\ Gone.debuggers = <<>>
      BY DEF Gone, Objs
    <3>3. ObjectsOK' /\ DebugOnce'
      BY <1>1, <3>1, <3>2 DEF ObjectsOK, DebugOnce
    <3>4. ASSUME NEW o \in Objs, CopyOK(o) PROVE CopyOK(o)'
      BY <1>1, <2>2, <3>1, <3>2, <3>4 DEF CopyOK
    <3>5. CopiesOK'
      BY <1>1, <2>2, <3>1, <3>2, <3>4 DEF CopiesOK, ObjectsOK
    <3> QED
      BY <1>1, <1>2, <1>3, <3>3, <3>5
  <2>4. CASE Action(r).kind # "delete"
    <3> DEFINE ds == IF Action(r).kind = "debug"
                     THEN Append(target.debuggers, Action(r).name)
                     ELSE target.debuggers
    <3>1. /\ target'.uid = target.uid /\ target'.version = target.version + 1
          /\ target'.debuggers = ds
          /\ target' = [uid |-> target.uid, version |-> target.version + 1,
                        debuggers |-> ds]
      BY <2>1, <2>2, <2>4 DEF Written, Debugged, Patched, Restarted, Objs, Kinds
    <3>2. /\ ds \in Seq(STRING)
          /\ \A i, j \in 1 .. Len(ds) : ds[i] = ds[j] /\ ds[i] # Unnamed => i = j
      <4>1. \A i, j \in 1 .. Len(target.debuggers) :
               /\ target.debuggers[i] = target.debuggers[j]
               /\ target.debuggers[i] # Unnamed
               => i = j
        <5>1. DOMAIN target.debuggers = 1 .. Len(target.debuggers)
          BY <2>2
        <5> QED
          BY <5>1 DEF DebugOnce
      <4>2. CASE Action(r).kind = "debug"
        <5>1. seen[r].debuggers = target.debuggers
          BY <2>1, <4>2 DEF CopiesOK, CopyOK
        <5>2. Action(r).name # Unnamed =>
                 \A i \in 1 .. Len(target.debuggers) :
                     target.debuggers[i] # Action(r).name
          BY <1>1, <4>2, <5>1 DEF ReadOK
        <5> DEFINE more == Append(target.debuggers, Action(r).name)
        <5>3. /\ more \in Seq(STRING)
              /\ \A i, j \in 1 .. Len(more) :
                    more[i] = more[j] /\ more[i] # Unnamed => i = j
          <6> DEFINE Name == STRING
                     dbs == target.debuggers
                     n == Action(r).name
                     u == Unnamed
          <6>1. /\ dbs \in Seq(Name) /\ n \in Name
                /\ \A i, j \in 1 .. Len(dbs) : dbs[i] = dbs[j] /\ dbs[i] # u => i = j
                /\ n # u => \A i \in 1 .. Len(dbs) : dbs[i] # n
            BY <2>1, <2>2, <4>1, <5>2, Zenon
          <6> HIDE DEF Name, dbs, n, u
          <6>2. /\ Append(dbs, n) \in Seq(Name)
                /\ \A i, j \in 1 .. Len(Append(dbs, n)) :
                      Append(dbs, n)[i] = Append(dbs, n)[j] /\ Append(dbs, n)[i] # u
                      => i = j
            BY <6>1, AppendOnce
          <6> QED
            BY <6>2, Zenon DEF Name, dbs, n, u
        <5> QED
          BY <4>2, <5>3
      <4>3. CASE Action(r).kind # "debug"
        BY <2>2, <4>1, <4>3
      <4> QED
        BY <4>2, <4>3
    <3> HIDE DEF ds
    <3>3. target' \in Objs
      BY <2>2, <3>1, <3>2 DEF Objs
    <3>4. DebugOnce'
      <4>1. DOMAIN target'.debuggers = 1 .. Len(ds)
        BY <3>1, <3>2
      <4> QED
        BY <3>1, <3>2, <4>1 DEF DebugOnce
    <3>5. ASSUME NEW o \in Objs, CopyOK(o) PROVE CopyOK(o)'
      <4>1. o.version \in Nat
        BY DEF Objs
      <4> QED
        BY <4>1, <1>1, <2>2, <3>1, <3>5 DEF CopyOK
    <3>6. CopiesOK' /\ ObjectsOK'
      BY <1>1, <2>2, <3>1, <3>3, <3>5 DEF CopiesOK, ObjectsOK
    <3> QED
      BY <1>1, <1>2, <1>3, <3>4, <3>6
  <2> QED
    BY <2>3, <2>4
<1> QED
  BY <1>4, <1>5

(* The object comes back with a uid of its own, and the cache follows; a    *)
(* panic ends the process as it is.                                         *)
LEMMA StepCluster ==
  ASSUME RunnerInv, Recreate \/ Watch \/ (\E r \in Runs : Panic(r)) \/ UNCHANGED vars
  PROVE  RunnerInv'
<1> USE BoundsType DEF RunnerInv
<1>1. /\ UNCHANGED <<pc, idx, tries, seen, succeeded, effects>>
      /\ panicked' \in BOOLEAN
  BY DEF Recreate, Watch, Panic, vars
<1>2. PlacesOK' /\ ProgressOK' /\ ReadOK'
  BY <1>1 DEF PlacesOK, ProgressOK, ReadOK, Action
<1>3. CASE Recreate
  <2>1. /\ target' = [uid |-> lives + 1, version |-> 0, debuggers |-> <<>>]
        /\ lives' = lives + 1 /\ cache' = cache /\ lives + 1 \in 1 .. MaxLives
    BY <1>3 DEF Recreate, Gone, ObjectsOK
  <2>2. target' \in Objs /\ target'.uid = lives + 1 /\ target'.debuggers = <<>>
    BY <2>1 DEF Objs
  <2>3. ObjectsOK' /\ DebugOnce'
    BY <1>1, <2>1, <2>2 DEF ObjectsOK, DebugOnce
  <2>4. ASSUME NEW o \in Objs, CopyOK(o) PROVE CopyOK(o)'
    <3>1. o.uid \in Nat /\ lives \in Nat
      BY DEF Objs, ObjectsOK
    <3> QED
      BY <3>1, <2>1, <2>2, <2>4 DEF CopyOK
  <2>5. CopiesOK'
    BY <1>1, <2>1, <2>2, <2>4 DEF CopiesOK, ObjectsOK
  <2> QED
    BY <1>1, <1>2, <2>3, <2>5
<1>4. CASE Watch
  <2>1. cache' = target /\ UNCHANGED <<target, lives>>
    BY <1>4 DEF Watch
  <2>2. CopyOK(target)
    BY DEF CopiesOK, CopyOK, ObjectsOK, Objs
  <2> QED
    BY <1>1, <1>2, <2>1, <2>2 DEF ObjectsOK, CopiesOK, CopyOK, DebugOnce
<1>5. CASE UNCHANGED vars
  BY <1>1, <1>2, <1>5 DEF vars, ObjectsOK, CopiesOK, CopyOK, DebugOnce
<1>6. CASE \E r \in Runs : Panic(r)
  BY <1>1, <1>2, <1>6 DEF Panic, ObjectsOK, CopiesOK, CopyOK, DebugOnce
<1> QED
  BY <1>3, <1>4, <1>5, <1>6

(* Every step keeps the invariant.                                          *)
LEMMA InductiveStep == RunnerInv /\ [Next]_vars => RunnerInv'
  BY StepReads, StepWrite, StepCluster DEF Next, RunStep

(* The inductive invariant holds throughout.                                *)
LEMMA Invariance == Spec => []RunnerInv
  BY InductiveStep, InitInv, PTL DEF Spec

-------------------------------------------------------------------------------
(* The runs' places and counts have their types: retry.OnError makes no     *)
(* more than Steps attempts, nor has an action more effects.                *)
THEOREM TypeCorrect == Spec => []TypeOK
<1>1. RunnerInv => TypeOK
  <2> SUFFICES ASSUME RunnerInv PROVE TypeOK
    OBVIOUS
  <2>1. target.uid \in 0 .. MaxLives /\ cache.uid \in 0 .. MaxLives
        /\ lives \in 0 .. MaxLives
    BY DEF RunnerInv, ObjectsOK, Objs
  <2>2. ASSUME NEW r \in Runs
        PROVE  /\ idx[r] \in DOMAIN Actions[r] /\ tries[r] \in 1 .. Steps
               /\ succeeded[r] \subseteq DOMAIN Actions[r]
               /\ effects[r] \in [DOMAIN Actions[r] -> 0 .. Steps]
    <3>1. /\ DOMAIN Actions[r] = 1 .. Len(Actions[r]) /\ Len(Actions[r]) \in Nat
      BY ActionsType
    <3>2. /\ idx[r] \in 1 .. Len(Actions[r]) /\ tries[r] \in 1 .. Steps
          /\ effects[r] \in [1 .. Len(Actions[r]) -> 0 .. Steps]
      BY DEF RunnerInv, PlacesOK
    <3>3. succeeded[r] \subseteq 1 .. Len(Actions[r])
      <4>1. \/ succeeded[r] = 1 .. Len(Actions[r])
            \/ succeeded[r] = 1 .. idx[r] - 1
        BY DEF RunnerInv, ProgressOK
      <4> QED
        BY <3>1, <3>2, <4>1
    <3> QED
      BY <3>1, <3>2, <3>3
  <2> QED
    BY <2>1, <2>2 DEF TypeOK, RunnerInv, PlacesOK
<1> QED
  BY <1>1, Invariance, PTL

(* Debug's check of the containers it read, and the resourceVersion its     *)
(* update carries, keep a named container from being installed twice.       *)
THEOREM DebuggedOnce == Spec => []DebugOnce
  BY Invariance, PTL DEF RunnerInv

(* Run's loop stops at the first error: an effect means that all earlier    *)
(* actions succeeded, and a run that is done performed them all.            *)
THEOREM FailureStops == Spec => []StopsAtFailure
<1>1. RunnerInv => StopsAtFailure
  <2> SUFFICES ASSUME RunnerInv, NEW r \in Runs PROVE StopsAtFailure!(r)
    BY DEF StopsAtFailure
  <2>1. /\ DOMAIN Actions[r] = 1 .. Len(Actions[r]) /\ Len(Actions[r]) \in Nat
        /\ idx[r] \in 1 .. Len(Actions[r])
        /\ effects[r] \in [1 .. Len(Actions[r]) -> 0 .. Steps]
    BY ActionsType DEF RunnerInv, PlacesOK
  <2>2. ASSUME NEW i \in 1 .. Len(Actions[r]), effects[r][i] > 0
        PROVE  1 .. i - 1 \subseteq succeeded[r]
    <3>1. ~(i > idx[r])
      BY <2>2 DEF RunnerInv, ProgressOK
    <3>2. \/ succeeded[r] = 1 .. Len(Actions[r])
          \/ succeeded[r] = 1 .. idx[r] - 1
      BY DEF RunnerInv, ProgressOK
    <3> QED
      BY <2>1, <3>1, <3>2
  <2>3. pc[r] = "done" => succeeded[r] = DOMAIN Actions[r]
    BY <2>1 DEF RunnerInv, ProgressOK
  <2> QED
    BY <2>1, <2>2, <2>3
<1> QED
  BY <1>1, Invariance, PTL

(* An action that SupportsRetry denies a retry has one effect at most, also *)
(* when the reply to its request is lost.                                   *)
THEOREM NotRetriedNotRepeated == Spec => []NoRetryNoRepeat
<1>1. RunnerInv => NoRetryNoRepeat
  BY ActionsType DEF RunnerInv, ProgressOK, NoRetryNoRepeat
<1> QED
  BY <1>1, Invariance, PTL


-------------------------------------------------------------------------------
(* The attempts that the actions after the i-th have.                       *)
AttemptsAfter(r, i) == Steps * (Len(Actions[r]) - i)

(* The calls that Run may still make: two per attempt at most, a Get and a  *)
(* write, for the attempts left to this action and to the ones after it.    *)
CallsLeft(r) ==
    IF pc[r] \in {"done", "failed"} THEN 0
    ELSE 2 * AttemptsAfter(r, idx[r]) + 2 * (Steps - tries[r])
            + (IF pc[r] = "get" THEN 2 ELSE 1)

(* Each call a run makes brings it closer to its end, and neither another   *)
(* run nor a change of the object takes it back.                            *)
CallsRunOut ==
    \A r \in Runs : /\ CallsLeft(r) \in 0 .. 2 * AttemptsAfter(r, 0)
                    /\ CallsLeft(r)' <= CallsLeft(r)
                    /\ RunStep(r) => CallsLeft(r)' < CallsLeft(r)

(* The product in AttemptsAfter, as linear facts.                           *)
LEMMA AttemptsLeft ==
  ASSUME NEW r \in Runs, NEW i \in 1 .. Len(Actions[r])
  PROVE  /\ AttemptsAfter(r, i) \in Nat /\ AttemptsAfter(r, 0) \in Nat
         /\ AttemptsAfter(r, i) + Steps <= AttemptsAfter(r, 0)
         /\ i < Len(Actions[r]) =>
               /\ AttemptsAfter(r, i + 1) \in Nat
               /\ AttemptsAfter(r, i + 1) + Steps = AttemptsAfter(r, i)
<1>1. ASSUME NEW s \in Nat, NEW n \in Nat, NEW j \in 1 .. n
      PROVE  /\ s * (n - j) \in Nat /\ s * (n - 0) \in Nat
             /\ s * (n - j) + s <= s * (n - 0)
             /\ j < n => /\ s * (n - (j + 1)) \in Nat
                         /\ s * (n - (j + 1)) + s = s * (n - j)
  BY Z3
<1>2. Steps \in Nat /\ Len(Actions[r]) \in Nat
  BY ActionsType, RunnerAssumption
<1> QED
  BY <1>1, <1>2 DEF AttemptsAfter

(* Where a run is, as the proofs below need it.                             *)
LEMMA PlaceType ==
  ASSUME RunnerInv, NEW r \in Runs
  PROVE  /\ Len(Actions[r]) \in Nat /\ idx[r] \in 1 .. Len(Actions[r])
         /\ tries[r] \in 1 .. Steps /\ Steps \in Nat
         /\ pc[r] \in {"get", "write", "done", "failed"}
  BY ActionsType, RunnerAssumption DEF RunnerInv, PlacesOK

(* The calls left are within the bound.                                     *)
LEMMA CallsType ==
  ASSUME RunnerInv, NEW r \in Runs
  PROVE  CallsLeft(r) \in 0 .. 2 * AttemptsAfter(r, 0)
<1>1. /\ tries[r] \in 1 .. Steps /\ Steps \in Nat
      /\ pc[r] \in {"get", "write", "done", "failed"}
  BY PlaceType
<1>2. /\ AttemptsAfter(r, idx[r]) \in Nat /\ AttemptsAfter(r, 0) \in Nat
      /\ AttemptsAfter(r, idx[r]) + Steps <= AttemptsAfter(r, 0)
  BY PlaceType, AttemptsLeft
<1> QED
  BY <1>1, <1>2 DEF CallsLeft

(* An attempt that ends lowers the calls left.                              *)
LEMMA AttemptEnds ==
  ASSUME RunnerInv, NEW r \in Runs, pc[r] \in {"get", "write"}, Succeed(r) \/ Fail(r)
  PROVE  CallsLeft(r)' < CallsLeft(r)
<1>1. /\ Len(Actions[r]) \in Nat /\ idx[r] \in 1 .. Len(Actions[r])
      /\ tries[r] \in 1 .. Steps /\ Steps \in Nat
  BY PlaceType
<1>2. /\ AttemptsAfter(r, idx[r]) \in Nat
      /\ idx[r] < Len(Actions[r]) =>
            /\ AttemptsAfter(r, idx[r] + 1) \in Nat
            /\ AttemptsAfter(r, idx[r] + 1) + Steps = AttemptsAfter(r, idx[r])
  BY <1>1, AttemptsLeft
<1>3. /\ CallsLeft(r) \in Nat
      /\ CallsLeft(r) >= 2 * AttemptsAfter(r, idx[r]) + 2 * (Steps - tries[r]) + 1
  BY <1>1, <1>2 DEF CallsLeft
<1>4. /\ pc \in [Runs -> {"get", "write", "done", "failed"}]
      /\ idx \in [Runs -> Nat \ {0}] /\ tries \in [Runs -> 1 .. Steps]
  BY DEF RunnerInv, PlacesOK
<1>5. CASE pc'[r] \in {"done", "failed"}
  <2>1. CallsLeft(r)' = 0
    BY <1>5 DEF CallsLeft
  <2> QED
    BY <1>1, <1>2, <1>3, <2>1
<1>6. CASE pc'[r] \notin {"done", "failed"}
  <2>1. \/ /\ idx[r] < Len(Actions[r])
           /\ idx'[r] = idx[r] + 1 /\ tries'[r] = 1
        \/ idx'[r] = idx[r] /\ tries'[r] = tries[r] + 1
    BY <1>1, <1>4, <1>6 DEF Succeed, Fail
  <2>2. pc'[r] = "get"
    BY <1>4, <1>6 DEF Succeed, Fail
  <2>3. CallsLeft(r)' = 2 * AttemptsAfter(r, idx'[r]) + 2 * (Steps - tries'[r]) + 2
    BY <2>2 DEF CallsLeft, AttemptsAfter
  <2>4. CASE /\ idx[r] < Len(Actions[r])
             /\ idx'[r] = idx[r] + 1 /\ tries'[r] = 1
    <3>1. CallsLeft(r)' = 2 * AttemptsAfter(r, idx[r] + 1) + 2 * (Steps - 1) + 2
      BY <2>3, <2>4
    <3>2. /\ AttemptsAfter(r, idx[r] + 1) \in Nat
          /\ AttemptsAfter(r, idx[r] + 1) + Steps = AttemptsAfter(r, idx[r])
      BY <1>2, <2>4
    <3>3. ASSUME NEW a \in Nat, NEW k \in Nat, NEW t \in 1 .. k, NEW x \in Nat,
                 x >= 2 * (a + k) + 2 * (k - t) + 1
          PROVE  2 * a + 2 * (k - 1) + 2 < x
      BY <3>3
    <3> QED
      BY <1>1, <1>3, <3>1, <3>2, <3>3
  <2>5. CASE idx'[r] = idx[r] /\ tries'[r] = tries[r] + 1
    <3>1. CallsLeft(r)' = 2 * AttemptsAfter(r, idx[r]) + 2 * (Steps - (tries[r] + 1)) + 2
      BY <2>3, <2>5
    <3>2. ASSUME NEW a \in Nat, NEW k \in Nat, NEW t \in 1 .. k, NEW x \in Nat,
                 x >= 2 * a + 2 * (k - t) + 1
          PROVE  2 * a + 2 * (k - (t + 1)) + 2 < x
      BY <3>2
    <3> QED
      BY <1>1, <1>2, <1>3, <3>1, <3>2
  <2> QED
    BY <2>1, <2>4, <2>5
<1> QED
  BY <1>5, <1>6

(* A run stays where it is while another one, or the cluster, moves.        *)
LEMMA OthersWait ==
  ASSUME RunnerInv, [Next]_vars, NEW r \in Runs, ~RunStep(r)
  PROVE  CallsLeft(r)' = CallsLeft(r)
<1>1. pc'[r] = pc[r] /\ idx'[r] = idx[r] /\ tries'[r] = tries[r]
  <2>1. CASE UNCHANGED vars
    BY <2>1 DEF vars
  <2>2. CASE Recreate \/ Watch \/ \E s \in Runs : Panic(s)
    BY <2>2 DEF Recreate, Watch, Panic
  <2>3. ASSUME NEW s \in Runs, RunStep(s)
        PROVE  pc'[r] = pc[r] /\ idx'[r] = idx[r] /\ tries'[r] = tries[r]
    <3>1. s # r
      BY <2>3
    <3>2. \/ Succeed(s) \/ Fail(s)
          \/ /\ pc' = [pc EXCEPT ![s] = "write"]
             /\ idx' = idx /\ tries' = tries
      BY <2>3 DEF RunStep, Get, GetNotFound, RejectVersion, Reject, Write
    <3> QED
      BY <3>1, <3>2 DEF Succeed, Fail, RunnerInv, PlacesOK
  <2> QED
    BY <2>1, <2>2, <2>3 DEF Next
<1> QED
  BY <1>1 DEF CallsLeft, AttemptsAfter

(* retry.OnError's limit and Run's loop bound the requests of a run: it has *)
(* made at most 2 * Steps of them per action when it ends, whatever fails   *)
(* and whatever the other runs do.  With the fairness of its calls, RunEnds *)
(* follows: a run that cannot call any more has ended or panicked.          *)
THEOREM CallsAreBounded == Spec => [][CallsRunOut]_vars
<1>1. ASSUME RunnerInv, [Next]_vars PROVE CallsRunOut
  <2> SUFFICES ASSUME NEW r \in Runs PROVE CallsRunOut!(r)
    BY DEF CallsRunOut
  <2>1. /\ CallsLeft(r) \in 0 .. 2 * AttemptsAfter(r, 0)
        /\ AttemptsAfter(r, 0) \in Nat
    BY <1>1, CallsType, PlaceType, AttemptsLeft
  <2>2. CallsLeft(r)' \in Int
    <3>1. RunnerInv'
      BY <1>1, InductiveStep
    <3>2. /\ idx'[r] \in 1 .. Len(Actions[r]) /\ tries'[r] \in 1 .. Steps /\ Steps \in Nat
      BY <3>1, RunnerAssumption DEF RunnerInv, PlacesOK
    <3>3. AttemptsAfter(r, idx'[r]) \in Nat
      BY <3>2, AttemptsLeft
    <3>4. CallsLeft(r)' = IF pc'[r] \in {"done", "failed"} THEN 0
                          ELSE 2 * AttemptsAfter(r, idx'[r]) + 2 * (Steps - tries'[r])
                                  + (IF pc'[r] = "get" THEN 2 ELSE 1)
      BY DEF CallsLeft, AttemptsAfter
    <3> QED
      BY <3>2, <3>3, <3>4
  <2>3. ASSUME RunStep(r) PROVE CallsLeft(r)' < CallsLeft(r)
    <3>1. pc[r] \in {"get", "write"}
      BY <2>3 DEF RunStep, Get, GetNotFound, RejectVersion, Reject, Write
    <3>2. \/ Succeed(r) \/ Fail(r)
          \/ /\ pc[r] = "get" /\ pc' = [pc EXCEPT ![r] = "write"]
             /\ idx' = idx /\ tries' = tries
      BY <2>3 DEF RunStep, Get, GetNotFound, RejectVersion, Reject, Write
    <3>3. CASE /\ pc[r] = "get" /\ pc' = [pc EXCEPT ![r] = "write"]
               /\ idx' = idx /\ tries' = tries
      <4>1. pc'[r] = "write"
        BY <1>1, <3>3 DEF RunnerInv, PlacesOK
      <4>2. CallsLeft(r)' = 2 * AttemptsAfter(r, idx[r]) + 2 * (Steps - tries[r]) + 1
        BY <3>3, <4>1 DEF CallsLeft, AttemptsAfter
      <4>3. CallsLeft(r) = 2 * AttemptsAfter(r, idx[r]) + 2 * (Steps - tries[r]) + 2
        BY <3>3 DEF CallsLeft
      <4> QED
        BY <1>1, <4>2, <4>3, PlaceType, AttemptsLeft
    <3> QED
      BY <1>1, <3>1, <3>2, <3>3, AttemptEnds
  <2>4. ASSUME ~RunStep(r) PROVE CallsLeft(r)' = CallsLeft(r)
    BY <1>1, <2>4, OthersWait
  <2> QED
    BY <2>1, <2>2, <2>3, <2>4
<1> QED
  BY <1>1, Invariance, PTL DEF Spec
===============================================================================
