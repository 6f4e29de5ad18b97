------------------------- MODULE ParamsCacheProofs -------------------------
(***************************************************************************)
(* Proofs about ParamsCache for any set of threads, any set of counts and  *)
(* any bound.                                                              *)
(***************************************************************************)
EXTENDS ParamsCache, TLAPS

-----------------------------------------------------------------------------
(* A thread inside params_for has an argument, on the side of the bound    *)
(* its path was chosen for.                                                *)
CallInv ==
    \A t \in Threads :
        /\ pc[t] # "idle" => count[t] \in Counts
        /\ pc[t] \notin {"idle", "uncached"} => count[t] <= MAX_BBS_MESSAGES
        /\ pc[t] = "uncached" => ~(count[t] <= MAX_BBS_MESSAGES)

(* What a lookup still to come, or a lookup just missed, knows of the map. *)
WarmInv ==
    \A t \in Threads :
        /\ warm[t] => pc[t] # "uncached"
        /\ warm[t] /\ pc[t] # "idle" => cache[count[t]] # NoParams

(* A derivation that is running has been counted.                          *)
CountedInv ==
    \A t \in Threads :
        pc[t] \in {"derive", "uncached"} => charged[t][count[t]] \in 1..2

(* A thread charged with a count has inserted it, or is on its way to.     *)
DerivationInv ==
    ~poisoned =>
        \A t \in Threads, c \in Counts :
            c <= MAX_BBS_MESSAGES =>
                /\ charged[t][c] <= 1
                /\ charged[t][c] = 1 =>
                       \/ cache[c] # NoParams
                       \/ pc[t] \in {"derive", "insert", "writing"} /\ count[t] = c

(* The inductive invariant.                                                *)
IInv ==
    /\ TypeOK
    /\ CallInv
    /\ LockDiscipline
    /\ CacheSound
    /\ WarmInv
    /\ WarmCallsNeverDerive
    /\ CountedInv
    /\ DerivationInv

(* Counting a derivation keeps the counters within their range.            *)
LEMMA CountDerivationTypes ==
    ASSUME TypeOK, NEW t \in Threads, NEW c \in Counts, CountDerivation(t, c)
    PROVE  charged' \in [Threads -> [Counts -> 0..2]]
<1>1. charged[t][c] \in 0..2
  BY DEF TypeOK
<1>2. (IF charged[t][c] = 2 THEN 2 ELSE charged[t][c] + 1) \in 0..2
  BY <1>1
<1> QED
  BY <1>2 DEF TypeOK, CountDerivation

(* Enter preserves the inductive invariant. *)
LEMMA EnterPreserves ==
    ASSUME IInv, NEW t \in Threads, NEW c \in Counts, Enter(t, c)
    PROVE  IInv'
<1>1. TypeOK'
  <2>1. charged' \in [Threads -> [Counts -> 0..2]]
    BY CountDerivationTypes DEF IInv, TypeOK, Enter
  <2> QED
    BY <2>1 DEF IInv, TypeOK, Labels, Enter, lockVars
<1>2. CallInv'
  BY CountsAssumption, MaxAssumption
  DEF IInv, TypeOK, CallInv, Enter, CountDerivation, lockVars
<1>3. LockDiscipline'
  BY NoThreadAssumption
  DEF IInv, TypeOK, LockDiscipline, InLock, Enter, CountDerivation, lockVars
<1>4. CacheSound'
  BY DEF IInv, TypeOK, CallInv, CacheSound, Enter, CountDerivation, lockVars
<1>5. WarmInv'
  <2> SUFFICES ASSUME NEW u \in Threads, warm'[u]
               PROVE  /\ pc'[u] # "uncached"
                      /\ pc'[u] # "idle" => cache'[count'[u]] # NoParams
    BY DEF WarmInv
  <2>1. CASE u = t
    <3>1. cache[c] # NoParams
      BY <2>1 DEF IInv, TypeOK, Enter
    <3>2. c <= MAX_BBS_MESSAGES
      BY <3>1 DEF IInv, CacheSound
    <3>3. ~(c > MAX_BBS_MESSAGES)
      BY <3>2, CountsAssumption, MaxAssumption
    <3> QED
      BY <2>1, <3>1, <3>3 DEF IInv, TypeOK, Enter
  <2>2. CASE u # t
    BY <2>2 DEF IInv, TypeOK, WarmInv, Enter
  <2> QED
    BY <2>1, <2>2
<1>6. WarmCallsNeverDerive'
  BY DEF IInv, TypeOK, WarmInv, WarmCallsNeverDerive, Enter, CountDerivation, lockVars
<1>7. DerivationInv'
  <2> SUFFICES ASSUME ~poisoned, NEW u \in Threads, NEW d \in Counts, d <= MAX_BBS_MESSAGES
               PROVE  /\ charged'[u][d] <= 1
                      /\ charged'[u][d] = 1 =>
                             \/ cache'[d] # NoParams
                             \/ pc'[u] \in {"derive", "insert", "writing"} /\ count'[u] = d
    BY DEF DerivationInv, Enter, lockVars
  <2>1. d # c \/ ~(c > MAX_BBS_MESSAGES)
    BY CountsAssumption, MaxAssumption
  <2>2. charged'[u][d] = charged[u][d]
    BY <2>1 DEF IInv, TypeOK, Enter, CountDerivation
  <2> QED
    BY <2>2 DEF IInv, TypeOK, DerivationInv, Enter
<1>8. CountedInv'
  BY DEF IInv, TypeOK, CallInv, CountedInv, Enter, CountDerivation, lockVars
<1> QED
  BY <1>1, <1>2, <1>3, <1>4, <1>5, <1>6, <1>7, <1>8 DEF IInv

(* Lock preserves the inductive invariant. *)
LEMMA LockPreserves ==
    ASSUME IInv, NEW t \in Threads, Lock(t)
    PROVE  IInv'
<1>1. TypeOK'
  BY DEF IInv, TypeOK, Labels, Lock, historyVars
<1>2. CallInv'
  BY DEF IInv, TypeOK, CallInv, Lock, historyVars
<1>3. LockDiscipline'
  BY NoThreadAssumption
  DEF IInv, TypeOK, LockDiscipline, InLock, Lock, historyVars
<1>4. CacheSound'
  BY DEF IInv, TypeOK, CallInv, CacheSound, Lock, historyVars
<1>5. WarmInv'
  BY DEF IInv, TypeOK, CallInv, WarmInv, Lock, historyVars
<1>6. WarmCallsNeverDerive'
  BY DEF IInv, TypeOK, WarmInv, WarmCallsNeverDerive, Lock, historyVars
<1>7. DerivationInv'
  BY DEF IInv, TypeOK, CallInv, DerivationInv, Lock, historyVars
<1>8. CountedInv'
  BY DEF IInv, TypeOK, CallInv, CountedInv, Lock, historyVars
<1> QED
  BY <1>1, <1>2, <1>3, <1>4, <1>5, <1>6, <1>7, <1>8 DEF IInv

(* Hit preserves the inductive invariant. *)
LEMMA HitPreserves ==
    ASSUME IInv, NEW t \in Threads, Hit(t)
    PROVE  IInv'
<1>1. TypeOK'
  BY DEF IInv, TypeOK, Labels, CallInv, Hit, Return
<1>2. CallInv'
  BY DEF IInv, TypeOK, CallInv, Hit, Return
<1>3. LockDiscipline'
  BY NoThreadAssumption
  DEF IInv, TypeOK, LockDiscipline, InLock, Hit, Return
<1>4. CacheSound'
  BY DEF IInv, TypeOK, CallInv, CacheSound, Hit, Return
<1>5. WarmInv'
  BY DEF IInv, TypeOK, CallInv, WarmInv, Hit, Return
<1>6. WarmCallsNeverDerive'
  BY DEF IInv, TypeOK, WarmInv, WarmCallsNeverDerive, Hit, Return
<1>7. DerivationInv'
  BY DEF IInv, TypeOK, CallInv, DerivationInv, Hit, Return
<1>8. CountedInv'
  BY DEF IInv, TypeOK, CallInv, CountedInv, Hit, Return
<1> QED
  BY <1>1, <1>2, <1>3, <1>4, <1>5, <1>6, <1>7, <1>8 DEF IInv

(* Miss preserves the inductive invariant. *)
LEMMA MissPreserves ==
    ASSUME IInv, NEW t \in Threads, Miss(t)
    PROVE  IInv'
<1>1. TypeOK'
  <2>1. charged' \in [Threads -> [Counts -> 0..2]]
    BY CountDerivationTypes DEF IInv, CallInv, Miss
  <2> QED
    BY <2>1 DEF IInv, TypeOK, Labels, Miss
<1>2. CallInv'
  BY DEF IInv, TypeOK, CallInv, Miss, CountDerivation
<1>3. LockDiscipline'
  BY NoThreadAssumption
  DEF IInv, TypeOK, LockDiscipline, InLock, Miss, CountDerivation
<1>4. CacheSound'
  BY DEF IInv, TypeOK, CallInv, CacheSound, Miss, CountDerivation
<1>5. WarmInv'
  BY DEF IInv, TypeOK, CallInv, WarmInv, Miss, CountDerivation
<1>6. WarmCallsNeverDerive'
  BY DEF IInv, TypeOK, WarmInv, WarmCallsNeverDerive, Miss, CountDerivation
<1>7. DerivationInv'
  BY DEF IInv, TypeOK, CallInv, DerivationInv, Miss, CountDerivation
<1>8. CountedInv'
  BY DEF IInv, TypeOK, CallInv, CountedInv, Miss, CountDerivation
<1> QED
  BY <1>1, <1>2, <1>3, <1>4, <1>5, <1>6, <1>7, <1>8 DEF IInv

(* Derive preserves the inductive invariant. *)
LEMMA DerivePreserves ==
    ASSUME IInv, NEW t \in Threads, Derive(t)
    PROVE  IInv'
<1>1. TypeOK'
  BY DEF IInv, TypeOK, Labels, CallInv, Params, Derive,
         lockVars, historyVars
<1>2. CallInv'
  BY DEF IInv, TypeOK, CallInv, Derive, lockVars, historyVars
<1>3. LockDiscipline'
  BY NoThreadAssumption
  DEF IInv, TypeOK, LockDiscipline, InLock, Derive,
      lockVars, historyVars
<1>4. CacheSound'
  BY DEF IInv, TypeOK, CallInv, CacheSound, Derive,
         lockVars, historyVars
<1>5. WarmInv'
  BY DEF IInv, TypeOK, CallInv, WarmInv, Derive, lockVars, historyVars
<1>6. WarmCallsNeverDerive'
  BY DEF IInv, TypeOK, WarmInv, WarmCallsNeverDerive, Derive, lockVars, historyVars
<1>7. DerivationInv'
  BY CountsAssumption
  DEF IInv, TypeOK, CallInv, DerivationInv, Derive,
      lockVars, historyVars
<1>8. CountedInv'
  BY DEF IInv, TypeOK, CallInv, CountedInv, Derive, lockVars, historyVars
<1> QED
  BY <1>1, <1>2, <1>3, <1>4, <1>5, <1>6, <1>7, <1>8 DEF IInv

(* DeriveUncached preserves the inductive invariant. *)
LEMMA DeriveUncachedPreserves ==
    ASSUME IInv, NEW t \in Threads, DeriveUncached(t)
    PROVE  IInv'
<1>1. TypeOK'
  BY DEF IInv, TypeOK, Labels, CallInv, Params, DeriveUncached, Return, lockVars
<1>2. CallInv'
  BY DEF IInv, TypeOK, CallInv, DeriveUncached, Return,
         lockVars
<1>3. LockDiscipline'
  BY NoThreadAssumption
  DEF IInv, TypeOK, LockDiscipline, InLock, DeriveUncached, Return, lockVars
<1>4. CacheSound'
  BY DEF IInv, TypeOK, CallInv, CacheSound, DeriveUncached, Return, lockVars
<1>5. WarmInv'
  BY DEF IInv, TypeOK, CallInv, WarmInv, DeriveUncached, Return, lockVars
<1>6. WarmCallsNeverDerive'
  BY DEF IInv, TypeOK, WarmInv, WarmCallsNeverDerive, DeriveUncached,
         Return, lockVars
<1>7. DerivationInv'
  BY CountsAssumption, MaxAssumption
  DEF IInv, TypeOK, CallInv, DerivationInv, DeriveUncached, Return, lockVars
<1>8. CountedInv'
  BY DEF IInv, TypeOK, CallInv, CountedInv, DeriveUncached, Return, lockVars
<1> QED
  BY <1>1, <1>2, <1>3, <1>4, <1>5, <1>6, <1>7, <1>8 DEF IInv

(* Insert preserves the inductive invariant. *)
LEMMA InsertPreserves ==
    ASSUME IInv, NEW t \in Threads, Insert(t)
    PROVE  IInv'
<1>0. params[t] \in Params /\ params[t] # NoParams /\ count[t] \in Counts
  BY NoParamsAssumption DEF IInv, CallInv, CacheSound, Params, Insert
<1>1. TypeOK'
  BY <1>0 DEF IInv, TypeOK, CallInv, Labels, Insert, Return
<1>2. CallInv'
  BY DEF IInv, TypeOK, CallInv, Insert, Return
<1>3. LockDiscipline'
  BY NoThreadAssumption
  DEF IInv, TypeOK, LockDiscipline, InLock, Insert, Return
<1>4. CacheSound'
  BY DEF IInv, TypeOK, CallInv, CacheSound, Insert, Return
<1>5. WarmInv'
  BY <1>0 DEF IInv, TypeOK, CallInv, WarmInv, Insert, Return
<1>6. WarmCallsNeverDerive'
  BY DEF IInv, TypeOK, WarmInv, WarmCallsNeverDerive, Insert, Return
<1>7. DerivationInv'
  BY <1>0 DEF IInv, TypeOK, CallInv, DerivationInv, Insert, Return
<1>8. CountedInv'
  BY DEF IInv, TypeOK, CallInv, CountedInv, Insert, Return
<1> QED
  BY <1>1, <1>2, <1>3, <1>4, <1>5, <1>6, <1>7, <1>8 DEF IInv

(* Panic preserves the inductive invariant. *)
LEMMA PanicPreserves ==
    ASSUME IInv, NEW t \in Threads, Panic(t)
    PROVE  IInv'
<1>0. count[t] \in Counts
  BY DEF IInv, CallInv, Panic
<1>1. TypeOK'
  <2>1. charged' \in [Threads -> [Counts -> 0..2]]
    <3>1. CASE InLock(t)
      BY <3>1 DEF IInv, TypeOK, Panic
    <3>2. CASE ~InLock(t)
      <4>1. charged[t][count[t]] \in 1..2
        BY <3>2 DEF IInv, CountedInv, InLock, Panic
      <4>2. (IF charged[t][count[t]] = 2 THEN 2 ELSE charged[t][count[t]] - 1) \in 0..2
        BY <4>1
      <4> QED
        BY <1>0, <3>2, <4>2 DEF IInv, TypeOK, Panic
    <3> QED
      BY <3>1, <3>2
  <2> QED
    BY <2>1 DEF IInv, TypeOK, Labels, InLock, Panic, Return
<1>2. CallInv'
  BY DEF IInv, TypeOK, CallInv, Panic, Return
<1>3. LockDiscipline'
  BY NoThreadAssumption
  DEF IInv, TypeOK, LockDiscipline, InLock, Panic, Return
<1>4. CacheSound'
  BY DEF IInv, TypeOK, CallInv, CacheSound, Panic, Return
<1>5. WarmInv'
  BY DEF IInv, TypeOK, CallInv, WarmInv, Panic, Return
<1>6. WarmCallsNeverDerive'
  BY DEF IInv, TypeOK, WarmInv, WarmCallsNeverDerive, InLock, Panic, Return
<1>7. DerivationInv'
  <2> SUFFICES ASSUME ~poisoned', NEW u \in Threads, NEW c \in Counts, c <= MAX_BBS_MESSAGES
               PROVE  /\ charged'[u][c] <= 1
                      /\ charged'[u][c] = 1 =>
                             \/ cache'[c] # NoParams
                             \/ pc'[u] \in {"derive", "insert", "writing"} /\ count'[u] = c
    BY DEF DerivationInv
  <2>1. ~poisoned /\ ~InLock(t) /\ pc[t] \in {"uncached", "derive"}
    BY DEF IInv, TypeOK, InLock, Panic
  <2>2. /\ charged[u][c] <= 1
        /\ charged[u][c] = 1 =>
               \/ cache[c] # NoParams
               \/ pc[u] \in {"derive", "insert", "writing"} /\ count[u] = c
    BY <2>1 DEF IInv, DerivationInv
  <2>3. charged[u][c] \in 0..2 /\ charged[t][count[t]] \in 1..2
    BY <2>1 DEF IInv, TypeOK, CountedInv
  <2>4. CASE u = t /\ c = count[t]
    <3>1. charged[u][c] = 1
      BY <2>2, <2>3, <2>4
    <3>2. charged'[u][c] = 0
      BY <1>0, <2>1, <2>4, <3>1 DEF IInv, TypeOK, Panic
    <3> QED
      BY <3>2
  <2>5. CASE ~(u = t /\ c = count[t])
    <3>1. charged'[u][c] = charged[u][c]
      BY <1>0, <2>1, <2>5 DEF IInv, TypeOK, Panic
    <3> QED
      BY <2>2, <2>5, <3>1 DEF IInv, TypeOK, Panic, Return
  <2> QED
    BY <2>4, <2>5
<1>8. CountedInv'
  BY DEF IInv, TypeOK, CallInv, CountedInv, Panic, Return, InLock
<1> QED
  BY <1>1, <1>2, <1>3, <1>4, <1>5, <1>6, <1>7, <1>8 DEF IInv

(* The initial state: an empty cache, a free mutex, no call in progress.   *)
LEMMA InitIInv ==
    ASSUME Init
    PROVE  IInv
<1>1. TypeOK
  <2>1. warm \in [Threads -> BOOLEAN]
    BY Zenon DEF Init
  <2>2. charged \in [Threads -> [Counts -> 0..2]]
    BY DEF Init
  <2> QED
    BY <2>1, <2>2 DEF Init, TypeOK, Labels
<1>2. CallInv /\ CacheSound
  BY DEF Init, CallInv, CacheSound
<1>3. LockDiscipline
  BY NoThreadAssumption DEF Init, LockDiscipline, InLock
<1>4. WarmInv /\ WarmCallsNeverDerive
  BY DEF Init, WarmInv, WarmCallsNeverDerive
<1>5. CountedInv /\ DerivationInv
  BY DEF Init, CountedInv, DerivationInv
<1> QED
  BY <1>1, <1>2, <1>3, <1>4, <1>5 DEF IInv

(* No step of any thread leaves the inductive invariant. *)
LEMMA NextIInv ==
    ASSUME IInv, [Next]_vars
    PROVE  IInv'
<1>1. CASE Next
  <2>1. PICK t \in Threads : (\E c \in Counts : Enter(t, c)) \/ Step(t) \/ Panic(t)
    BY <1>1 DEF Next
  <2> QED
    BY <2>1, EnterPreserves, LockPreserves, HitPreserves, MissPreserves,
       DerivePreserves, DeriveUncachedPreserves, InsertPreserves, PanicPreserves
    DEF Step
<1>2. CASE UNCHANGED vars
  BY <1>2 DEF vars, IInv, TypeOK, CallInv, LockDiscipline, InLock, CacheSound,
     WarmInv, WarmCallsNeverDerive, CountedInv, DerivationInv, lockVars, historyVars
<1> QED
  BY <1>1, <1>2

(* The inductive invariant holds in every reachable state of params_for,   *)
(* whatever the number of threads.                                         *)
THEOREM Invariance == Spec => []IInv
<1>1. Init => IInv
  BY InitIInv
<1>2. IInv /\ [Next]_vars => IInv'
  BY NextIInv
<1> QED
  BY <1>1, <1>2, PTL DEF Spec

(* The cache and every thread's locals keep their types.                   *)
THEOREM TypeCorrect == Spec => []TypeOK
<1>1. IInv => TypeOK
  BY DEF IInv
<1> QED
  BY <1>1, Invariance, PTL

(* The cache holds only fresh derivations, of counts within the bound      *)
(* (bbs.rs params_for, lines 214 and 224).                                 *)
THEOREM CacheIsSound == Spec => []CacheSound
<1>1. IInv => CacheSound
  BY DEF IInv
<1> QED
  BY <1>1, Invariance, PTL

(* A mutex guard of params_for is held by the thread in that critical      *)
(* section and by no other; deriving is done unlocked.                     *)
THEOREM LockIsDisciplined == Spec => []LockDiscipline
<1>1. IInv => LockDiscipline
  BY DEF IInv
<1> QED
  BY <1>1, Invariance, PTL

(* A call that began with its count cached derives only if the mutex was   *)
(* poisoned.                                                               *)
THEOREM WarmCallsHit == Spec => []WarmCallsNeverDerive
<1>1. IInv => WarmCallsNeverDerive
  BY DEF IInv
<1> QED
  BY <1>1, Invariance, PTL

(* While the mutex is healthy the race in params_for costs each thread at  *)
(* most one derivation per cacheable count, besides those that panicked.   *)
THEOREM StampedeIsBounded == Spec => []RederivesOnlyAfterPanic
<1>1. IInv => RederivesOnlyAfterPanic
  BY DEF IInv, DerivationInv, RederivesOnlyAfterPanic
<1> QED
  BY <1>1, Invariance, PTL

(* No step changes or drops a cached entry, or touches a poisoned cache.   *)
THEOREM CacheIsMonotonic == Spec => CacheOnlyGrows
<1>1. IInv /\ [Next]_vars =>
          [ /\ \A c \in Counts : cache[c] # NoParams => cache'[c] = cache[c]
            /\ poisoned => poisoned' /\ cache' = cache ]_vars
  <2> SUFFICES ASSUME IInv, Next
               PROVE  /\ \A c \in Counts : cache[c] # NoParams => cache'[c] = cache[c]
                      /\ poisoned => poisoned' /\ cache' = cache
    OBVIOUS
  <2>1. PICK t \in Threads : (\E c \in Counts : Enter(t, c)) \/ Step(t) \/ Panic(t)
    BY DEF Next
  <2>2. CASE \E c \in Counts : Enter(t, c)
    BY <2>2 DEF Enter, lockVars
  <2>3. CASE Step(t) /\ ~Insert(t)
    BY <2>3 DEF Step, Lock, Hit, Miss, Derive, DeriveUncached, lockVars
  <2>4. CASE Insert(t)
    <3>1. params[t] = DeriveParams(count[t])
      BY <2>4 DEF IInv, CacheSound, Insert
    <3>2. cache[count[t]] # NoParams => cache[count[t]] = params[t]
      BY <2>4, <3>1 DEF IInv, CallInv, CacheSound, Insert
    <3> QED
      BY <2>4, <3>2 DEF IInv, TypeOK, Insert
  <2>5. CASE Panic(t)
    BY <2>5 DEF Panic
  <2> QED
    BY <2>1, <2>2, <2>3, <2>4, <2>5
<1> QED
  BY <1>1, Invariance, PTL DEF Spec, CacheOnlyGrows
-----------------------------------------------------------------------------
(* A thread that is answered maps to a step of the service.                *)
LEMMA ReturnAnswers ==
    ASSUME IInv, NEW t \in Threads, pc[t] # "idle",
           NEW p, Return(t, p), p = DeriveParams(count[t])
    PROVE  Service!Answer(t)
<1> DEFINE call == [u \in Threads |-> IF pc[u] = "idle" THEN NoCall ELSE count[u]]
<1>1. call[t] = count[t] /\ count[t] # NoCall
  BY NoCallAssumption DEF IInv, CallInv
<1>2. call' = [call EXCEPT ![t] = NoCall]
  BY DEF IInv, TypeOK, Return
<1>3. result' = [result EXCEPT ![t] = DeriveParams(count[t])]
  BY DEF Return
<1> QED
  BY <1>1, <1>2, <1>3 DEF Service!Answer, Service!DeriveParams, DeriveParams

(* A step that leaves every call open and every result alone is a stutter. *)
LEMMA OpenCallsStutter ==
    ASSUME IInv, NEW t \in Threads, pc[t] # "idle", NEW l, l # "idle",
           pc' = [pc EXCEPT ![t] = l], count' = count, result' = result
    PROVE  UNCHANGED Service!vars
  BY DEF IInv, TypeOK, Service!vars

(* params_for implements the stateless service: the cache, the race and    *)
(* the poisoned path never show in what a caller receives.                 *)
THEOREM CacheIsTransparent == Spec => ImplementsService
<1>1. Init => Service!Init
  BY DEF Init, Service!Init
<1>2. IInv /\ [Next]_vars => [Service!Next]_(Service!vars)
  <2> SUFFICES ASSUME IInv, [Next]_vars
               PROVE  [Service!Next]_(Service!vars)
    OBVIOUS
  <2>1. CASE UNCHANGED vars
    BY <2>1 DEF vars, Service!vars
  <2>2. CASE Next
    <3>1. PICK t \in Threads : (\E c \in Counts : Enter(t, c)) \/ Step(t) \/ Panic(t)
      BY <2>2 DEF Next
    <3>2. ASSUME NEW c \in Counts, Enter(t, c)
          PROVE  Service!Request(t, c)
      BY <3>2 DEF IInv, TypeOK, Enter, Service!Request
    <3>3. CASE Lock(t)
      BY <3>3, OpenCallsStutter DEF Lock
    <3>4. CASE Hit(t)
      <4>1. pc[t] # "idle" /\ cache[count[t]] = DeriveParams(count[t])
        BY <3>4 DEF IInv, CallInv, CacheSound, Hit
      <4>2. Service!Answer(t)
        BY <3>4, <4>1, ReturnAnswers DEF Hit
      <4> QED
        BY <4>2 DEF Service!Next
    <3>5. CASE Miss(t)
      BY <3>5, OpenCallsStutter DEF Miss
    <3>6. CASE Derive(t)
      BY <3>6, OpenCallsStutter DEF Derive
    <3>7. CASE DeriveUncached(t)
      <4>1. Service!Answer(t)
        BY <3>7, ReturnAnswers DEF DeriveUncached
      <4> QED
        BY <4>1 DEF Service!Next
    <3>8. CASE Insert(t)
      <4>1. pc[t] # "idle" /\ params[t] = DeriveParams(count[t])
        BY <3>8 DEF IInv, CacheSound, Insert
      <4>2. Service!Answer(t)
        BY <3>8, <4>1, ReturnAnswers DEF Insert
      <4> QED
        BY <4>2 DEF Service!Next
    <3>9. CASE Panic(t)
      <4>1. pc[t] # "idle" /\ count[t] # NoCall
        BY <3>9, NoCallAssumption DEF IInv, CallInv, Panic
      <4>2. Service!Abandon(t)
        BY <3>9, <4>1 DEF IInv, TypeOK, Panic, Return, Service!Abandon
      <4> QED
        BY <4>2 DEF Service!Next
    <3> QED
      BY <3>1, <3>2, <3>3, <3>4, <3>5, <3>6, <3>7, <3>8, <3>9
      DEF Step, Service!Next
  <2> QED
    BY <2>1, <2>2
<1> QED
  BY <1>1, <1>2, Invariance, PTL DEF Spec, ImplementsService, Service!Spec
=============================================================================
