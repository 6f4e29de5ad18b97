---------------------------- MODULE ParamsCache ----------------------------
(***************************************************************************)
(* The process-wide cache of BBS+ signature parameters, src/src/bbs.rs:    *)
(* params_cache and params_for.  Any number of threads call params_for     *)
(* (through sign, derive and verify); the cache is one Mutex<BTreeMap>.    *)
(* params_for locks twice: once to look the count up, once to insert what  *)
(* it derived, and it derives between the two WITHOUT the lock, so several *)
(* threads may derive the same count.  Both locks are taken with           *)
(* `if let Ok(..)`: a mutex poisoned by a panic of its holder is skipped.  *)
(***************************************************************************)
EXTENDS Naturals

CONSTANTS
    Threads,            \* the threads that may be inside the library
    Counts,             \* claim counts the callers ask for
    MAX_BBS_MESSAGES,   \* bbs.rs:42, counts above it are never cached
    NoCall, Pending, Panicked,      \* as in ParamsService
    NoThread,           \* the mutex is free
    NoParams            \* absent from the map, or not derived yet

ASSUME CountsAssumption == Counts \subseteq Nat
ASSUME MaxAssumption == MAX_BBS_MESSAGES \in Nat
ASSUME NoThreadAssumption == NoThread \notin Threads
ASSUME NoCallAssumption == NoCall \notin Counts

VARIABLES
    pc,             \* where thread t is inside params_for
    count,          \* params_for's argument
    params,         \* the local `params`, derived but not yet returned
    result,         \* what t's latest call returned
    cache,          \* the BTreeMap: cache[c] is NoParams when c is absent
    owner,          \* the thread holding the mutex
    poisoned,       \* the mutex's poison flag
    charged,        \* history: derivations of a count that a thread started
                    \* (bbs.rs DERIVATIONS) less those that panicked; stays at 2
    warm            \* history: the count was cached when t's call began

lockVars == <<owner, poisoned>>
historyVars == <<charged, warm>>
vars == <<pc, count, params, result, cache, lockVars, historyVars>>

DeriveParams(c) == [label |-> "phi-bbs-v1", count |-> c]

Params == {DeriveParams(c) : c \in Counts}

ASSUME NoParamsAssumption == NoParams \notin Params

Labels == {"idle", "uncached", "lookup", "reading", "derive", "insert", "writing"}

(* The two critical sections: the guards bound by `if let Ok(cache)`, or   *)
(* the guard inside the Err(PoisonError), which lives as long.             *)
InLock(t) == pc[t] \in {"reading", "writing"}

TypeOK ==
    /\ pc \in [Threads -> Labels]
    /\ count \in [Threads -> Counts \cup {NoCall}]
    /\ params \in [Threads -> Params \cup {NoParams}]
    /\ result \in [Threads -> Params \cup {Pending, Panicked}]
    /\ cache \in [Counts -> Params \cup {NoParams}]
    /\ owner \in Threads \cup {NoThread}
    /\ poisoned \in BOOLEAN
    /\ charged \in [Threads -> [Counts -> 0..2]]
    /\ warm \in [Threads -> BOOLEAN]

Init ==
    /\ pc = [t \in Threads |-> "idle"]
    /\ count = [t \in Threads |-> NoCall]
    /\ params = [t \in Threads |-> NoParams]
    /\ result = [t \in Threads |-> Pending]
    /\ cache = [c \in Counts |-> NoParams]
    /\ owner = NoThread
    /\ poisoned = FALSE
    /\ charged = [t \in Threads |-> [c \in Counts |-> 0]]
    /\ warm = [t \in Threads |-> FALSE]
-----------------------------------------------------------------------------
(* derive_params is entered: it counts itself before it does any work.     *)
CountDerivation(t, c) ==
    charged' = [charged EXCEPT ![t][c] = IF @ = 2 THEN 2 ELSE @ + 1]

(* Mutant: the bound test of params_for is lost.                           *)
EnterUnbounded(t, c) ==
    /\ pc[t] = "idle"
    /\ pc' = [pc EXCEPT ![t] = "lookup"]
    /\ count' = [count EXCEPT ![t] = c]
    /\ result' = [result EXCEPT ![t] = Pending]
    /\ warm' = [warm EXCEPT ![t] = cache[c] # NoParams]
    /\ UNCHANGED <<params, cache, lockVars, charged>>

(* params_for(count) is entered: a count above the bound goes straight to  *)
(* derive_params and never touches the cache.                              *)
Enter(t, c) ==
    /\ pc[t] = "idle"
    /\ pc' = [pc EXCEPT ![t] = IF c > MAX_BBS_MESSAGES THEN "uncached" ELSE "lookup"]
    /\ count' = [count EXCEPT ![t] = c]
    /\ result' = [result EXCEPT ![t] = Pending]
    /\ warm' = [warm EXCEPT ![t] = cache[c] # NoParams]
    /\ IF c > MAX_BBS_MESSAGES THEN CountDerivation(t, c) ELSE UNCHANGED charged
    /\ UNCHANGED <<params, cache, lockVars>>

(* params_cache().lock() blocks until the mutex is free; a poisoned mutex  *)
(* is acquired all the same and reported as Err.                           *)
Lock(t) ==
    /\ pc[t] \in {"lookup", "insert"}
    /\ owner = NoThread
    /\ owner' = t
    /\ pc' = [pc EXCEPT ![t] = IF pc[t] = "lookup" THEN "reading" ELSE "writing"]
    /\ UNCHANGED <<count, params, result, cache, poisoned, historyVars>>

Return(t, p) ==
    /\ pc' = [pc EXCEPT ![t] = "idle"]
    /\ count' = [count EXCEPT ![t] = NoCall]
    /\ params' = [params EXCEPT ![t] = NoParams]
    /\ result' = [result EXCEPT ![t] = p]
    /\ warm' = [warm EXCEPT ![t] = FALSE]

(* Mutant: the lookup accepts any key at or above the count, as a          *)
(* BTreeMap range query would.                                             *)
HitNearest(t) ==
    /\ pc[t] = "reading"
    /\ ~poisoned
    /\ \E c \in Counts :
          /\ c >= count[t]
          /\ cache[c] # NoParams
          /\ Return(t, cache[c])
    /\ owner' = NoThread
    /\ UNCHANGED <<cache, poisoned, charged>>

(* `return cached.clone()`: the guard is dropped on the way out.           *)
Hit(t) ==
    /\ pc[t] = "reading"
    /\ ~poisoned
    /\ cache[count[t]] # NoParams
    /\ owner' = NoThread
    /\ Return(t, cache[count[t]])
    /\ UNCHANGED <<cache, poisoned, charged>>

(* Mutant: the looked-up entry is ignored.                                 *)
MissAlways(t) ==
    /\ pc[t] = "reading"
    /\ owner' = NoThread
    /\ pc' = [pc EXCEPT ![t] = "derive"]
    /\ CountDerivation(t, count[t])
    /\ UNCHANGED <<count, params, result, cache, poisoned, warm>>

(* Mutant: the guard of the lookup is still alive while deriving.          *)
MissHoldingLock(t) ==
    /\ pc[t] = "reading"
    /\ poisoned \/ cache[count[t]] = NoParams
    /\ pc' = [pc EXCEPT ![t] = "derive"]
    /\ CountDerivation(t, count[t])
    /\ UNCHANGED <<count, params, result, cache, lockVars, warm>>

(* Mutant: a poisoned lock is tried again instead of skipped.              *)
MissRetry(t) ==
    /\ pc[t] = "reading"
    /\ poisoned \/ cache[count[t]] = NoParams
    /\ owner' = NoThread
    /\ pc' = [pc EXCEPT ![t] = IF poisoned THEN "lookup" ELSE "derive"]
    /\ IF poisoned THEN UNCHANGED charged ELSE CountDerivation(t, count[t])
    /\ UNCHANGED <<count, params, result, cache, poisoned, warm>>

(* Absent, or the lock was poisoned: the guard is dropped at the end of    *)
(* the `if let` statement, and derive_params is entered.                   *)
Miss(t) ==
    /\ pc[t] = "reading"
    /\ poisoned \/ cache[count[t]] = NoParams
    /\ owner' = NoThread
    /\ pc' = [pc EXCEPT ![t] = "derive"]
    /\ CountDerivation(t, count[t])
    /\ UNCHANGED <<count, params, result, cache, poisoned, warm>>

(* let params = derive_params(count) returns: no lock is held.             *)
Derive(t) ==
    /\ pc[t] = "derive"
    /\ params' = [params EXCEPT ![t] = DeriveParams(count[t])]
    /\ pc' = [pc EXCEPT ![t] = "insert"]
    /\ UNCHANGED <<count, result, cache, lockVars, historyVars>>

(* `return derive_params(count)` of a count above the bound.               *)
DeriveUncached(t) ==
    /\ pc[t] = "uncached"
    /\ Return(t, DeriveParams(count[t]))
    /\ UNCHANGED <<cache, lockVars, charged>>

(* Mutant: the derived parameters are returned without being inserted.     *)
InsertForgotten(t) ==
    /\ pc[t] = "writing"
    /\ owner' = NoThread
    /\ Return(t, params[t])
    /\ UNCHANGED <<cache, poisoned, charged>>

(* Mutant: the insert goes through PoisonError::into_inner.                *)
InsertThroughPoison(t) ==
    /\ pc[t] = "writing"
    /\ cache' = [cache EXCEPT ![count[t]] = params[t]]
    /\ owner' = NoThread
    /\ Return(t, params[t])
    /\ UNCHANGED <<poisoned, charged>>

(* cache.insert(count, params.clone()), skipped when the lock is poisoned, *)
(* then the guard is dropped and `params` returned.                        *)
Insert(t) ==
    /\ pc[t] = "writing"
    /\ cache' = IF poisoned THEN cache ELSE [cache EXCEPT ![count[t]] = params[t]]
    /\ owner' = NoThread
    /\ Return(t, params[t])
    /\ UNCHANGED <<poisoned, charged>>

(* A panic in a build that unwinds: it is caught at the FFI entry point    *)
(* (ffi.rs guard) or ends the thread, and the call yields no parameters.   *)
(* A MutexGuard dropped while unwinding releases and poisons the mutex.    *)
(* Code that could panic runs only under a guard or in derive_params,      *)
(* which holds no lock and has counted itself by then.  BTreeMap::insert   *)
(* runs no user code, so a panicking holder leaves the map as it was.      *)
Panic(t) ==
    /\ pc[t] \in {"uncached", "reading", "derive", "writing"}
    /\ charged' = IF InLock(t) THEN charged
                  ELSE [charged EXCEPT ![t][count[t]] = IF @ = 2 THEN 2 ELSE @ - 1]
    /\ owner' = IF InLock(t) THEN NoThread ELSE owner
    /\ poisoned' = (poisoned \/ InLock(t))
    /\ Return(t, Panicked)
    /\ UNCHANGED cache

Step(t) ==
    \/ Lock(t)
    \/ Hit(t)
    \/ Miss(t)
    \/ Derive(t)
    \/ DeriveUncached(t)
    \/ Insert(t)

Next ==
    \E t \in Threads :
        \/ \E c \in Counts : Enter(t, c)
        \/ Step(t)
        \/ Panic(t)

Spec == Init /\ [][Next]_vars

(* A thread inside params_for keeps running when it can: nothing is        *)
(* assumed of callers, of panics, or of the order in which the mutex       *)
(* serves waiting threads (std's mutex is not fair).                       *)
FairSpec == Spec /\ \A t \in Threads : WF_vars(Step(t))
-----------------------------------------------------------------------------
(* Every entry is what a fresh derivation of its key gives, only counts    *)
(* within MAX_BBS_MESSAGES are keys, and a result derived before another   *)
(* thread's insert is still the right one to insert afterwards (bbs.rs     *)
(* tests memoized_params_equal_a_fresh_derivation and                      *)
(* out_of_range_counts_are_not_cached, for every interleaving).            *)
CacheSound ==
    /\ \A c \in Counts :
           cache[c] # NoParams => cache[c] = DeriveParams(c) /\ c <= MAX_BBS_MESSAGES
    /\ \A t \in Threads :
           pc[t] \in {"insert", "writing"} => params[t] = DeriveParams(count[t])

(* A guard never outlives its statement: the thread that owns the mutex is *)
(* the one in a critical section, so derive_params, which takes long, runs *)
(* unlocked and no thread can wait for a mutex it holds itself.            *)
LockDiscipline == \A t \in Threads : owner = t <=> InLock(t)

(* A call that began when its count was cached never derives, unless the   *)
(* mutex has been poisoned meanwhile ("cache hits must not derive again",  *)
(* bbs.rs test repeated_params_for_does_not_recompute).                    *)
WarmCallsNeverDerive ==
    \A t \in Threads :
        warm[t] /\ pc[t] \in {"derive", "insert", "writing"} => poisoned

(* The check-then-act race between the two locks costs each thread at most *)
(* one derivation of a cacheable count, besides those that panicked, for   *)
(* the life of a healthy cache: a panic inside derive_params leaves the    *)
(* mutex healthy and the count uncached, so the next call derives again.   *)
RederivesOnlyAfterPanic ==
    ~poisoned =>
        \A t \in Threads, c \in Counts :
            c <= MAX_BBS_MESSAGES => charged[t][c] <= 1

(* Entries are permanent, and a poisoned cache is frozen: no call ever     *)
(* overwrites, drops or adds one afterwards.                               *)
CacheOnlyGrows ==
    [][ /\ \A c \in Counts : cache[c] # NoParams => cache'[c] = cache[c]
        /\ poisoned => poisoned' /\ cache' = cache ]_vars

(* params_for is indistinguishable from the stateless derivation: the      *)
(* cache, the race and the poisoned path never show in an answer.          *)
Service == INSTANCE ParamsService
               WITH call <- [t \in Threads |-> IF pc[t] = "idle" THEN NoCall ELSE count[t]],
                    result <- result

ImplementsService == Service!Spec

(* If callers eventually stop entering, every call in progress returns:    *)
(* no thread is left waiting for a mutex, poisoned or not.                 *)
NoNewCalls == [][\A t \in Threads : ~(pc[t] = "idle" /\ pc'[t] # "idle")]_vars

CallsReturn == <>NoNewCalls => \A t \in Threads : []<>(pc[t] = "idle")
=============================================================================
