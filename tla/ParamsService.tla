--------------------------- MODULE ParamsService ---------------------------
(***************************************************************************)
(* What src/src/bbs.rs promises of params_for: it is a deterministic       *)
(* function of the claim count ("both sides derive identically").  A call  *)
(* is answered, in one step and without any shared state, with exactly the *)
(* parameters a fresh derivation gives.  A call may instead be abandoned:  *)
(* in a build that unwinds, a panic below an FFI entry point is caught by  *)
(* ffi.rs guard and the call produces no parameters.                       *)
(***************************************************************************)
CONSTANTS
    Threads,        \* the threads that may be inside the library
    Counts,         \* the claim counts they ask parameters for
    NoCall,         \* no call of params_for is in progress
    Pending,        \* the call has not been answered yet
    Panicked        \* the call was abandoned by an unwinding panic

VARIABLES
    call,           \* call[t]: the count thread t is waiting for, or NoCall
    result          \* result[t]: the outcome of t's latest call

vars == <<call, result>>

(* SignatureParamsG1::new(PARAMS_LABEL, count): hash-to-curve is a fixed   *)
(* injective function of the label and the count.                          *)
DeriveParams(c) == [label |-> "phi-bbs-v1", count |-> c]

Params == {DeriveParams(c) : c \in Counts}

Init ==
    /\ call = [t \in Threads |-> NoCall]
    /\ result = [t \in Threads |-> Pending]

Request(t, c) ==
    /\ call[t] = NoCall
    /\ call' = [call EXCEPT ![t] = c]
    /\ result' = [result EXCEPT ![t] = Pending]

Answer(t) ==
    /\ call[t] # NoCall
    /\ result' = [result EXCEPT ![t] = DeriveParams(call[t])]
    /\ call' = [call EXCEPT ![t] = NoCall]

Abandon(t) ==
    /\ call[t] # NoCall
    /\ result' = [result EXCEPT ![t] = Panicked]
    /\ call' = [call EXCEPT ![t] = NoCall]

Next ==
    \E t \in Threads :
        \/ \E c \in Counts : Request(t, c)
        \/ Answer(t)
        \/ Abandon(t)

Spec == Init /\ [][Next]_vars
=============================================================================
