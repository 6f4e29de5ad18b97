---------------------------- MODULE RemoteCalls ----------------------------
(***************************************************************************)
(* What the Flutter bridge promises an app: a call of an exported function *)
(* gives a Future, and the Future completes once, with an outcome of that  *)
(* very call.  Between the two nothing else is visible, whatever other     *)
(* calls are under way.                                                    *)
(***************************************************************************)
CONSTANTS
    Ports,          \* one per Future: Dart opens a fresh port for each call
    Calls,          \* the calls an app may make
    Outcomes(_)     \* call |-> the outcomes it may complete with

VARIABLE futures    \* futures[p]: not called, waiting for a call, or completed

NotCalled == <<"not called">>
Waiting(c) == <<"waiting", c>>
Completed(c, o) == <<"completed", c, o>>

Init == futures = [p \in Ports |-> NotCalled]

Ask(p, c) ==
    /\ futures[p] = NotCalled
    /\ futures' = [futures EXCEPT ![p] = Waiting(c)]

Answer(p, c, o) ==
    /\ futures[p] = Waiting(c)
    /\ o \in Outcomes(c)
    /\ futures' = [futures EXCEPT ![p] = Completed(c, o)]

Next ==
    \E p \in Ports, c \in Calls :
        \/ Ask(p, c)
        \/ \E o \in Outcomes(c) : Answer(p, c, o)

Spec == Init /\ [][Next]_futures
=============================================================================
