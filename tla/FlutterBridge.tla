--------------------------- MODULE FlutterBridge ---------------------------
(***************************************************************************)
(* The Flutter bridge at work: bindings/flutter/rust/src/frb_generated.rs  *)
(* between a Dart isolate and a pool of Rust threads.  Every exported      *)
(* function is asynchronous (FfiCallMode::Normal): Dart serialises a call, *)
(* opens a port for the answer and enters the Rust dispatcher; the wire    *)
(* function decodes the arguments there and then, on Dart's thread, and    *)
(* queues a task; pool threads take tasks in order and finish them in any  *)
(* order; each answer is posted to its task's port and completes the       *)
(* Future behind it.  The handler and the pool (flutter_rust_bridge,       *)
(* threadpool) are libraries, modelled from how the glue uses them.        *)
(*                                                                         *)
(* The messages themselves are constants here; SseCodec and FlutterApi     *)
(* give them their values.                                                 *)
(***************************************************************************)
EXTENDS Naturals, Sequences

CONSTANTS
    Ports,              \* one per Future
    Workers,            \* the threads of the pool
    Calls,              \* the calls the app may make
    NoJob,              \* the thread is idle
    Send(_),            \* call |-> message, Dart's encoder
    Meant(_),           \* call |-> the call in the widths of its parameters
    Receive(_),         \* message |-> <<"task", call>>, <<"panic">> or <<"abort">>
    Run(_),             \* call |-> the outcomes the wrapper may return
    Reply(_),           \* outcome |-> message, Rust's encoder
    Read(_, _)          \* call, message |-> outcome, Dart's decoder

VARIABLES
    futures,            \* Dart: the state of the Future on each port
    queue,              \* the pool's queue of tasks
    running,            \* running[w]: the task thread w has taken
    inbox,              \* answers posted to the isolate, not yet handled
    aborted             \* the process died in the dispatcher

vars == <<futures, queue, running, inbox, aborted>>

PanicOutcome == <<"panic">>

(* what a call may complete with: what the wrapper returns, or a panic of  *)
(* its task (an entropy source that fails), reported as an exception       *)
Outcomes(c) == Run(Meant(c)) \cup {PanicOutcome}

NotCalled == <<"not called">>
Waiting(c) == <<"waiting", c>>
Completed(c, o) == <<"completed", c, o>>

Job(p, c) == [port |-> p, call |-> c]
Post(p, m) == [port |-> p, message |-> m]

Init ==
    /\ futures = [p \in Ports |-> NotCalled]
    /\ queue = <<>>
    /\ running = [w \in Workers |-> NoJob]
    /\ inbox = <<>>
    /\ aborted = FALSE
-----------------------------------------------------------------------------
(* executeNormal on the Dart side and wrap_normal on the Rust side, one    *)
(* synchronous foreign call: dispatch, decode, and queue the task.  A      *)
(* panic while decoding is caught and posted to the call's port.           *)
Call(p, c) ==
    /\ ~aborted
    /\ futures[p] = NotCalled
    /\ futures' = [futures EXCEPT ![p] = Waiting(c)]
    /\ LET received == Receive(Send(c))
       IN /\ queue' = IF received[1] = "task"
                      THEN Append(queue, Job(p, received[2])) ELSE queue
          /\ inbox' = IF received[1] = "panic"
                      THEN Append(inbox, Post(p, Reply(PanicOutcome))) ELSE inbox
          /\ aborted' = (received[1] = "abort")
    /\ UNCHANGED running

(* A pool thread takes the oldest task.                                    *)
Take(w) ==
    /\ ~aborted
    /\ running[w] = NoJob
    /\ queue # <<>>
    /\ running' = [running EXCEPT ![w] = Head(queue)]
    /\ queue' = Tail(queue)
    /\ UNCHANGED <<futures, inbox, aborted>>

(* Mutant: the answer goes to the port of the task that was queued last.   *)
FinishLatestPort(w) ==
    /\ ~aborted
    /\ running[w] # NoJob
    /\ \E o \in Run(running[w].call) :
          inbox' = Append(inbox, Post(IF queue = <<>> THEN running[w].port
                                      ELSE queue[Len(queue)].port, Reply(o)))
    /\ running' = [running EXCEPT ![w] = NoJob]
    /\ UNCHANGED <<futures, queue, aborted>>

(* The task's closure calls the wrapper; handle_result posts the answer.   *)
Finish(w) ==
    /\ ~aborted
    /\ running[w] # NoJob
    /\ \E o \in Run(running[w].call) :
          inbox' = Append(inbox, Post(running[w].port, Reply(o)))
    /\ running' = [running EXCEPT ![w] = NoJob]
    /\ UNCHANGED <<futures, queue, aborted>>

(* Mutant: a panic of the task is swallowed with the thread's unwinding.   *)
PanicSilently(w) ==
    /\ ~aborted
    /\ running[w] # NoJob
    /\ running' = [running EXCEPT ![w] = NoJob]
    /\ UNCHANGED <<futures, queue, inbox, aborted>>

(* The wrapper panics: execute_normal catches it and posts an exception.   *)
PanicInTask(w) ==
    /\ ~aborted
    /\ running[w] # NoJob
    /\ inbox' = Append(inbox, Post(running[w].port, Reply(PanicOutcome)))
    /\ running' = [running EXCEPT ![w] = NoJob]
    /\ UNCHANGED <<futures, queue, aborted>>

(* The isolate's event loop hands the oldest answer to its port's Future.  *)
Deliver ==
    /\ ~aborted
    /\ inbox # <<>>
    /\ LET p == Head(inbox).port
           c == futures[p][2]
       IN futures' = [futures EXCEPT ![p] = Completed(c, Read(c, Head(inbox).message))]
    /\ inbox' = Tail(inbox)
    /\ UNCHANGED <<queue, running, aborted>>

Next ==
    \/ \E p \in Ports, c \in Calls : Call(p, c)
    \/ \E w \in Workers : Take(w) \/ Finish(w) \/ PanicInTask(w)
    \/ Deliver

Spec == Init /\ [][Next]_vars

(* Pool threads run what they took and come back for more, and the event   *)
(* loop drains its queue; nobody owes the app another call.                *)
FairSpec ==
    /\ Spec
    /\ \A w \in Workers : WF_vars(Take(w)) /\ WF_vars(Finish(w) \/ PanicInTask(w))
    /\ WF_vars(Deliver)
-----------------------------------------------------------------------------
Futures ==
    {NotCalled} \cup {Waiting(c) : c \in Calls}
    \cup UNION {{Completed(c, o) : o \in Outcomes(c)} : c \in Calls}
Jobs == [port : Ports, call : {Meant(c) : c \in Calls}]
ASSUME NoJobAssumption == NoJob \notin Jobs
Messages == {Reply(o) : o \in UNION {Outcomes(c) : c \in Calls}}
Posts == [port : Ports, message : Messages]

TypeOK ==
    /\ futures \in [Ports -> Futures]
    /\ queue \in Seq(Jobs)
    /\ running \in [Workers -> Jobs \cup {NoJob}]
    /\ inbox \in Seq(Posts)
    /\ aborted \in BOOLEAN

(* The two generated halves agree on call c: what Dart writes for it, the  *)
(* dispatcher reads back as that call, and what Rust writes for one of its *)
(* outcomes, Dart reads back as that outcome.                              *)
RoundTrips(c) ==
    /\ Receive(Send(c)) = <<"task", Meant(c)>>
    /\ \A o \in Outcomes(c) : Read(c, Reply(o)) = o

CodecRoundTrips == \A c \in Calls : RoundTrips(c)

(* No Future waits for a call on which the two halves disagree: none was   *)
(* misread or refused on the way in, and no outcome it may still have will *)
(* be misread on the way back.  Over a run that makes every call this is   *)
(* CodecRoundTrips, the hypothesis of the proofs.                          *)
CallsRoundTrip == \A p \in Ports : \A c \in Calls : futures[p] = Waiting(c) => RoundTrips(c)

(* A task under way is the call that a waiting Future was made for: the    *)
(* function it names, its arguments under their own names.  No number of   *)
(* the dispatcher is off by one, no two parameters of one type change      *)
(* places, and no call hits the dispatcher's unreachable!(), which would   *)
(* take the app down with it.                                              *)
TaskMeansItsCall(job) ==
    \E c \in Calls : futures[job.port] = Waiting(c) /\ job.call = Meant(c)

TasksMeanTheirCalls ==
    /\ ~aborted
    /\ \A i \in DOMAIN queue : TaskMeansItsCall(queue[i])
    /\ \A w \in Workers : running[w] # NoJob => TaskMeansItsCall(running[w])

(* An answer on its way back is for a Future that still waits, and Dart    *)
(* will read from it an outcome of the call that Future was made for.      *)
AnswersFitTheirFutures ==
    \A i \in DOMAIN inbox :
        \E c \in Calls : /\ futures[inbox[i].port] = Waiting(c)
                         /\ Read(c, inbox[i].message) \in Outcomes(c)

(* A Future that waits has exactly one task or answer under way and any    *)
(* other has none: nothing completes a Future twice (Dart would throw a    *)
(* StateError in the isolate), and no call is forgotten, whatever order    *)
(* the pool's threads finish in.                                           *)
Pending(p) ==
    {<<"queued", i>> : i \in {k \in DOMAIN queue : queue[k].port = p}}
    \cup {<<"running", w>> : w \in {v \in Workers : running[v] # NoJob /\ running[v].port = p}}
    \cup {<<"posted", i>> : i \in {k \in DOMAIN inbox : inbox[k].port = p}}

OneAnswerPerCall ==
    \A p \in Ports :
        IF \E c \in Calls : futures[p] = Waiting(c)
        THEN \E x \in Pending(p) : Pending(p) = {x}
        ELSE Pending(p) = {}

(* The bridge implements the futures of RemoteCalls: each completes once,  *)
(* with an outcome of the very call it was made for.                       *)
Remote == INSTANCE RemoteCalls
ImplementsRemoteCalls == Remote!Spec

(* Every Future completes, also when its task panics.                      *)
EveryFutureCompletes ==
    \A p \in Ports :
        (\E c \in Calls : futures[p] = Waiting(c))
            ~> (\E c \in Calls : \E o \in Outcomes(c) : futures[p] = Completed(c, o))
=============================================================================
