--------------------------- MODULE BoundaryProofs ---------------------------
(***************************************************************************)
(* What is proved of the crate's boundaries: that the Flutter bridge       *)
(* implements RemoteCalls for every pool of threads, every set of calls    *)
(* and every codec whose halves agree; that the generated halves do agree, *)
(* for every call the type checkers let through; and that the C ABI, the   *)
(* browser and the phone give one answer to one question, for every core.  *)
(***************************************************************************)
EXTENDS FlutterBridge, SseCodec, Surfaces, FramingProofs

(* Tasks and answers under way never share a port: without this the        *)
(* invariant is not inductive, for a delivered answer could leave a second *)
(* task or answer behind for a Future that no longer waits.                *)
AtMostOne ==
    /\ \A i, j \in DOMAIN queue : queue[i].port = queue[j].port => i = j
    /\ \A i, j \in DOMAIN inbox : inbox[i].port = inbox[j].port => i = j
    /\ \A v, w \in Workers : running[v] # NoJob /\ running[w] # NoJob
                             /\ running[v].port = running[w].port => v = w
    /\ \A i \in DOMAIN queue, j \in DOMAIN inbox : queue[i].port # inbox[j].port
    /\ \A i \in DOMAIN queue, w \in Workers :
          running[w] # NoJob => queue[i].port # running[w].port
    /\ \A i \in DOMAIN inbox, w \in Workers :
          running[w] # NoJob => inbox[i].port # running[w].port

IInv == TypeOK /\ TasksMeanTheirCalls /\ AnswersFitTheirFutures /\ AtMostOne

(* The states of a Future are told apart by their tags.                    *)
LEMMA FutureStates ==
    /\ \A c : NotCalled # Waiting(c)
    /\ \A c, d : Waiting(c) = Waiting(d) => c = d
    /\ \A c, d, o : Waiting(c) # Completed(d, o)
BY DEF NotCalled, Waiting, Completed

(* What Append and Tail do to the items of a queue.                        *)
LEMMA AppendItems ==
    ASSUME NEW S, NEW s \in Seq(S), NEW e \in S
    PROVE  /\ Append(s, e) \in Seq(S)
           /\ DOMAIN Append(s, e) = 1..(Len(s) + 1)
           /\ DOMAIN s = 1..Len(s)
           /\ Len(s) \in Nat
           /\ \A i \in 1..Len(s) : Append(s, e)[i] = s[i]
           /\ Append(s, e)[Len(s) + 1] = e
  BY AppendProperties

LEMMA TailItems ==
    ASSUME NEW S, NEW s \in Seq(S), s # <<>>
    PROVE  /\ Tail(s) \in Seq(S)
           /\ Head(s) = s[1]
           /\ Head(s) \in S
           /\ 1 \in DOMAIN s
           /\ Len(s) \in Nat
           /\ \A i \in DOMAIN Tail(s) : /\ i \in Nat \ {0}
                                        /\ i + 1 \in DOMAIN s
                                        /\ Tail(s)[i] = s[i + 1]
  BY HeadTailProperties

(* Posting an answer for the task of thread w: what Finish and PanicInTask *)
(* have in common.                                                         *)
LEMMA PostPreserves ==
    ASSUME CodecRoundTrips, IInv, NEW w \in Workers, ~aborted, running[w] # NoJob,
           NEW o, \A c \in Calls : running[w].call = Meant(c) => o \in Outcomes(c),
           inbox' = Append(inbox, Post(running[w].port, Reply(o))),
           running' = [running EXCEPT ![w] = NoJob],
           UNCHANGED <<futures, queue, aborted>>
    PROVE  IInv'
  <1> DEFINE post == Post(running[w].port, Reply(o))
  <1>1. PICK c \in Calls : futures[running[w].port] = Waiting(c) /\ running[w].call = Meant(c)
    BY DEF IInv, TasksMeanTheirCalls, TaskMeansItsCall
  <1>2. running[w] \in Jobs /\ running[w].port \in Ports
    BY DEF IInv, TypeOK, Jobs
  <1>3. o \in Outcomes(c) /\ Read(c, Reply(o)) \in Outcomes(c)
    BY <1>1 DEF CodecRoundTrips, RoundTrips
  <1>4. post \in Posts /\ post.port = running[w].port /\ post.message = Reply(o)
    BY <1>1, <1>2, <1>3 DEF Posts, Messages, Post
  <1>5. /\ inbox' \in Seq(Posts)
        /\ DOMAIN inbox' = 1..(Len(inbox) + 1)
        /\ DOMAIN inbox = 1..Len(inbox)
        /\ Len(inbox) \in Nat
        /\ \A i \in 1..Len(inbox) : inbox'[i] = inbox[i]
        /\ inbox'[Len(inbox) + 1] = post
    <2>1. inbox \in Seq(Posts)
      BY DEF IInv, TypeOK
    <2> QED
      BY <1>4, <2>1, AppendItems
  <1>6. /\ running' \in [Workers -> Jobs \cup {NoJob}]
        /\ running'[w] = NoJob
        /\ \A v \in Workers : running'[v] # NoJob => v # w /\ running'[v] = running[v]
    BY DEF IInv, TypeOK
  <1>7. TypeOK'
    BY <1>5, <1>6 DEF IInv, TypeOK
  <1>8. TasksMeanTheirCalls'
    BY <1>6 DEF IInv, TasksMeanTheirCalls, TaskMeansItsCall
  <1>9. AnswersFitTheirFutures'
    BY <1>1, <1>3, <1>4, <1>5 DEF IInv, AnswersFitTheirFutures
  <1>10. AtMostOne'
    <2> USE <1>4, <1>5, <1>6 DEF IInv, AtMostOne
    <2>1. \A i, j \in DOMAIN inbox' : inbox'[i].port = inbox'[j].port => i = j
      OBVIOUS
    <2>2. \A i \in DOMAIN queue, j \in DOMAIN inbox' : queue[i].port # inbox'[j].port
      OBVIOUS
    <2>3. \A i \in DOMAIN inbox', v \in Workers :
             running'[v] # NoJob => inbox'[i].port # running'[v].port
      OBVIOUS
    <2> QED
      BY <2>1, <2>2, <2>3
  <1> QED
    BY <1>7, <1>8, <1>9, <1>10 DEF IInv

LEMMA CallPreserves ==
    ASSUME CodecRoundTrips, IInv, NEW p \in Ports, NEW c \in Calls, Call(p, c)
    PROVE  IInv' /\ Remote!Ask(p, c)
  <1>1. Receive(Send(c)) = <<"task", Meant(c)>>
    BY DEF CodecRoundTrips, RoundTrips
  <1>2. /\ futures' = [futures EXCEPT ![p] = Waiting(c)]
        /\ futures[p] = NotCalled
        /\ queue' = Append(queue, Job(p, Meant(c)))
        /\ inbox' = inbox /\ running' = running /\ aborted' = FALSE
    <2>1. Receive(Send(c))[1] = "task" /\ Receive(Send(c))[2] = Meant(c)
      BY <1>1
    <2>2. aborted' = ("task" = "abort")
      BY <2>1 DEF Call
    <2>3. aborted' = FALSE
      BY <2>2
    <2> QED
      BY <2>1, <2>3 DEF Call
  <1>3. /\ futures' \in [Ports -> Futures]
        /\ futures'[p] = Waiting(c)
        /\ \A q \in Ports \ {p} : futures'[q] = futures[q]
    BY <1>2 DEF IInv, TypeOK, Futures
  <1>4. Job(p, Meant(c)) \in Jobs /\ Job(p, Meant(c)).port = p /\ Job(p, Meant(c)).call = Meant(c)
    BY DEF Job, Jobs
  <1>5. /\ queue' \in Seq(Jobs)
        /\ DOMAIN queue' = 1..(Len(queue) + 1)
        /\ DOMAIN queue = 1..Len(queue)
        /\ Len(queue) \in Nat
        /\ \A i \in 1..Len(queue) : queue'[i] = queue[i]
        /\ queue'[Len(queue) + 1] = Job(p, Meant(c))
    <2>1. queue \in Seq(Jobs)
      BY DEF IInv, TypeOK
    <2> QED
      BY <1>2, <1>4, <2>1, AppendItems
  <1>6. /\ \A i \in DOMAIN queue : queue[i].port \in Ports \ {p}
        /\ \A i \in DOMAIN inbox : inbox[i].port \in Ports \ {p}
        /\ \A w \in Workers : running[w] # NoJob => running[w].port \in Ports \ {p}
    <2>1. /\ \A i \in DOMAIN queue : queue[i] \in Jobs
          /\ \A i \in DOMAIN inbox : inbox[i] \in Posts
          /\ \A w \in Workers : running[w] # NoJob => running[w] \in Jobs
      BY ElementOfSeq DEF IInv, TypeOK
    <2> QED
      BY <1>2, <2>1, FutureStates
      DEF IInv, TasksMeanTheirCalls, TaskMeansItsCall, AnswersFitTheirFutures, Jobs, Posts
  <1>7. TypeOK'
    BY <1>2, <1>3, <1>5 DEF IInv, TypeOK
  <1>8. TasksMeanTheirCalls'
    <2>1. \A i \in DOMAIN queue' : TaskMeansItsCall(queue[i])' \/ i = Len(queue) + 1
      BY <1>3, <1>5, <1>6 DEF IInv, TasksMeanTheirCalls, TaskMeansItsCall
    <2>2. \A i \in DOMAIN queue' : TaskMeansItsCall(queue[i])'
      BY <1>3, <1>4, <1>5, <2>1 DEF TaskMeansItsCall
    <2>3. \A w \in Workers : running'[w] # NoJob => TaskMeansItsCall(running[w])'
      BY <1>2, <1>3, <1>6 DEF IInv, TasksMeanTheirCalls, TaskMeansItsCall
    <2> QED
      BY <1>2, <2>2, <2>3 DEF TasksMeanTheirCalls
  <1>9. AnswersFitTheirFutures'
    BY <1>2, <1>3, <1>6 DEF IInv, AnswersFitTheirFutures
  <1>10. AtMostOne'
    BY <1>2, <1>4, <1>5, <1>6 DEF IInv, AtMostOne
  <1>11. Remote!Ask(p, c)
    BY <1>2 DEF Remote!Ask, Remote!NotCalled, Remote!Waiting, NotCalled, Waiting
  <1> QED
    BY <1>7, <1>8, <1>9, <1>10, <1>11 DEF IInv

LEMMA TakePreserves ==
    ASSUME IInv, NEW w \in Workers, Take(w)
    PROVE  IInv'
  <1>1. /\ running[w] = NoJob
        /\ queue # <<>>
        /\ running' = [running EXCEPT ![w] = Head(queue)]
        /\ queue' = Tail(queue)
        /\ futures' = futures /\ inbox' = inbox /\ aborted' = aborted
    BY DEF Take
  <1>2. /\ queue' \in Seq(Jobs)
        /\ Head(queue) = queue[1]
        /\ Head(queue) \in Jobs
        /\ 1 \in DOMAIN queue
        /\ \A i \in DOMAIN queue' : /\ i \in Nat \ {0}
                                    /\ i + 1 \in DOMAIN queue
                                    /\ queue'[i] = queue[i + 1]
    <2>1. queue \in Seq(Jobs)
      BY DEF IInv, TypeOK
    <2> QED
      BY <1>1, <2>1, TailItems
  <1>3. /\ running' \in [Workers -> Jobs \cup {NoJob}]
        /\ running'[w] = queue[1]
        /\ \A v \in Workers \ {w} : running'[v] = running[v]
    BY <1>1, <1>2 DEF IInv, TypeOK
  <1>4. TypeOK'
    BY <1>1, <1>2, <1>3 DEF IInv, TypeOK
  <1>5. TasksMeanTheirCalls'
    BY <1>1, <1>2, <1>3 DEF IInv, TasksMeanTheirCalls, TaskMeansItsCall
  <1>6. AnswersFitTheirFutures'
    BY <1>1 DEF IInv, AnswersFitTheirFutures
  <1>7. AtMostOne'
    <2> USE <1>1, <1>2, <1>3 DEF IInv, AtMostOne
    <2>1. \A i, j \in DOMAIN queue' : queue'[i].port = queue'[j].port => i = j
      OBVIOUS
    <2>2. \A v, u \in Workers : running'[v] # NoJob /\ running'[u] # NoJob
                                /\ running'[v].port = running'[u].port => v = u
      OBVIOUS
    <2>3. \A i \in DOMAIN queue', j \in DOMAIN inbox' : queue'[i].port # inbox'[j].port
      OBVIOUS
    <2>4. \A i \in DOMAIN queue', v \in Workers :
             running'[v] # NoJob => queue'[i].port # running'[v].port
      OBVIOUS
    <2>5. \A i \in DOMAIN inbox', v \in Workers :
             running'[v] # NoJob => inbox'[i].port # running'[v].port
      OBVIOUS
    <2> QED
      BY <2>1, <2>2, <2>3, <2>4, <2>5
  <1> QED
    BY <1>4, <1>5, <1>6, <1>7 DEF IInv

LEMMA DeliverPreserves ==
    ASSUME CodecRoundTrips, IInv, Deliver
    PROVE  /\ IInv'
           /\ \E p \in Ports, c \in Calls : \E o \in Outcomes(c) : Remote!Answer(p, c, o)
  <1> DEFINE p == Head(inbox).port
             o == Read(futures[p][2], Head(inbox).message)
  <1>1. /\ inbox # <<>>
        /\ futures' = [futures EXCEPT ![p] = Completed(futures[p][2], o)]
        /\ inbox' = Tail(inbox)
        /\ queue' = queue /\ running' = running /\ aborted' = aborted
    BY DEF Deliver
  <1>2. /\ inbox' \in Seq(Posts)
        /\ Head(inbox) = inbox[1]
        /\ Head(inbox) \in Posts
        /\ 1 \in DOMAIN inbox
        /\ \A i \in DOMAIN inbox' : /\ i \in Nat \ {0}
                                    /\ i + 1 \in DOMAIN inbox
                                    /\ inbox'[i] = inbox[i + 1]
    <2>1. inbox \in Seq(Posts)
      BY DEF IInv, TypeOK
    <2> QED
      BY <1>1, <2>1, TailItems
  <1>3. p \in Ports
    BY <1>2 DEF Posts
  <1>4. PICK c \in Calls : futures[p] = Waiting(c) /\ Read(c, Head(inbox).message) \in Outcomes(c)
    BY <1>2 DEF IInv, AnswersFitTheirFutures
  <1>5. futures[p][2] = c /\ o \in Outcomes(c)
    BY <1>4 DEF Waiting
  <1>6. /\ futures' \in [Ports -> Futures]
        /\ \A q \in Ports \ {p} : futures'[q] = futures[q]
        /\ futures' = [futures EXCEPT ![p] = Completed(c, o)]
    <2>1. Completed(c, o) \in Futures
      BY <1>5 DEF Futures
    <2> QED
      BY <1>1, <1>3, <1>5, <2>1 DEF IInv, TypeOK
  <1>7. /\ \A i \in DOMAIN queue : queue[i].port \in Ports \ {p}
        /\ \A i \in DOMAIN inbox' : inbox'[i].port \in Ports \ {p}
        /\ \A w \in Workers : running[w] # NoJob => running[w].port \in Ports \ {p}
    <2>1. /\ \A i \in DOMAIN queue : queue[i].port \in Ports
          /\ \A i \in DOMAIN inbox : inbox[i].port \in Ports
          /\ \A w \in Workers : running[w] # NoJob => running[w].port \in Ports
      <3>1. /\ \A i \in DOMAIN queue : queue[i] \in Jobs
            /\ \A i \in DOMAIN inbox : inbox[i] \in Posts
            /\ \A w \in Workers : running[w] # NoJob => running[w] \in Jobs
        BY ElementOfSeq DEF IInv, TypeOK
      <3> QED
        BY <3>1 DEF Jobs, Posts
    <2>2. \A i \in DOMAIN inbox' : inbox'[i].port # p
      BY <1>2 DEF IInv, AtMostOne
    <2> QED
      BY <1>2, <2>1, <2>2 DEF IInv, AtMostOne
  <1>8. TypeOK'
    BY <1>1, <1>2, <1>6 DEF IInv, TypeOK
  <1>9. TasksMeanTheirCalls'
    BY <1>1, <1>6, <1>7 DEF IInv, TasksMeanTheirCalls, TaskMeansItsCall
  <1>10. AnswersFitTheirFutures'
    BY <1>1, <1>2, <1>6, <1>7 DEF IInv, AnswersFitTheirFutures
  <1>11. AtMostOne'
    <2>1. \A i, j \in DOMAIN inbox' : inbox'[i].port = inbox'[j].port => i = j
      BY <1>2 DEF IInv, AtMostOne
    <2> QED
      BY <1>1, <1>2, <2>1 DEF IInv, AtMostOne
  <1>12. Remote!Answer(p, c, o)
    BY <1>4, <1>5, <1>6
    DEF Remote!Answer, Remote!Waiting, Remote!Completed, Waiting, Completed
  <1> QED
    BY <1>3, <1>5, <1>8, <1>9, <1>10, <1>11, <1>12 DEF IInv

LEMMA InitEstablishes == Init => IInv
  <1> SUFFICES ASSUME Init PROVE IInv
    OBVIOUS
  <1>1. TypeOK
    <2>1. futures \in [Ports -> Futures]
      BY DEF Init, Futures
    <2>2. queue \in Seq(Jobs) /\ inbox \in Seq(Posts)
      BY DEF Init
    <2>3. running \in [Workers -> Jobs \cup {NoJob}] /\ aborted \in BOOLEAN
      BY DEF Init
    <2> QED
      BY <2>1, <2>2, <2>3 DEF TypeOK
  <1>2. TasksMeanTheirCalls /\ AnswersFitTheirFutures /\ AtMostOne
    BY DEF Init, TasksMeanTheirCalls, AnswersFitTheirFutures, AtMostOne
  <1> QED
    BY <1>1, <1>2 DEF IInv

(* One step of the bridge keeps the invariant and is a step of RemoteCalls *)
(* or leaves every Future alone.                                           *)
LEMMA StepSimulates ==
    ASSUME CodecRoundTrips, IInv, [Next]_vars
    PROVE  IInv' /\ [Remote!Next]_futures
  <1>1. CASE \E p \in Ports, c \in Calls : Call(p, c)
    BY <1>1, CallPreserves DEF Remote!Next
  <1>2. CASE \E w \in Workers : Take(w)
    BY <1>2, TakePreserves DEF Take
  <1>3. ASSUME NEW w \in Workers, Finish(w)
        PROVE  IInv' /\ futures' = futures
    <2>1. PICK o \in Run(running[w].call) :
             inbox' = Append(inbox, Post(running[w].port, Reply(o)))
      BY <1>3 DEF Finish
    <2>2. \A c \in Calls : running[w].call = Meant(c) => o \in Outcomes(c)
      BY DEF Outcomes
    <2> QED
      BY <1>3, <2>1, <2>2, PostPreserves DEF Finish
  <1>4. ASSUME NEW w \in Workers, PanicInTask(w)
        PROVE  IInv' /\ futures' = futures
    <2>1. \A c \in Calls : PanicOutcome \in Outcomes(c)
      BY DEF Outcomes
    <2> QED
      BY <1>4, <2>1, PostPreserves DEF PanicInTask
  <1>5. CASE Deliver
    BY <1>5, DeliverPreserves DEF Remote!Next
  <1>6. CASE UNCHANGED vars
    BY <1>6 DEF vars, IInv, TypeOK, TasksMeanTheirCalls, TaskMeansItsCall,
                AnswersFitTheirFutures, AtMostOne
  <1> QED
    BY <1>1, <1>2, <1>3, <1>4, <1>5, <1>6 DEF Next

(* If the two generated halves of the bridge agree, no task or answer is   *)
(* ever under way for a Future that does not wait for it, and no call      *)
(* aborts the process.                                                     *)
THEOREM CarriersAreFaithful ==
    ASSUME CodecRoundTrips
    PROVE  Spec => [](TypeOK /\ TasksMeanTheirCalls /\ AnswersFitTheirFutures)
  <1>1. Init => IInv
    BY InitEstablishes
  <1>2. IInv /\ [Next]_vars => IInv'
    BY StepSimulates
  <1>3. IInv => TypeOK /\ TasksMeanTheirCalls /\ AnswersFitTheirFutures
    BY DEF IInv
  <1> QED
    BY <1>1, <1>2, <1>3, PTL DEF Spec

(* If the two generated halves of the bridge agree, then whatever the      *)
(* number of calls under way and the order in which the pool's threads     *)
(* finish, every Future completes at most once and with an outcome of the  *)
(* call it was made for.                                                   *)
THEOREM BridgeImplementsRemoteCalls ==
    ASSUME CodecRoundTrips
    PROVE  Spec => ImplementsRemoteCalls
  <1>1. Init => IInv /\ Remote!Init
    BY InitEstablishes DEF Init, Remote!Init, NotCalled, Remote!NotCalled
  <1>2. IInv /\ [Next]_vars => IInv' /\ [Remote!Next]_futures
    BY StepSimulates
  <1> QED
    BY <1>1, <1>2, PTL DEF Spec, ImplementsRemoteCalls, Remote!Spec
-----------------------------------------------------------------------------
(* Port p has a task queued or running, or an answer posted.               *)
Queued(p) == \E i \in DOMAIN queue : queue[i].port = p
Running(p) == \E w \in Workers : running[w] # NoJob /\ running[w].port = p
Posted(p) == \E i \in DOMAIN inbox : inbox[i].port = p

(* No call is forgotten: the other half of OneAnswerPerCall.               *)
AtLeastOne ==
    \A p \in Ports : (\E c \in Calls : futures[p] = Waiting(c))
                     => Queued(p) \/ Running(p) \/ Posted(p)

(* Answering a task moves its port from the pool to the inbox.             *)
LEMMA PostCarries ==
    ASSUME IInv, AtLeastOne, NEW w \in Workers, NEW m, running[w] # NoJob,
           Post(running[w].port, m) \in Posts,
           inbox' = Append(inbox, Post(running[w].port, m)),
           running' = [running EXCEPT ![w] = NoJob],
           UNCHANGED <<futures, queue, aborted>>
    PROVE  AtLeastOne'
  <1> DEFINE post == Post(running[w].port, m)
  <1>1. post.port = running[w].port
    BY DEF Post
  <1>2. /\ DOMAIN inbox' = 1..(Len(inbox) + 1)
        /\ DOMAIN inbox = 1..Len(inbox)
        /\ Len(inbox) \in Nat
        /\ \A i \in 1..Len(inbox) : inbox'[i] = inbox[i]
        /\ inbox'[Len(inbox) + 1] = post
    BY AppendItems DEF IInv, TypeOK
  <1>3. Len(inbox) + 1 \in DOMAIN inbox' /\ DOMAIN inbox \subseteq DOMAIN inbox'
    BY <1>2
  <1>4. \A v \in Workers \ {w} : running'[v] = running[v]
    BY DEF IInv, TypeOK
  <1> HIDE DEF post
  <1>5. ASSUME NEW p \in Ports, p = running[w].port PROVE Posted(p)'
    BY <1>1, <1>2, <1>3, <1>5 DEF Posted
  <1>6. ASSUME NEW p \in Ports
        PROVE  /\ Queued(p) => Queued(p)'
               /\ Posted(p) => Posted(p)'
               /\ Running(p) => Running(p)' \/ p = running[w].port
    BY <1>2, <1>3, <1>4 DEF Queued, Posted, Running
  <1>7. futures' = futures
    OBVIOUS
  <1> QED
    BY <1>5, <1>6, <1>7 DEF AtLeastOne

(* Every step keeps a task or an answer under way for each Future that     *)
(* waits.                                                                  *)
LEMMA StepCarries ==
    ASSUME CodecRoundTrips, IInv, AtLeastOne, [Next]_vars
    PROVE  AtLeastOne'
  <1>1. ASSUME NEW q \in Ports, NEW c \in Calls, Call(q, c) PROVE AtLeastOne'
    <2>1. Receive(Send(c)) = <<"task", Meant(c)>>
      BY DEF CodecRoundTrips, RoundTrips
    <2>2. /\ futures' = [futures EXCEPT ![q] = Waiting(c)]
          /\ queue' = Append(queue, Job(q, Meant(c)))
          /\ inbox' = inbox /\ running' = running
      <3>1. Receive(Send(c))[1] = "task" /\ Receive(Send(c))[2] = Meant(c)
        BY <2>1
      <3> QED
        BY <1>1, <3>1 DEF Call
    <2>3. Job(q, Meant(c)) \in Jobs /\ Job(q, Meant(c)).port = q
      BY DEF Job, Jobs
    <2>4. /\ DOMAIN queue' = 1..(Len(queue) + 1)
          /\ DOMAIN queue = 1..Len(queue)
          /\ Len(queue) \in Nat
          /\ \A i \in 1..Len(queue) : queue'[i] = queue[i]
          /\ queue'[Len(queue) + 1] = Job(q, Meant(c))
      BY <2>2, <2>3, AppendItems DEF IInv, TypeOK
    <2>5. Len(queue) + 1 \in DOMAIN queue' /\ DOMAIN queue \subseteq DOMAIN queue'
      BY <2>4
    <2>6. Queued(q)'
      BY <2>3, <2>4, <2>5 DEF Queued
    <2>7. ASSUME NEW p \in Ports
          PROVE  /\ Queued(p) => Queued(p)'
                 /\ Posted(p) => Posted(p)'
                 /\ Running(p) => Running(p)'
      BY <2>2, <2>4, <2>5 DEF Queued, Posted, Running
    <2>8. \A p \in Ports \ {q} : futures'[p] = futures[p]
      BY <2>2 DEF IInv, TypeOK
    <2> QED
      BY <2>6, <2>7, <2>8 DEF AtLeastOne
  <1>2. ASSUME NEW w \in Workers, Take(w) PROVE AtLeastOne'
    <2>1. /\ running[w] = NoJob /\ queue # <<>>
          /\ running' = [running EXCEPT ![w] = Head(queue)]
          /\ queue' = Tail(queue)
          /\ futures' = futures /\ inbox' = inbox
      BY <1>2 DEF Take
    <2>2. /\ Head(queue) = queue[1] /\ Head(queue) \in Jobs
          /\ \A i \in DOMAIN queue \ {1} : i - 1 \in DOMAIN queue' /\ queue'[i - 1] = queue[i]
      <3>1. queue \in Seq(Jobs)
        BY DEF IInv, TypeOK
      <3> QED
        BY <2>1, <3>1, HeadTailProperties
    <2>3. running'[w] = queue[1] /\ running'[w] # NoJob
      BY <2>1, <2>2, NoJobAssumption DEF IInv, TypeOK
    <2>4. \A v \in Workers \ {w} : running'[v] = running[v]
      BY <2>1 DEF IInv, TypeOK
    <2>5. ASSUME NEW p \in Ports
          PROVE  /\ Queued(p) => Queued(p)' \/ Running(p)'
                 /\ Posted(p) => Posted(p)'
                 /\ Running(p) => Running(p)'
      <3>1. Queued(p) => Queued(p)' \/ Running(p)'
        BY <2>2, <2>3 DEF Queued, Running
      <3> QED
        BY <2>1, <2>4, <3>1 DEF Posted, Running
    <2> QED
      BY <2>1, <2>5 DEF AtLeastOne
  <1>3. ASSUME NEW w \in Workers, Finish(w) PROVE AtLeastOne'
    <2>1. PICK o \in Run(running[w].call) :
             inbox' = Append(inbox, Post(running[w].port, Reply(o)))
      BY <1>3 DEF Finish
    <2>2. PICK c \in Calls : running[w].call = Meant(c)
      BY <1>3 DEF Finish, IInv, TasksMeanTheirCalls, TaskMeansItsCall
    <2>3. running[w].port \in Ports
      BY <1>3 DEF Finish, IInv, TypeOK, Jobs
    <2>4. Post(running[w].port, Reply(o)) \in Posts
      BY <2>2, <2>3 DEF Posts, Post, Messages, Outcomes
    <2> QED
      BY <1>3, <2>1, <2>4, PostCarries DEF Finish
  <1>4. ASSUME NEW w \in Workers, PanicInTask(w) PROVE AtLeastOne'
    <2>1. PICK c \in Calls : running[w].call = Meant(c)
      BY <1>4 DEF PanicInTask, IInv, TasksMeanTheirCalls, TaskMeansItsCall
    <2>2. running[w].port \in Ports
      BY <1>4 DEF PanicInTask, IInv, TypeOK, Jobs
    <2>3. Post(running[w].port, Reply(PanicOutcome)) \in Posts
      BY <2>1, <2>2 DEF Posts, Post, Messages, Outcomes
    <2> QED
      BY <1>4, <2>3, PostCarries DEF PanicInTask
  <1>5. ASSUME Deliver PROVE AtLeastOne'
    <2> DEFINE q == Head(inbox).port
    <2>1. /\ inbox # <<>> /\ inbox' = Tail(inbox)
          /\ queue' = queue /\ running' = running
          /\ futures' = [futures EXCEPT ![q] =
                 Completed(futures[q][2], Read(futures[q][2], Head(inbox).message))]
      BY <1>5 DEF Deliver
    <2>2. /\ Head(inbox) = inbox[1] /\ Head(inbox) \in Posts
          /\ \A i \in DOMAIN inbox \ {1} : i - 1 \in DOMAIN inbox' /\ inbox'[i - 1] = inbox[i]
      <3>1. inbox \in Seq(Posts)
        BY DEF IInv, TypeOK
      <3> QED
        BY <2>1, <3>1, HeadTailProperties
    <2>3. q \in Ports
      BY <2>2 DEF Posts
    <2>4. \A c \in Calls : futures'[q] # Waiting(c)
      BY <2>1, <2>3, FutureStates DEF IInv, TypeOK
    <2>5. \A p \in Ports \ {q} : futures'[p] = futures[p]
      BY <2>1 DEF IInv, TypeOK
    <2>6. ASSUME NEW p \in Ports \ {q}
          PROVE  /\ Queued(p) => Queued(p)'
                 /\ Posted(p) => Posted(p)'
                 /\ Running(p) => Running(p)'
      BY <2>1, <2>2 DEF Queued, Posted, Running
    <2> QED
      BY <2>4, <2>5, <2>6 DEF AtLeastOne
  <1>6. CASE UNCHANGED vars
    BY <1>6 DEF vars, AtLeastOne, Queued, Posted, Running
  <1> QED
    BY <1>1, <1>2, <1>3, <1>4, <1>5, <1>6 DEF Next

(* Between them the two halves pin down what is under way for each port.   *)
LEMMA ExactlyOne ==
    ASSUME IInv, AtLeastOne
    PROVE  OneAnswerPerCall
  <1> SUFFICES ASSUME NEW p \in Ports
               PROVE  IF \E c \in Calls : futures[p] = Waiting(c)
                      THEN \E x \in Pending(p) : Pending(p) = {x}
                      ELSE Pending(p) = {}
    BY DEF OneAnswerPerCall
  <1> DEFINE Q == {k \in DOMAIN queue : queue[k].port = p}
             W == {v \in Workers : running[v] # NoJob /\ running[v].port = p}
             I == {k \in DOMAIN inbox : inbox[k].port = p}
  <1>1. Pending(p) = {<<"queued", i>> : i \in Q} \cup {<<"running", w>> : w \in W}
                     \cup {<<"posted", i>> : i \in I}
    BY DEF Pending
  <1>2. /\ \A i, j \in Q : i = j
        /\ \A i, j \in I : i = j
        /\ \A v, w \in W : v = w
        /\ Q = {} \/ I = {}
        /\ Q = {} \/ W = {}
        /\ I = {} \/ W = {}
    BY DEF IInv, AtMostOne
  <1>3. CASE \E c \in Calls : futures[p] = Waiting(c)
    <2>1. Q # {} \/ W # {} \/ I # {}
      BY <1>3 DEF AtLeastOne, Queued, Running, Posted
    <2> HIDE DEF Q, W, I
    <2>2. \E x \in Pending(p) : Pending(p) = {x}
      <3>1. CASE Q # {}
        <4>1. PICK i \in Q : Q = {i} /\ W = {} /\ I = {}
          BY <1>2, <3>1
        <4>2. Pending(p) = {<<"queued", i>>}
          BY <1>1, <4>1
        <4> QED
          BY <4>2
      <3>2. CASE W # {}
        <4>1. PICK w \in W : W = {w} /\ Q = {} /\ I = {}
          BY <1>2, <3>2
        <4>2. Pending(p) = {<<"running", w>>}
          BY <1>1, <4>1
        <4> QED
          BY <4>2
      <3>3. CASE I # {}
        <4>1. PICK i \in I : I = {i} /\ Q = {} /\ W = {}
          BY <1>2, <3>3
        <4>2. Pending(p) = {<<"posted", i>>}
          BY <1>1, <4>1
        <4> QED
          BY <4>2
      <3> QED
        BY <2>1, <3>1, <3>2, <3>3
    <2> QED
      BY <1>3, <2>2
  <1>4. CASE ~ \E c \in Calls : futures[p] = Waiting(c)
    <2>1. Q = {} /\ W = {} /\ I = {}
      BY <1>4 DEF IInv, TasksMeanTheirCalls, TaskMeansItsCall, AnswersFitTheirFutures
    <2> HIDE DEF Q, W, I
    <2>2. Pending(p) = {}
      BY <1>1, <2>1
    <2> QED
      BY <1>4, <2>2
  <1> QED
    BY <1>3, <1>4

(* If the two generated halves of the bridge agree, a Future that waits    *)
(* has exactly one task or answer under way, and any other has none.       *)
THEOREM EachCallIsAnsweredOnce ==
    ASSUME CodecRoundTrips
    PROVE  Spec => []OneAnswerPerCall
  <1>1. Init => IInv /\ AtLeastOne
    BY InitEstablishes, FutureStates DEF Init, AtLeastOne
  <1>2. IInv /\ AtLeastOne /\ [Next]_vars => IInv' /\ AtLeastOne'
    BY StepSimulates, StepCarries
  <1>3. IInv /\ AtLeastOne => OneAnswerPerCall
    BY ExactlyOne
  <1> QED
    BY <1>1, <1>2, <1>3, PTL DEF Spec
-----------------------------------------------------------------------------
(* The generated halves of the bridge.  The generator wrote two tables of  *)
(* numbers and parameters and two sets of routines, one in each language;  *)
(* that they fit together is a fact about those tables and routines, and   *)
(* it is the hypothesis CodecRoundTrips of the theorems above.  It is      *)
(* proved here by following a cursor: Lies says what stands in a message   *)
(* from a position on, and each Reads lemma that a decoder which starts    *)
(* where an encoding stands returns the value and stops where the encoding *)
(* ends.  The two decoders that loop are recursive functions: each is      *)
(* shown, by induction over its argument, to return the items so far and   *)
(* the place where the next one begins.                                    *)

(* The cells of s stand in b after its first pos cells.                    *)
Lies(b, pos, s) == pos + Len(s) <= Len(b) /\ \A i \in 1..Len(s) : b[pos + i] = s[i]

(* A row is a sequence over the set of its own cells.                      *)
LEMMA RowIsSeq ==
    ASSUME NEW s, IsRow(s), NEW S, \A i \in 1..Len(s) : s[i] \in S
    PROVE  s \in Seq(S)
<1> DEFINE n == Len(s)
<1>1. n \in Nat /\ s = [i \in 1..n |-> s[i]]
  BY DEF IsRow
<1> HIDE DEF n
<1>2. [i \in 1..n |-> s[i]] \in Seq(S)
  BY <1>1 DEF n
<1> QED
  BY <1>1, <1>2

LEMMA SeqIsRow ==
    ASSUME NEW S, NEW s \in Seq(S)
    PROVE  IsRow(s) /\ DOMAIN s = 1..Len(s)
BY DEF IsRow

LEMMA RowDomain ==
    ASSUME NEW s, IsRow(s)
    PROVE  DOMAIN s = 1..Len(s) /\ Len(s) \in Nat
BY DEF IsRow

(* Equal rows, cell by cell.                                               *)
LEMMA RowEqual ==
    ASSUME NEW s, NEW t, IsRow(s), IsRow(t), Len(s) = Len(t), \A i \in 1..Len(s) : s[i] = t[i]
    PROVE  s = t
<1>1. s = [i \in 1..Len(s) |-> s[i]] /\ t = [i \in 1..Len(s) |-> t[i]]
  BY DEF IsRow
<1>2. [i \in 1..Len(s) |-> s[i]] = [i \in 1..Len(s) |-> t[i]]
  OBVIOUS
<1> QED
  BY <1>1, <1>2, Zenon

(* Two rows one after the other.                                           *)
LEMMA RowConcat ==
    ASSUME NEW s, NEW t, IsRow(s), IsRow(t)
    PROVE  /\ IsRow(s \o t)
           /\ Len(s \o t) = Len(s) + Len(t)
           /\ \A i \in 1..Len(s) : (s \o t)[i] = s[i]
           /\ \A i \in 1..Len(t) : (s \o t)[Len(s) + i] = t[i]
<1> DEFINE S == {s[i] : i \in 1..Len(s)} \cup {t[i] : i \in 1..Len(t)}
<1>1. s \in Seq(S) /\ t \in Seq(S)
  <2>1. (\A i \in 1..Len(s) : s[i] \in S) /\ (\A i \in 1..Len(t) : t[i] \in S)
    OBVIOUS
  <2> HIDE DEF S
  <2> QED BY <2>1, RowIsSeq
<1>2. Len(s) \in Nat /\ Len(t) \in Nat
  BY RowDomain
<1> HIDE DEF S
<1>3. /\ s \o t \in Seq(S) /\ Len(s \o t) = Len(s) + Len(t)
      /\ \A i \in 1..(Len(s) + Len(t)) :
            (s \o t)[i] = IF i <= Len(s) THEN s[i] ELSE t[i - Len(s)]
  BY <1>1, ConcatProperties
<1>4. \A i \in 1..Len(s) : (s \o t)[i] = s[i]
  BY <1>2, <1>3
<1>5. \A i \in 1..Len(t) : (s \o t)[Len(s) + i] = t[i]
  BY <1>2, <1>3
<1> QED
  BY <1>3, <1>4, <1>5, SeqIsRow

(* A number in front of a row.                                             *)
LEMMA NumberInFront ==
    ASSUME NEW n, NEW t, IsRow(t)
    PROVE  /\ IsRow(<<n>> \o t)
           /\ Len(<<n>> \o t) = Len(t) + 1
           /\ (<<n>> \o t)[1] = n
           /\ \A i \in 1..Len(t) : (<<n>> \o t)[1 + i] = t[i]
<1>1. IsRow(<<n>>) /\ Len(<<n>>) = 1 /\ <<n>>[1] = n
  BY DEF IsRow
<1>2. Len(t) \in Nat
  BY RowDomain
<1> DEFINE s == <<n>>
<1> HIDE DEF s
<1>3. /\ IsRow(s \o t) /\ Len(s \o t) = 1 + Len(t)
      /\ \A i \in 1..1 : (s \o t)[i] = s[i]
      /\ \A i \in 1..Len(t) : (s \o t)[1 + i] = t[i]
  BY <1>1, RowConcat DEF s
<1> QED
  BY <1>1, <1>2, <1>3 DEF s

(* Where a concatenation lies, its parts lie.                              *)
LEMMA PartsLie ==
    ASSUME NEW b, NEW pos \in Nat, NEW s, NEW t, IsRow(b), IsRow(s), IsRow(t), Lies(b, pos, s \o t)
    PROVE  Lies(b, pos, s) /\ Lies(b, pos + Len(s), t)
<1>1. Len(s) \in Nat /\ Len(t) \in Nat /\ Len(b) \in Nat
  BY RowDomain
<1>2. /\ Len(s \o t) = Len(s) + Len(t)
      /\ \A i \in 1..Len(s) : (s \o t)[i] = s[i]
      /\ \A i \in 1..Len(t) : (s \o t)[Len(s) + i] = t[i]
  BY RowConcat
<1>3. \A i \in 1..Len(t) : b[(pos + Len(s)) + i] = t[i]
  <2> SUFFICES ASSUME NEW i \in 1..Len(t) PROVE b[(pos + Len(s)) + i] = t[i]
    OBVIOUS
  <2>1. Len(s) + i \in 1..Len(s \o t) /\ pos + (Len(s) + i) = (pos + Len(s)) + i
    BY <1>1, <1>2
  <2> QED BY <1>2, <2>1 DEF Lies
<1>4. \A i \in 1..Len(s) : b[pos + i] = s[i]
  BY <1>1, <1>2 DEF Lies
<1> QED
  BY <1>1, <1>2, <1>3, <1>4 DEF Lies

(* sse_decode_i32 reads back a number that Dart or Rust wrote.             *)
LEMMA ReadsNumber ==
    ASSUME NEW b, IsRow(b), NEW pos \in Nat, NEW k, NEW t, IsRow(t), Lies(b, pos, <<Num(k)>> \o t)
    PROVE  /\ sse_decode_i32(b, pos) = Got(k, pos + 1)
           /\ Lies(b, pos + 1, t)
<1> DEFINE s == <<Num(k)>>
<1>1. IsRow(s) /\ Len(s) = 1 /\ s[1] = Num(k)
  BY DEF IsRow
<1> HIDE DEF s
<1>2. Lies(b, pos, s) /\ Lies(b, pos + 1, t)
  BY <1>1, PartsLie DEF s
<1>3. pos < Len(b) /\ b[pos + 1] = Num(k) /\ Len(b) \in Nat
  BY <1>1, <1>2, RowDomain DEF Lies
<1>4. IsNum(Num(k)) /\ Num(k)[2] = k
  BY DEF IsNum, Num
<1> QED
  BY <1>2, <1>3, <1>4 DEF sse_decode_i32

(* A prefixed row, and what the two halves make of it.                     *)
LEMMA PrefixedRow ==
    ASSUME NEW cells, IsRow(cells)
    PROVE  IsRow(Prefixed(cells)) /\ Len(Prefixed(cells)) = Len(cells) + 1
BY NumberInFront DEF Prefixed

LEMMA MappedRow ==
    ASSUME NEW s, IsRow(s)
    PROVE  /\ IsRow(MapSeq(LowByte, s)) /\ Len(MapSeq(LowByte, s)) = Len(s)
           /\ IsRow(MapSeq(LowWord, s)) /\ Len(MapSeq(LowWord, s)) = Len(s)
           /\ \A i \in 1..Len(s) : MapSeq(LowWord, s)[i] = LowWord(s[i])
<1> DEFINE n == Len(s)
<1>1. n \in Nat /\ DOMAIN s = 1..n
  BY RowDomain
<1> HIDE DEF n
<1>2. /\ MapSeq(LowByte, s) = [i \in 1..n |-> LowByte(s[i])]
      /\ MapSeq(LowWord, s) = [i \in 1..n |-> LowWord(s[i])]
  BY <1>1 DEF MapSeq
<1>3. \A f : f = [i \in 1..n |-> f[i]] => IsRow(f) /\ Len(f) = n
  BY <1>1 DEF IsRow
<1> QED
  BY <1>1, <1>2, <1>3 DEF n

(* What the steps of a decoder do with a read that succeeded.              *)
LEMMA GotFacts ==
    ASSUME NEW v, NEW pos
    PROVE  Got(v, pos).ok /\ Got(v, pos).v = v /\ Got(v, pos).pos = pos
BY DEF Got

LEMMA TypedGot ==
    ASSUME NEW type, NEW v, NEW pos
    PROVE  Typed(type, Got(v, pos)) = Got(<<type, v>>, pos)
BY GotFacts DEF Typed

LEMMA ItemsGot ==
    ASSUME NEW b, NEW v, NEW pos, pos + v <= Len(b)
    PROVE  Items(b, Got(v, pos)) = Got(SubSeq(b, pos + 1, pos + v), pos + v)
BY GotFacts DEF Items

LEMMA WordsGot ==
    ASSUME NEW v, NEW pos, \A i \in DOMAIN v : IsNum(v[i])
    PROVE  Words(Got(v, pos)) = Got([i \in DOMAIN v |-> v[i][2]], pos)
BY GotFacts DEF Words

LEMMA Utf8Got ==
    ASSUME NEW v, NEW pos, \A i \in DOMAIN v : IsNum(v[i]) => v[i][2] < U8 \div 2
    PROVE  Utf8(Got(v, pos)) = Got(v, pos)
BY GotFacts DEF Utf8

LEMMA TruthGot ==
    ASSUME NEW v, NEW pos
    PROVE  Truth(Got(v, pos)) = Got(v # 0, pos)
BY GotFacts DEF Truth

LEMMA LongerGot ==
    ASSUME NEW v, NEW pos, NEW w, NEW next
    PROVE  Longer(Got(v, pos), Got(w, next)) = Got(Append(v, w), next)
BY GotFacts DEF Longer

LEMMA CarriedGot ==
    ASSUME NEW kind, NEW v, NEW pos
    PROVE  Carried(kind, Got(v, pos)) = <<kind, v>>
BY GotFacts DEF Carried

LEMMA ReadsRow ==
    ASSUME NEW b, IsRow(b), NEW pos \in Nat, NEW cells, IsRow(cells),
           Lies(b, pos, Prefixed(cells))
    PROVE  sse_decode_Vec_u8(b, pos) = Got(cells, pos + Len(Prefixed(cells)))
<1> DEFINE n == Len(cells)
<1>1. n \in Nat /\ Len(b) \in Nat /\ cells = [i \in 1..n |-> cells[i]]
  BY RowDomain DEF IsRow
<1>2. sse_decode_i32(b, pos) = Got(n, pos + 1) /\ Lies(b, pos + 1, cells)
  BY ReadsNumber DEF Prefixed
<1>3. pos + 1 + n <= Len(b) /\ \A i \in 1..n : b[pos + 1 + i] = cells[i]
  BY <1>2 DEF Lies
<1> HIDE DEF n
<1>4. SubSeq(b, pos + 1 + 1, pos + 1 + n) = cells
  <2>1. SubSeq(b, pos + 1 + 1, pos + 1 + n) = [i \in 1..n |-> b[pos + 1 + i]]
    <3> DEFINE S == {b[i] : i \in 1..Len(b)}
    <3>1. b \in Seq(S)
      <4>1. \A i \in 1..Len(b) : b[i] \in S
        OBVIOUS
      <4> HIDE DEF S
      <4> QED BY <4>1, RowIsSeq
    <3> HIDE DEF S
    <3> QED BY <1>1, <1>3, <3>1
  <2>2. [i \in 1..n |-> b[pos + 1 + i]] = [i \in 1..n |-> cells[i]]
    BY <1>3
  <2> QED BY <1>1, <2>1, <2>2, Zenon
<1>5. sse_decode_Vec_u8(b, pos) = Got(cells, pos + 1 + n)
  <2>1. Items(b, Got(n, pos + 1)) = Got(cells, pos + 1 + n)
    <3> DEFINE q == pos + 1
    <3>1. q + n <= Len(b) /\ SubSeq(b, q + 1, q + n) = cells
      BY <1>3, <1>4
    <3> HIDE DEF q
    <3>2. Items(b, Got(n, q)) = Got(SubSeq(b, q + 1, q + n), q + n)
      BY <3>1, ItemsGot
    <3> QED BY <3>1, <3>2 DEF q
  <2> QED BY <1>2, <2>1 DEF sse_decode_Vec_u8
<1>6. pos + 1 + n = pos + Len(Prefixed(cells))
  <2>1. Len(Prefixed(cells)) = Len(cells) + 1
    BY PrefixedRow
  <2> QED BY <1>1, <2>1 DEF n
<1> QED
  BY <1>5, <1>6

LEMMA ReadsBytes ==
    ASSUME NEW b, IsRow(b), NEW pos \in Nat, NEW v, HasType("bytes", v),
           Lies(b, pos, dart_encode("bytes", v))
    PROVE  sse_decode("bytes", b, pos) = Got(Narrow(v), pos + Len(dart_encode("bytes", v)))
<1> DEFINE cells == MapSeq(LowByte, v[2])
<1>1. v = <<"bytes", v[2]>> /\ v[1] = "bytes" /\ IsRow(v[2])
  BY DEF HasType
<1>2. dart_encode("bytes", v) = Prefixed(cells) /\ Narrow(v) = <<"bytes", cells>>
  BY <1>1 DEF dart_encode, Narrow
<1>3. IsRow(cells)
  BY <1>1, MappedRow
<1> HIDE DEF cells
<1>4. sse_decode_Vec_u8(b, pos) = Got(cells, pos + Len(Prefixed(cells)))
  BY <1>2, <1>3, ReadsRow
<1>5. sse_decode("bytes", b, pos) = Typed("bytes", sse_decode_Vec_u8(b, pos))
  BY DEF sse_decode
<1> QED
  BY <1>2, <1>4, <1>5, TypedGot

LEMMA ReadsText ==
    ASSUME NEW b, IsRow(b), NEW pos \in Nat, NEW v, HasType("text", v),
           Lies(b, pos, Prefixed(v[2]))
    PROVE  sse_decode("text", b, pos) = Got(v, pos + Len(Prefixed(v[2])))
<1> DEFINE cells == v[2]
<1>1. v = <<"text", cells>> /\ IsString(cells)
  BY DEF HasType
<1>2. IsRow(cells) /\ \A i \in DOMAIN cells : IsNum(cells[i]) => cells[i][2] < U8 \div 2
  BY <1>1 DEF IsString
<1> HIDE DEF cells
<1>4. sse_decode_Vec_u8(b, pos) = Got(cells, pos + Len(Prefixed(cells)))
  BY <1>2, ReadsRow DEF cells
<1>5. sse_decode_String(b, pos) = Got(cells, pos + Len(Prefixed(cells)))
  BY <1>2, <1>4, Utf8Got DEF sse_decode_String
<1>6. sse_decode("text", b, pos) = Typed("text", sse_decode_String(b, pos))
  BY DEF sse_decode
<1> QED
  BY <1>1, <1>5, <1>6, TypedGot DEF cells

LEMMA ReadsWords ==
    ASSUME NEW b, IsRow(b), NEW pos \in Nat, NEW v, HasType("words", v),
           Lies(b, pos, dart_encode("words", v))
    PROVE  sse_decode("words", b, pos) = Got(Narrow(v), pos + Len(dart_encode("words", v)))
<1> DEFINE n == Len(v[2])
           cells == MapSeq(LowWord, v[2])
           words == [i \in 1..n |-> v[2][i] % U32]
<1>1. v = <<"words", v[2]>> /\ v[1] = "words" /\ IsRow(v[2])
  BY DEF HasType
<1>2. DOMAIN v[2] = 1..n /\ n \in Nat
  BY <1>1, RowDomain
<1>3. dart_encode("words", v) = Prefixed(cells) /\ Narrow(v) = <<"words", words>>
  BY <1>1, <1>2 DEF dart_encode, Narrow
<1>4. IsRow(cells) /\ Len(cells) = n /\ \A i \in 1..n : cells[i] = LowWord(v[2][i])
  BY <1>1, MappedRow
<1>5. DOMAIN cells = 1..n
  BY <1>4, RowDomain
<1> HIDE DEF cells
<1>6. sse_decode_Vec_u8(b, pos) = Got(cells, pos + Len(Prefixed(cells)))
  BY <1>3, <1>4, ReadsRow
<1>7. \A i \in 1..n : IsNum(cells[i]) /\ cells[i][2] = v[2][i] % U32
  BY <1>4 DEF LowWord, Num, IsNum
<1>8. [i \in DOMAIN cells |-> cells[i][2]] = words
  BY <1>5, <1>7
<1> HIDE DEF words, n
<1>9. sse_decode_Vec_u32(b, pos) = Got(words, pos + Len(Prefixed(cells)))
  BY <1>5, <1>6, <1>7, <1>8, WordsGot DEF sse_decode_Vec_u32
<1>10. sse_decode("words", b, pos) = Typed("words", sse_decode_Vec_u32(b, pos))
  BY DEF sse_decode
<1> QED
  BY <1>3, <1>9, <1>10, TypedGot

(* One cell.                                                               *)
LEMMA ReadsOne ==
    ASSUME NEW b, IsRow(b), NEW pos \in Nat, NEW k, Lies(b, pos, <<Num(k)>>)
    PROVE  sse_decode_i32(b, pos) = Got(k, pos + 1) /\ Len(<<Num(k)>>) = 1 /\ IsRow(<<Num(k)>>)
<1> DEFINE s == <<Num(k)>>
<1>1. IsRow(s) /\ Len(s) = 1 /\ s[1] = Num(k)
  BY DEF IsRow
<1>2. IsNum(Num(k)) /\ Num(k)[2] = k
  BY DEF IsNum, Num
<1> HIDE DEF s
<1>3. pos < Len(b) /\ b[pos + 1] = Num(k) /\ Len(b) \in Nat
  BY <1>1, RowDomain DEF Lies, s
<1> QED
  BY <1>1, <1>2, <1>3 DEF sse_decode_i32, s

LEMMA ReadsInteger ==
    ASSUME NEW b, IsRow(b), NEW pos \in Nat, NEW type \in {"u8", "u32"}, NEW v, HasType(type, v),
           Lies(b, pos, dart_encode(type, v))
    PROVE  sse_decode(type, b, pos) = Got(Narrow(v), pos + Len(dart_encode(type, v)))
<1> DEFINE k == IF type = "u8" THEN v[2] % U8 ELSE v[2] % U32
<1>1. v = <<type, v[2]>> /\ v[1] = type
  BY DEF HasType
<1>2. dart_encode(type, v) = <<Num(k)>>
  BY DEF dart_encode, LowWord
<1>3. Narrow(v) = <<type, k>>
  BY <1>1 DEF Narrow
<1> HIDE DEF k
<1>4. sse_decode_i32(b, pos) = Got(k, pos + 1) /\ Len(<<Num(k)>>) = 1
  BY <1>2, ReadsOne
<1>5. sse_decode(type, b, pos) = Typed(type, sse_decode_i32(b, pos))
  BY DEF sse_decode
<1> QED
  BY <1>2, <1>3, <1>4, <1>5, TypedGot

(* A truth value, as either half writes it.                                *)
LEMMA ReadsBool ==
    ASSUME NEW b, IsRow(b), NEW pos \in Nat, NEW v, HasType("bool", v),
           Lies(b, pos, <<Num(IF v[2] THEN 1 ELSE 0)>>)
    PROVE  sse_decode("bool", b, pos) = Got(v, pos + Len(<<Num(IF v[2] THEN 1 ELSE 0)>>))
<1> DEFINE k == IF v[2] THEN 1 ELSE 0
<1>1. v = <<"bool", v[2]>> /\ v[2] \in BOOLEAN
  BY DEF HasType
<1>2. (k # 0) = v[2]
  BY <1>1
<1> HIDE DEF k
<1>3. sse_decode_i32(b, pos) = Got(k, pos + 1) /\ Len(<<Num(k)>>) = 1
  BY ReadsOne DEF k
<1>4. sse_decode_bool(b, pos) = Got(k # 0, pos + 1)
  BY <1>3, TruthGot DEF sse_decode_bool
<1>5. sse_decode("bool", b, pos) = Typed("bool", sse_decode_bool(b, pos))
  BY DEF sse_decode
<1>6. Got(k # 0, pos + 1) = Got(v[2], pos + 1)
  BY <1>2
<1>7. sse_decode("bool", b, pos) = Got(<<"bool", v[2]>>, pos + 1)
  BY <1>4, <1>5, <1>6, TypedGot
<1> QED
  BY <1>1, <1>3, <1>7 DEF k

(* A sequence is what stands up to k and what stands after.                *)
LEMMA SplitSeq ==
    ASSUME NEW T, NEW s \in Seq(T), NEW k \in 0..Len(s)
    PROVE  s = SubSeq(s, 1, k) \o SubSeq(s, k + 1, Len(s))
<1> DEFINE n == Len(s)
           l == SubSeq(s, 1, k)
           r == SubSeq(s, k + 1, n)
<1>1. n \in Nat /\ k \in Nat /\ k <= n
  OBVIOUS
<1>2. l \in Seq(T) /\ Len(l) = k /\ \A i \in 1..k : l[i] = s[i]
  BY <1>1
<1>3. r \in Seq(T) /\ Len(r) = n - k /\ \A i \in 1..(n - k) : r[i] = s[k + i]
  <2>1. r \in Seq(T) /\ Len(r) = n - k
    BY <1>1
  <2>2. \A i \in 1..(n - k) : r[i] = s[k + i]
    BY <1>1
  <2> QED BY <2>1, <2>2
<1> HIDE DEF l, r
<1>4. /\ l \o r \in Seq(T) /\ Len(l \o r) = n
      /\ \A i \in 1..n : (l \o r)[i] = IF i <= k THEN l[i] ELSE r[i - k]
  BY <1>1, <1>2, <1>3, ConcatProperties
<1>5. ASSUME NEW i \in 1..n PROVE s[i] = (l \o r)[i]
  <2>1. CASE i <= k
    BY <1>1, <1>2, <1>4, <2>1
  <2>2. CASE ~(i <= k)
    <3>1. i - k \in 1..(n - k) /\ k + (i - k) = i
      BY <1>1, <2>2
    <3> QED BY <1>3, <1>4, <2>2, <3>1
  <2> QED BY <2>1, <2>2
<1>6. s = l \o r
  BY <1>4, <1>5, SeqEqual
<1> QED
  BY <1>6 DEF l, r

(* How far the first k of a row of parts reach.                            *)
Off(P, k) == Len(FlattenSeq(SubSeq(P, 1, k)))

(* Parts written one after the other: each lies where those before it end. *)
LEMMA NextPartLies ==
    ASSUME NEW P, IsRow(P), \A k \in 1..Len(P) : IsRow(P[k])
    PROVE  /\ IsRow(FlattenSeq(P))
           /\ Off(P, 0) = 0
           /\ Off(P, Len(P)) = Len(FlattenSeq(P))
           /\ \A k \in 1..Len(P) : /\ Off(P, k - 1) \in Nat
                                   /\ Lies(FlattenSeq(P), Off(P, k - 1), P[k])
                                   /\ Off(P, k) = Off(P, k - 1) + Len(P[k])
<1> DEFINE S == UNION {{P[k][i] : i \in 1..Len(P[k])} : k \in 1..Len(P)}
           b == FlattenSeq(P)
           n == Len(P)
<1>1. n \in Nat /\ DOMAIN P = 1..n
  BY RowDomain
<1>2. \A k \in 1..n : P[k] \in Seq(S)
  <2> SUFFICES ASSUME NEW k \in 1..n PROVE P[k] \in Seq(S)
    OBVIOUS
  <2>1. \A i \in 1..Len(P[k]) : P[k][i] \in S
    OBVIOUS
  <2> HIDE DEF S
  <2> QED BY <2>1, RowIsSeq
<1> HIDE DEF S
<1>3. P \in Seq(Seq(S))
  BY <1>2, RowIsSeq
<1>4. <<>> \in Seq(S)
  OBVIOUS
<1>5. \A Q \in Seq(Seq(S)) : FlattenSeq(Q) \in Seq(S)
  BY <1>4, FlattenAppend
<1>6. IsRow(b)
  BY <1>3, <1>5, SeqIsRow
<1>7. Off(P, 0) = 0
  <2>1. SubSeq(P, 1, 0) = <<>>
    BY <1>3
  <2>2. Off(P, 0) = Len(<<>>)
    BY <2>1, FlattenEmpty DEF Off
  <2> QED BY <2>2
<1>8. Off(P, n) = Len(b)
  <2>1. SubSeq(P, 1, n) = P
    BY <1>1, <1>3
  <2> QED BY <2>1 DEF Off
<1>9. ASSUME NEW k \in 1..n
      PROVE  Off(P, k - 1) \in Nat /\ Lies(b, Off(P, k - 1), P[k])
             /\ Off(P, k) = Off(P, k - 1) + Len(P[k])
  <2> DEFINE pre == SubSeq(P, 1, k - 1)
             post == SubSeq(P, k + 1, n)
             f == FlattenSeq(pre)
             g == FlattenSeq(post)
  <2>1. pre \in Seq(Seq(S)) /\ post \in Seq(Seq(S)) /\ P[k] \in Seq(S)
    BY <1>1, <1>2, <1>3
  <2>2. SubSeq(P, 1, k) = Append(pre, P[k])
    BY <1>1, <1>3
  <2>3. P = SubSeq(P, 1, k) \o post
    BY <1>3, SplitSeq
  <2>4. f \in Seq(S) /\ g \in Seq(S)
    BY <1>5, <2>1
  <2> HIDE DEF pre, post
  <2>5. FlattenSeq(Append(pre, P[k])) = f \o P[k] /\ Append(pre, P[k]) \in Seq(Seq(S))
    <3>1. Append(pre, P[k]) \in Seq(Seq(S))
      BY <2>1, AppendProperties
    <3>2. FlattenSeq(Append(pre, P[k])) = FlattenSeq(pre) \o P[k]
      BY <2>1, FlattenAppend, Zenon
    <3> QED BY <3>1, <3>2
  <2>6. b = (f \o P[k]) \o g
    <3>1. P = Append(pre, P[k]) \o post
      BY <2>2, <2>3
    <3>2. FlattenSeq(Append(pre, P[k]) \o post) = FlattenSeq(Append(pre, P[k])) \o FlattenSeq(post)
      BY <2>1, <2>5, FlattenConcat, Zenon
    <3> QED BY <2>5, <3>1, <3>2
  <2> HIDE DEF f, g, b
  <2>7. /\ Len(f) \in Nat /\ Len(g) \in Nat /\ Len(P[k]) \in Nat /\ f \o P[k] \in Seq(S)
        /\ Len(f \o P[k]) = Len(f) + Len(P[k]) /\ Len(b) = Len(f) + Len(P[k]) + Len(g)
    BY <2>1, <2>4, <2>6, ConcatProperties
  <2>8. \A i \in 1..Len(P[k]) : b[Len(f) + i] = P[k][i]
    <3> SUFFICES ASSUME NEW i \in 1..Len(P[k]) PROVE b[Len(f) + i] = P[k][i]
      OBVIOUS
    <3> DEFINE w == f \o P[k]
               j == Len(f) + i
    <3>1. b[Len(f) + i] = (f \o P[k])[Len(f) + i]
      <4>1. w \in Seq(S) /\ j \in 1..Len(w) /\ b = w \o g
        BY <2>6, <2>7
      <4> HIDE DEF w, j
      <4>2. (w \o g)[j] = w[j]
        BY <2>4, <4>1, ConcatProperties
      <4> QED BY <4>1, <4>2 DEF w, j
    <3>2. (f \o P[k])[Len(f) + i] = P[k][i]
      BY <2>1, <2>4, <2>7, ConcatProperties
    <3> QED BY <3>1, <3>2
  <2> QED
    <3>1. Off(P, k - 1) = Len(f)
      BY DEF Off, f, pre
    <3>2. Off(P, k) = Len(f \o P[k])
      BY <2>2, <2>5 DEF Off
    <3> DEFINE e == P[k]
    <3>3. Len(f) + Len(e) <= Len(b) /\ \A i \in 1..Len(e) : b[Len(f) + i] = e[i]
      BY <2>7, <2>8
    <3> HIDE DEF e
    <3>4. Lies(b, Len(f), e)
      BY <3>3 DEF Lies
    <3> QED BY <2>7, <3>1, <3>2, <3>4 DEF e
<1> QED
  BY <1>6, <1>7, <1>8, <1>9

(* Reading a list, and reading arguments, item by item: a function F that   *)
(* reads the items in order is what the recursive definitions compute.     *)
LEMMA ListsRead ==
    ASSUME NEW b, NEW len, len.ok, len.v \in Nat, NEW F,
           F = [k \in 0..len.v |-> F[k]], F[0] = Got(<<>>, len.pos),
           \A k \in 1..len.v : F[k] = Longer(F[k - 1], sse_decode_Vec_u8(b, F[k - 1].pos))
    PROVE  Lists(b, len) = F[len.v]
<1> DEFINE n == len.v
           Def(f) == f = [k \in 0..len.v |-> IF k = 0 THEN Got(<<>>, len.pos)
                                          ELSE Longer(f[k - 1], sse_decode_Vec_u8(b, f[k - 1].pos))]
           h == CHOOSE f : Def(f)
           T == {k \in Nat : k <= n => h[k] = F[k]}
<1>1. Lists(b, len) = h[n]
  BY DEF Lists
<1>2. n \in Nat
  OBVIOUS
<1>3. Def(F)
  <2> DEFINE G == [k \in 0..n |-> IF k = 0 THEN Got(<<>>, len.pos) ELSE Longer(F[k - 1], sse_decode_Vec_u8(b, F[k - 1].pos))]
  <2>1. ASSUME NEW k \in 0..n PROVE F[k] = G[k]
    <3>1. CASE k = 0
      BY <3>1
    <3>2. CASE k # 0
      <4>1. k \in 1..n
        BY <1>2, <3>2
      <4> QED BY <3>2, <4>1
    <3> QED BY <3>1, <3>2
  <2>2. F = G
    BY <2>1
  <2> QED BY <2>2
<1>4. Def(h)
  <2> HIDE DEF Def
  <2> QED BY <1>3
<1>5. \A k \in 0..n : h[k] = IF k = 0 THEN Got(<<>>, len.pos) ELSE Longer(h[k - 1], sse_decode_Vec_u8(b, h[k - 1].pos))
  <2> DEFINE H == h
  <2>1. Def(H)
    BY <1>4
  <2> HIDE DEF H
  <2>2. \A k \in 0..n : H[k] = IF k = 0 THEN Got(<<>>, len.pos) ELSE Longer(H[k - 1], sse_decode_Vec_u8(b, H[k - 1].pos))
    BY <2>1
  <2> QED BY <2>2 DEF H
<1> HIDE DEF h, n, Def
<1>6. 0 \in T
  BY <1>2, <1>5 DEF n
<1>7. ASSUME NEW k \in Nat, k \in T PROVE k + 1 \in T
  <2> SUFFICES ASSUME k + 1 <= n PROVE h[k + 1] = F[k + 1]
    OBVIOUS
  <2>1. k + 1 \in 1..n /\ k + 1 \in 0..n /\ k + 1 # 0 /\ (k + 1) - 1 = k /\ h[k] = F[k]
    BY <1>2, <1>7
  <2>2. h[k + 1] = Longer(h[k], sse_decode_Vec_u8(b, h[k].pos))
    BY <1>5, <2>1
  <2>3. F[k + 1] = Longer(F[k], sse_decode_Vec_u8(b, F[k].pos))
    BY <2>1 DEF n
  <2> QED BY <2>1, <2>2, <2>3
<1> HIDE DEF T
<1>8. n \in T
  BY <1>2, <1>6, <1>7, NatSetInduction
<1> QED
  BY <1>1, <1>2, <1>8 DEF T, n

(* The same for the arguments of a call.                                   *)
LEMMA ArgsRead ==
    ASSUME NEW b, NEW args, Len(args) \in Nat, NEW F,
           F = [k \in 0..Len(args) |-> F[k]], F[0] = Got(<<>>, 0),
           \A k \in 1..Len(args) : F[k] = Longer(F[k - 1], sse_decode(args[k][2], b, F[k - 1].pos))
    PROVE  DecodeArgs(args, b) = F[Len(args)]
<1> DEFINE n == Len(args)
           Def(f) == f = [k \in 0..Len(args) |-> IF k = 0 THEN Got(<<>>, 0)
                                          ELSE Longer(f[k - 1], sse_decode(args[k][2], b, f[k - 1].pos))]
           h == CHOOSE f : Def(f)
           T == {k \in Nat : k <= n => h[k] = F[k]}
<1>1. DecodeArgs(args, b) = h[n]
  BY DEF DecodeArgs
<1>2. n \in Nat
  OBVIOUS
<1>3. Def(F)
  <2> DEFINE G == [k \in 0..n |-> IF k = 0 THEN Got(<<>>, 0) ELSE Longer(F[k - 1], sse_decode(args[k][2], b, F[k - 1].pos))]
  <2>1. ASSUME NEW k \in 0..n PROVE F[k] = G[k]
    <3>1. CASE k = 0
      BY <3>1
    <3>2. CASE k # 0
      <4>1. k \in 1..n
        BY <1>2, <3>2
      <4> QED BY <3>2, <4>1
    <3> QED BY <3>1, <3>2
  <2>2. F = G
    BY <2>1
  <2> QED BY <2>2
<1>4. Def(h)
  <2> HIDE DEF Def
  <2> QED BY <1>3
<1>5. \A k \in 0..n : h[k] = IF k = 0 THEN Got(<<>>, 0) ELSE Longer(h[k - 1], sse_decode(args[k][2], b, h[k - 1].pos))
  <2> DEFINE H == h
  <2>1. Def(H)
    BY <1>4
  <2> HIDE DEF H
  <2>2. \A k \in 0..n : H[k] = IF k = 0 THEN Got(<<>>, 0) ELSE Longer(H[k - 1], sse_decode(args[k][2], b, H[k - 1].pos))
    BY <2>1
  <2> QED BY <2>2 DEF H
<1> HIDE DEF h, n, Def
<1>6. 0 \in T
  BY <1>2, <1>5 DEF n
<1>7. ASSUME NEW k \in Nat, k \in T PROVE k + 1 \in T
  <2> SUFFICES ASSUME k + 1 <= n PROVE h[k + 1] = F[k + 1]
    OBVIOUS
  <2>1. k + 1 \in 1..n /\ k + 1 \in 0..n /\ k + 1 # 0 /\ (k + 1) - 1 = k /\ h[k] = F[k]
    BY <1>2, <1>7
  <2>2. h[k + 1] = Longer(h[k], sse_decode(args[k + 1][2], b, h[k].pos))
    BY <1>5, <2>1
  <2>3. F[k + 1] = Longer(F[k], sse_decode(args[k + 1][2], b, F[k].pos))
    BY <2>1 DEF n
  <2> QED BY <2>1, <2>2, <2>3
<1> HIDE DEF T
<1>8. n \in T
  BY <1>2, <1>6, <1>7, NatSetInduction
<1> QED
  BY <1>1, <1>2, <1>8 DEF T, n

(* A part of a part.                                                       *)
LEMMA LiesWithin ==
    ASSUME NEW b, NEW w, NEW e, NEW q \in Nat, NEW o \in Nat, IsRow(b), IsRow(w), IsRow(e),
           Lies(b, q, w), Lies(w, o, e)
    PROVE  Lies(b, q + o, e)
<1>1. Len(b) \in Nat /\ Len(w) \in Nat /\ Len(e) \in Nat
  BY RowDomain
<1>2. ASSUME NEW i \in 1..Len(e) PROVE b[(q + o) + i] = e[i]
  <2>1. o + i \in 1..Len(w) /\ q + (o + i) = (q + o) + i
    BY <1>1 DEF Lies
  <2> QED BY <2>1 DEF Lies
<1>3. (q + o) + Len(e) <= Len(b)
  BY <1>1 DEF Lies
<1> QED
  BY <1>2, <1>3 DEF Lies

LEMMA ReachesFurther ==
    ASSUME NEW s, IsRow(s)
    PROVE  /\ SubSeq(s, 1, 0) = <<>>
           /\ SubSeq(s, 1, Len(s)) = s
           /\ \A k \in 1..Len(s) : SubSeq(s, 1, k) = Append(SubSeq(s, 1, k - 1), s[k])
<1> DEFINE S == {s[i] : i \in 1..Len(s)}
<1>1. s \in Seq(S)
  <2>1. \A i \in 1..Len(s) : s[i] \in S
    OBVIOUS
  <2> HIDE DEF S
  <2> QED BY <2>1, RowIsSeq
<1> HIDE DEF S
<1> QED
  BY <1>1

(* sse_decode_Vec_Vec_u8 reads back the claims Dart wrote.                 *)
LEMMA ReadsClaims ==
    ASSUME NEW b, IsRow(b), NEW pos \in Nat, NEW v, HasType("claims", v),
           Lies(b, pos, dart_encode("claims", v))
    PROVE  /\ IsRow(dart_encode("claims", v))
           /\ sse_decode("claims", b, pos) = Got(v, pos + Len(dart_encode("claims", v)))
<1> DEFINE rows == v[2]
           n == Len(rows)
           P == MapSeq(Prefixed, rows)
           body == FlattenSeq(P)
           q == pos + 1
           F == [k \in 0..n |-> Got(SubSeq(rows, 1, k), q + Off(P, k))]
<1>1. v = <<"claims", rows>> /\ IsRow(rows) /\ \A i \in DOMAIN rows : IsRow(rows[i])
  BY DEF HasType
<1>2. n \in Nat /\ DOMAIN rows = 1..n
  BY <1>1, RowDomain
<1>3. dart_encode("claims", v) = <<Num(n)>> \o body
  BY DEF dart_encode
<1> HIDE DEF rows
<1>4. IsRow(P) /\ Len(P) = n /\ \A k \in 1..n : P[k] = Prefixed(rows[k]) /\ IsRow(P[k])
  <2> HIDE DEF n
  <2>1. P = [k \in 1..n |-> Prefixed(rows[k])]
    BY <1>2 DEF MapSeq
  <2>2. IsRow(P) /\ Len(P) = n
    BY <1>2, <2>1 DEF IsRow
  <2> QED BY <1>1, <1>2, <2>1, <2>2, PrefixedRow
<1> HIDE DEF P
<1>5. /\ IsRow(body) /\ Off(P, 0) = 0 /\ Off(P, n) = Len(body)
      /\ \A k \in 1..n : /\ Off(P, k - 1) \in Nat
                         /\ Lies(body, Off(P, k - 1), P[k])
                         /\ Off(P, k) = Off(P, k - 1) + Len(P[k])
  BY <1>4, NextPartLies
<1> HIDE DEF body, n
<1>6. sse_decode_i32(b, pos) = Got(n, q) /\ Lies(b, q, body)
  BY <1>3, <1>5, ReadsNumber
<1>7. IsRow(<<Num(n)>> \o body) /\ Len(<<Num(n)>> \o body) = Len(body) + 1 /\ Len(body) \in Nat
  BY <1>5, NumberInFront, RowDomain
<1>8. /\ \A k \in 0..n : F[k] = Got(SubSeq(rows, 1, k), q + Off(P, k))
      /\ F = [k \in 0..n |-> F[k]]
      /\ q \in Nat
  OBVIOUS
<1> HIDE DEF F
<1>9. F[0] = Got(<<>>, q)
  <2>1. SubSeq(rows, 1, 0) = <<>> /\ q + Off(P, 0) = q
    BY <1>1, <1>5, ReachesFurther
  <2>2. F[0] = Got(SubSeq(rows, 1, 0), q + Off(P, 0))
    BY <1>2, <1>8
  <2> QED BY <2>1, <2>2
<1>10. ASSUME NEW k \in 1..n
      PROVE  F[k] = Longer(F[k - 1], sse_decode_Vec_u8(b, F[k - 1].pos))
  <2> DEFINE p == q + Off(P, k - 1)
             cells == rows[k]
  <2>1. p \in Nat /\ IsRow(cells) /\ P[k] = Prefixed(cells)
    <3>1. q + Off(P, k - 1) \in Nat
      BY <1>5, <1>8
    <3> QED BY <1>1, <1>2, <1>4, <3>1
  <2>2. Lies(b, p, Prefixed(cells))
    BY <1>4, <1>5, <1>6, <2>1, LiesWithin
  <2>3. F[k - 1] = Got(SubSeq(rows, 1, k - 1), p)
    BY <1>2, <1>8
  <2>4. F[k] = Got(SubSeq(rows, 1, k), q + Off(P, k))
    BY <1>2, <1>8
  <2>5. p + Len(Prefixed(cells)) = q + Off(P, k)
    <3>1. Len(Prefixed(cells)) \in Nat
      BY <2>1, PrefixedRow, RowDomain
    <3> QED BY <1>5, <2>1, <3>1
  <2> HIDE DEF p, cells
  <2>6. sse_decode_Vec_u8(b, p) = Got(cells, q + Off(P, k))
    BY <2>1, <2>2, <2>5, ReadsRow
  <2>7. F[k - 1].pos = p
    BY <2>3, GotFacts
  <2>8. SubSeq(rows, 1, k) = Append(SubSeq(rows, 1, k - 1), cells)
    BY <1>1, ReachesFurther DEF n, cells
  <2> QED
    <3> DEFINE x == q + Off(P, k)
               sofar == SubSeq(rows, 1, k - 1)
    <3> HIDE DEF x, sofar
    <3>1. Longer(Got(sofar, p), Got(cells, x)) = Got(Append(sofar, cells), x)
      BY LongerGot
    <3>2. F[k - 1] = Got(sofar, p) /\ sse_decode_Vec_u8(b, F[k - 1].pos) = Got(cells, x)
      BY <2>3, <2>6, <2>7 DEF sofar, x
    <3>3. F[k] = Got(Append(sofar, cells), x)
      BY <2>4, <2>8 DEF sofar, x
    <3> QED BY <3>1, <3>2, <3>3
<1>11. Lists(b, Got(n, q)) = F[n]
  <2> DEFINE len == Got(n, q)
  <2>1. len.ok /\ len.v = n /\ len.pos = q
    BY GotFacts
  <2> HIDE DEF len, q
  <2>2. /\ len.v \in Nat /\ F = [k \in 0..len.v |-> F[k]] /\ F[0] = Got(<<>>, len.pos)
        /\ \A k \in 1..len.v : F[k] = Longer(F[k - 1], sse_decode_Vec_u8(b, F[k - 1].pos))
    BY <1>2, <1>8, <1>9, <1>10, <2>1
  <2>3. Lists(b, len) = F[len.v]
    BY <2>1, <2>2, ListsRead, Zenon
  <2> QED BY <2>1, <2>3 DEF len
<1>12. F[n] = Got(rows, q + Len(body))
  <2>1. SubSeq(rows, 1, n) = rows
    BY <1>1, ReachesFurther DEF n
  <2>2. F[n] = Got(SubSeq(rows, 1, n), q + Off(P, n))
    BY <1>2, <1>8
  <2> QED BY <1>5, <2>1, <2>2
<1>13. sse_decode("claims", b, pos) = Typed("claims", sse_decode_Vec_Vec_u8(b, pos))
  BY DEF sse_decode
<1>14. sse_decode("claims", b, pos) = Got(<<"claims", rows>>, q + Len(body))
  BY <1>6, <1>11, <1>12, <1>13, TypedGot DEF sse_decode_Vec_Vec_u8
<1>15. q + Len(body) = pos + Len(<<Num(n)>> \o body)
  BY <1>7
<1> QED
  BY <1>1, <1>3, <1>7, <1>14, <1>15

(* What Dart writes for a value is a row of cells.                         *)
LEMMA EncodedRow ==
    ASSUME NEW type, NEW v, HasType(type, v), type # "pair"
    PROVE  IsRow(dart_encode(type, v))
<1>1. \A k : IsRow(<<k>>)
  BY DEF IsRow
<1>2. CASE type \in {"u8", "u32", "bool"}
  BY <1>1, <1>2 DEF dart_encode
<1>3. CASE type = "text"
  <2>1. IsRow(v[2]) /\ dart_encode(type, v) = Prefixed(v[2])
    BY <1>3 DEF HasType, IsString, dart_encode
  <2> QED BY <2>1, PrefixedRow
<1>4. CASE type = "bytes"
  <2>1. IsRow(v[2]) /\ dart_encode(type, v) = Prefixed(MapSeq(LowByte, v[2]))
    BY <1>4 DEF HasType, dart_encode
  <2>2. IsRow(MapSeq(LowByte, v[2]))
    BY <2>1, MappedRow
  <2> QED BY <2>1, <2>2, PrefixedRow
<1>5. CASE type = "words"
  <2>1. IsRow(v[2]) /\ dart_encode(type, v) = Prefixed(MapSeq(LowWord, v[2]))
    BY <1>5 DEF HasType, dart_encode
  <2>2. IsRow(MapSeq(LowWord, v[2]))
    BY <2>1, MappedRow
  <2> QED BY <2>1, <2>2, PrefixedRow
<1>6. CASE type = "claims"
  <2> DEFINE rows == v[2]
             n == Len(rows)
             P == MapSeq(Prefixed, rows)
  <2>1. IsRow(rows) /\ \A i \in DOMAIN rows : IsRow(rows[i])
    BY <1>6 DEF HasType
  <2>2. n \in Nat /\ DOMAIN rows = 1..n
    BY <2>1, RowDomain
  <2>3. dart_encode(type, v) = <<Num(n)>> \o FlattenSeq(P)
    BY <1>6 DEF dart_encode
  <2> HIDE DEF rows, n
  <2>4. P = [k \in 1..n |-> Prefixed(rows[k])]
    BY <2>2 DEF MapSeq
  <2>5. IsRow(P) /\ Len(P) = n
    BY <2>2, <2>4 DEF IsRow
  <2>6. \A k \in 1..n : IsRow(P[k])
    BY <2>1, <2>2, <2>4, PrefixedRow
  <2> HIDE DEF P
  <2>7. IsRow(FlattenSeq(P))
    BY <2>5, <2>6, NextPartLies
  <2> QED BY <2>3, <2>7, NumberInFront
<1> QED
  BY <1>2, <1>3, <1>4, <1>5, <1>6 DEF HasType

(* Whatever Dart writes for a value, the decoder of its type reads back,   *)
(* cut to its width, and it stops where the value ends.                    *)
LEMMA ReadsValue ==
    ASSUME NEW b, IsRow(b), NEW pos \in Nat, NEW type, NEW v, HasType(type, v), type # "pair",
           Lies(b, pos, dart_encode(type, v))
    PROVE  sse_decode(type, b, pos) = Got(Narrow(v), pos + Len(dart_encode(type, v)))
<1>1. CASE type \in {"u8", "u32"}
  BY <1>1, ReadsInteger
<1>2. CASE type = "bool"
  <2>1. v = <<"bool", v[2]>> /\ v[1] = "bool"
    BY <1>2 DEF HasType
  <2>2. dart_encode(type, v) = <<Num(IF v[2] THEN 1 ELSE 0)>> /\ Narrow(v) = v
    BY <1>2, <2>1 DEF dart_encode, Narrow
  <2> QED BY <1>2, <2>2, ReadsBool
<1>3. CASE type = "text"
  <2>1. v = <<"text", v[2]>> /\ v[1] = "text"
    BY <1>3 DEF HasType
  <2>2. dart_encode(type, v) = Prefixed(v[2]) /\ Narrow(v) = v
    BY <1>3, <2>1 DEF dart_encode, Narrow
  <2> QED BY <1>3, <2>2, ReadsText
<1>4. CASE type = "bytes"
  BY <1>4, ReadsBytes
<1>5. CASE type = "words"
  BY <1>5, ReadsWords
<1>6. CASE type = "claims"
  <2>1. v = <<"claims", v[2]>> /\ v[1] = "claims"
    BY <1>6 DEF HasType
  <2>2. Narrow(v) = v
    BY <2>1 DEF Narrow
  <2> QED BY <1>6, <2>2, ReadsClaims
<1> QED
  BY <1>1, <1>2, <1>3, <1>4, <1>5, <1>6 DEF HasType

(* The two tables agree: the number Dart calls a function by leads the     *)
(* dispatcher to the wire function of that name and those parameters.      *)
LEMMA TablesAgree ==
    ASSUME NEW f \in DOMAIN RustLibApiImpl
    PROVE  LET d == RustLibApiImpl[f]
               wire == pde_ffi_dispatcher_primary[d.funcId]
           IN /\ d.funcId \in DOMAIN pde_ffi_dispatcher_primary
              /\ wire.call = f /\ wire.args = d.args
<1> DEFINE t == pde_ffi_dispatcher_primary
<1>1. /\ DOMAIN t = 1..14
      /\ t[1] = wire_bbs_derive_proof /\ t[2] = wire_bbs_generate_keypair
      /\ t[3] = wire_bbs_sign_credential /\ t[4] = wire_bbs_verify_proof
      /\ t[5] = wire_compute_nullifier /\ t[6] = wire_did_from_public
      /\ t[7] = wire_generate_keypair /\ t[8] = wire_seed_derive_k1
      /\ t[9] = wire_seed_generate_mnemonic /\ t[10] = wire_semaphore_bind_nonce
      /\ t[11] = wire_semaphore_nullifier /\ t[12] = wire_sign
      /\ t[13] = wire_verify_signature /\ t[14] = wire_webauthn_verify
  BY DEF pde_ffi_dispatcher_primary
<1> HIDE DEF t
<1>2. f \in {"bbs_derive_proof", "bbs_generate_keypair", "bbs_sign_credential",
             "bbs_verify_proof", "compute_nullifier", "did_from_public", "generate_keypair",
             "seed_derive_k1", "seed_generate_mnemonic", "semaphore_bind_nonce",
             "semaphore_nullifier", "sign", "verify_signature", "webauthn_verify"}
  BY DEF RustLibApiImpl
<1>3. CASE f = "bbs_derive_proof"
  BY <1>1, <1>3 DEF RustLibApiImpl, DartFunction, wire_bbs_derive_proof, Wire, t
<1>4. CASE f = "bbs_generate_keypair"
  BY <1>1, <1>4 DEF RustLibApiImpl, DartFunction, wire_bbs_generate_keypair, Wire, t
<1>5. CASE f = "bbs_sign_credential"
  BY <1>1, <1>5 DEF RustLibApiImpl, DartFunction, wire_bbs_sign_credential, Wire, t
<1>6. CASE f = "bbs_verify_proof"
  BY <1>1, <1>6 DEF RustLibApiImpl, DartFunction, wire_bbs_verify_proof, Wire, t
<1>7. CASE f = "compute_nullifier"
  BY <1>1, <1>7 DEF RustLibApiImpl, DartFunction, wire_compute_nullifier, Wire, t
<1>8. CASE f = "did_from_public"
  BY <1>1, <1>8 DEF RustLibApiImpl, DartFunction, wire_did_from_public, Wire, t
<1>9. CASE f = "generate_keypair"
  BY <1>1, <1>9 DEF RustLibApiImpl, DartFunction, wire_generate_keypair, Wire, t
<1>10. CASE f = "seed_derive_k1"
  BY <1>1, <1>10 DEF RustLibApiImpl, DartFunction, wire_seed_derive_k1, Wire, t
<1>11. CASE f = "seed_generate_mnemonic"
  BY <1>1, <1>11 DEF RustLibApiImpl, DartFunction, wire_seed_generate_mnemonic, Wire, t
<1>12. CASE f = "semaphore_bind_nonce"
  BY <1>1, <1>12 DEF RustLibApiImpl, DartFunction, wire_semaphore_bind_nonce, Wire, t
<1>13. CASE f = "semaphore_nullifier"
  BY <1>1, <1>13 DEF RustLibApiImpl, DartFunction, wire_semaphore_nullifier, Wire, t
<1>14. CASE f = "sign"
  BY <1>1, <1>14 DEF RustLibApiImpl, DartFunction, wire_sign, Wire, t
<1>15. CASE f = "verify_signature"
  BY <1>1, <1>15 DEF RustLibApiImpl, DartFunction, wire_verify_signature, Wire, t
<1>16. CASE f = "webauthn_verify"
  BY <1>1, <1>16 DEF RustLibApiImpl, DartFunction, wire_webauthn_verify, Wire, t
<1> QED
  BY <1>2, <1>3, <1>4, <1>5, <1>6, <1>7, <1>8, <1>9, <1>10, <1>11,
     <1>12, <1>13, <1>14, <1>15, <1>16

LEMMA ArgumentsAreRows ==
    ASSUME NEW f \in DOMAIN RustLibApiImpl
    PROVE  /\ IsRow(RustLibApiImpl[f].args)
           /\ \A i \in DOMAIN RustLibApiImpl[f].args : RustLibApiImpl[f].args[i][2] # "pair"
<1> DEFINE args == RustLibApiImpl[f].args
           Fine == IsRow(args) /\ \A i \in DOMAIN args : args[i][2] # "pair"
<1> SUFFICES Fine
  OBVIOUS
<1>1. f \in {"bbs_derive_proof", "bbs_generate_keypair", "bbs_sign_credential",
             "bbs_verify_proof", "compute_nullifier", "did_from_public", "generate_keypair",
             "seed_derive_k1", "seed_generate_mnemonic", "semaphore_bind_nonce",
             "semaphore_nullifier", "sign", "verify_signature", "webauthn_verify"}
  BY DEF RustLibApiImpl
<1> HIDE DEF args, Fine
<1>2. CASE f = "bbs_derive_proof"
  <2>1. args = <<ClaimsArg, Vec("signature"), <<"reveal", "words">>, Vec("nonce")>>
    BY <1>2 DEF RustLibApiImpl, DartFunction, args
  <2> QED BY <2>1 DEF IsRow, Fine, Vec, Str, CurveArg, ClaimsArg
<1>3. CASE f = "bbs_generate_keypair"
  <2>1. args = << <<"message_count", "u32">> >>
    BY <1>3 DEF RustLibApiImpl, DartFunction, args
  <2> QED BY <2>1 DEF IsRow, Fine, Vec, Str, CurveArg, ClaimsArg
<1>4. CASE f = "bbs_sign_credential"
  <2>1. args = <<ClaimsArg, Vec("secret")>>
    BY <1>4 DEF RustLibApiImpl, DartFunction, args
  <2> QED BY <2>1 DEF IsRow, Fine, Vec, Str, CurveArg, ClaimsArg
<1>5. CASE f = "bbs_verify_proof"
  <2>1. args = <<Vec("proof"), Vec("public_key"), Vec("nonce")>>
    BY <1>5 DEF RustLibApiImpl, DartFunction, args
  <2> QED BY <2>1 DEF IsRow, Fine, Vec, Str, CurveArg, ClaimsArg
<1>6. CASE f = "compute_nullifier"
  <2>1. args = <<Vec("secret"), Vec("topic")>>
    BY <1>6 DEF RustLibApiImpl, DartFunction, args
  <2> QED BY <2>1 DEF IsRow, Fine, Vec, Str, CurveArg, ClaimsArg
<1>7. CASE f = "did_from_public"
  <2>1. args = <<CurveArg, Vec("public_key")>>
    BY <1>7 DEF RustLibApiImpl, DartFunction, args
  <2> QED BY <2>1 DEF IsRow, Fine, Vec, Str, CurveArg, ClaimsArg
<1>8. CASE f = "generate_keypair"
  <2>1. args = <<CurveArg>>
    BY <1>8 DEF RustLibApiImpl, DartFunction, args
  <2> QED BY <2>1 DEF IsRow, Fine, Vec, Str, CurveArg, ClaimsArg
<1>9. CASE f = "seed_derive_k1"
  <2>1. args = <<Str("mnemonic"), Str("passphrase")>>
    BY <1>9 DEF RustLibApiImpl, DartFunction, args
  <2> QED BY <2>1 DEF IsRow, Fine, Vec, Str, CurveArg, ClaimsArg
<1>10. CASE f = "seed_generate_mnemonic"
  <2>1. args = <<>>
    BY <1>10 DEF RustLibApiImpl, DartFunction, args
  <2> QED BY <2>1 DEF IsRow, Fine, Vec, Str, CurveArg, ClaimsArg
<1>11. CASE f = "semaphore_bind_nonce"
  <2>1. args = <<Vec("election_id"), Vec("nullifier"), Vec("signal")>>
    BY <1>11 DEF RustLibApiImpl, DartFunction, args
  <2> QED BY <2>1 DEF IsRow, Fine, Vec, Str, CurveArg, ClaimsArg
<1>12. CASE f = "semaphore_nullifier"
  <2>1. args = <<Vec("secret"), Vec("election_id")>>
    BY <1>12 DEF RustLibApiImpl, DartFunction, args
  <2> QED BY <2>1 DEF IsRow, Fine, Vec, Str, CurveArg, ClaimsArg
<1>13. CASE f = "sign"
  <2>1. args = <<CurveArg, Vec("secret"), Vec("msg")>>
    BY <1>13 DEF RustLibApiImpl, DartFunction, args
  <2> QED BY <2>1 DEF IsRow, Fine, Vec, Str, CurveArg, ClaimsArg
<1>14. CASE f = "verify_signature"
  <2>1. args = <<CurveArg, Vec("public_key"), Vec("msg"), Vec("sig")>>
    BY <1>14 DEF RustLibApiImpl, DartFunction, args
  <2> QED BY <2>1 DEF IsRow, Fine, Vec, Str, CurveArg, ClaimsArg
<1>15. CASE f = "webauthn_verify"
  <2>1. args = <<Vec("auth_data"), Vec("client_data_json"), Vec("signature"), Vec("challenge"),
                Vec("public_key"), Str("origin"), Str("rp_id"), <<"require_uv", "bool">> >>
    BY <1>15 DEF RustLibApiImpl, DartFunction, args
  <2> QED BY <2>1 DEF IsRow, Fine, Vec, Str, CurveArg, ClaimsArg
<1> QED
  BY <1>1, <1>2, <1>3, <1>4, <1>5, <1>6, <1>7, <1>8, <1>9, <1>10, <1>11,
     <1>12, <1>13, <1>14, <1>15

(* A call the type checkers let through arrives: the dispatcher prepares   *)
(* the function Dart named, with its arguments under their own names.      *)
LEMMA CallArrives ==
    ASSUME NEW c, TypedCall(c)
    PROVE  RustReceive(DartSend(c)) = <<"task", Narrowed(c)>>
<1> DEFINE f == c[1]
           d == RustLibApiImpl[f]
           args == d.args
           n == Len(args)
           a == c[2]
           P == [i \in 1..n |-> dart_encode(args[i][2], a[args[i][1]])]
           V == [i \in 1..n |-> Narrow(a[args[i][1]])]
           b == FlattenSeq(P)
           m == [funcId |-> d.funcId, data |-> b]
           wire == pde_ffi_dispatcher_primary[d.funcId]
           F == [k \in 0..n |-> Got(SubSeq(V, 1, k), Off(P, k))]
<1>1. /\ f \in DOMAIN RustLibApiImpl
      /\ DOMAIN a = {args[i][1] : i \in DOMAIN args}
      /\ \A i \in DOMAIN args : HasType(args[i][2], a[args[i][1]])
  BY DEF TypedCall
<1>2. /\ d.funcId \in DOMAIN pde_ffi_dispatcher_primary /\ wire.call = f /\ wire.args = args
      /\ IsRow(args) /\ \A i \in DOMAIN args : args[i][2] # "pair"
  BY <1>1, TablesAgree, ArgumentsAreRows
<1>3. n \in Nat /\ DOMAIN args = 1..n
  BY <1>2, RowDomain
<1>4. DartSend(c) = m
  BY <1>3 DEF DartSend, MapSeq
<1> HIDE DEF f, args, d, a, wire
<1>5. /\ IsRow(P) /\ Len(P) = n
      /\ \A k \in 1..n : P[k] = dart_encode(args[k][2], a[args[k][1]]) /\ IsRow(P[k])
  <2>1. \A k \in 1..n : P[k] = dart_encode(args[k][2], a[args[k][1]])
    OBVIOUS
  <2>2. P = [k \in 1..n |-> P[k]]
    OBVIOUS
  <2> HIDE DEF P, n
  <2>3. IsRow(P) /\ Len(P) = n
    BY <1>3, <2>2 DEF IsRow
  <2>4. \A k \in 1..n : IsRow(P[k])
    BY <1>1, <1>2, <1>3, <2>1, EncodedRow
  <2> QED BY <2>1, <2>3, <2>4
<1>6. IsRow(V) /\ Len(V) = n /\ \A k \in 1..n : V[k] = Narrow(a[args[k][1]])
  <2>1. \A k \in 1..n : V[k] = Narrow(a[args[k][1]])
    OBVIOUS
  <2>2. V = [k \in 1..n |-> V[k]]
    OBVIOUS
  <2> HIDE DEF V, n
  <2>3. IsRow(V) /\ Len(V) = n
    BY <1>3, <2>2 DEF IsRow
  <2> QED BY <2>1, <2>3
<1>7. /\ \A k \in 0..n : F[k] = Got(SubSeq(V, 1, k), Off(P, k))
      /\ F = [k \in 0..n |-> F[k]]
  OBVIOUS
<1> HIDE DEF P, V, n, F
<1>8. /\ IsRow(b) /\ Off(P, 0) = 0 /\ Off(P, n) = Len(b)
      /\ \A k \in 1..n : /\ Off(P, k - 1) \in Nat
                         /\ Lies(b, Off(P, k - 1), P[k])
                         /\ Off(P, k) = Off(P, k - 1) + Len(P[k])
  BY <1>5, NextPartLies
<1> HIDE DEF b
<1>9. F[0] = Got(<<>>, 0)
  <2>1. SubSeq(V, 1, 0) = <<>>
    BY <1>6, ReachesFurther
  <2>2. F[0] = Got(SubSeq(V, 1, 0), Off(P, 0))
    BY <1>3, <1>7
  <2> QED BY <1>8, <2>1, <2>2
<1>10. ASSUME NEW k \in 1..n
       PROVE  F[k] = Longer(F[k - 1], sse_decode(args[k][2], b, F[k - 1].pos))
  <2> DEFINE p == Off(P, k - 1)
             x == Off(P, k)
             type == args[k][2]
             v == a[args[k][1]]
             sofar == SubSeq(V, 1, k - 1)
  <2>1. /\ p \in Nat /\ Lies(b, p, dart_encode(type, v)) /\ x = p + Len(dart_encode(type, v))
        /\ HasType(type, v) /\ type # "pair" /\ V[k] = Narrow(v)
    BY <1>1, <1>2, <1>3, <1>5, <1>6, <1>8
  <2>2. F[k - 1] = Got(sofar, p) /\ F[k] = Got(SubSeq(V, 1, k), x)
    BY <1>3, <1>7
  <2>3. SubSeq(V, 1, k) = Append(sofar, V[k])
    BY <1>6, ReachesFurther
  <2> HIDE DEF p, x, type, v, sofar
  <2>4. sse_decode(type, b, p) = Got(Narrow(v), x)
    BY <1>8, <2>1, ReadsValue
  <2>5. F[k - 1].pos = p
    BY <2>2, GotFacts
  <2>6. Longer(Got(sofar, p), Got(Narrow(v), x)) = Got(Append(sofar, Narrow(v)), x)
    BY LongerGot
  <2>7. F[k] = Longer(F[k - 1], sse_decode(type, b, F[k - 1].pos))
    BY <2>1, <2>2, <2>3, <2>4, <2>5, <2>6
  <2> QED BY <2>7 DEF type
<1>11. DecodeArgs(args, b) = Got(V, Len(b))
  <2>1. DecodeArgs(args, b) = F[n]
    BY <1>3, <1>7, <1>9, <1>10, ArgsRead, Zenon DEF n
  <2>2. F[n] = Got(SubSeq(V, 1, n), Off(P, n)) /\ SubSeq(V, 1, n) = V
    BY <1>3, <1>6, <1>7, ReachesFurther
  <2> QED BY <1>8, <2>1, <2>2
<1>12. ByName(args, V) = [name \in DOMAIN a |-> Narrow(a[name])]
  <2>1. ASSUME NEW name \in DOMAIN a
        PROVE  V[CHOOSE i \in DOMAIN args : args[i][1] = name] = Narrow(a[name])
    <3> DEFINE j == CHOOSE i \in DOMAIN args : args[i][1] = name
    <3>1. \E i \in DOMAIN args : args[i][1] = name
      BY <1>1
    <3>2. j \in DOMAIN args /\ args[j][1] = name
      BY <3>1
    <3> HIDE DEF j
    <3>3. V[j] = Narrow(a[name])
      BY <1>3, <1>6, <3>2
    <3> QED BY <3>3 DEF j
  <2> QED BY <1>1, <2>1 DEF ByName
<1>13. Prepare(wire, m) = <<"task", <<f, ByName(args, V)>> >>
  <2>1. m.data = b /\ m.funcId = d.funcId
    OBVIOUS
  <2>2. Got(V, Len(b)).ok /\ Got(V, Len(b)).pos = Len(b) /\ Got(V, Len(b)).v = V
    BY GotFacts
  <2> HIDE DEF m
  <2> QED BY <1>2, <1>11, <2>1, <2>2 DEF Prepare, Task
<1>14. RustReceive(m) = Prepare(wire, m)
  <2>1. m.funcId = d.funcId
    OBVIOUS
  <2> HIDE DEF m
  <2> QED BY <1>2, <2>1 DEF RustReceive, wire
<1>15. Narrowed(c) = <<f, [name \in DOMAIN a |-> Narrow(a[name])]>>
  BY DEF Narrowed, f, a
<1> QED
  BY <1>4, <1>12, <1>13, <1>14, <1>15

LEMMA TwoAppended ==
    ASSUME NEW x, NEW y
    PROVE  Append(Append(<<>>, x), y) = <<x, y>>
<1> DEFINE S == {x, y}
           one == Append(<<>>, x)
           two == Append(one, y)
<1>1. <<>> \in Seq(S) /\ x \in S /\ y \in S /\ Len(<<>>) = 0 /\ <<x, y>> \in Seq(S)
  OBVIOUS
<1> HIDE DEF S
<1>2. one \in Seq(S) /\ Len(one) = 1 /\ one[1] = x
  <2> DEFINE nil == <<>>
  <2>1. nil \in Seq(S) /\ Len(nil) = 0
    BY <1>1
  <2> HIDE DEF nil
  <2>2. /\ Append(nil, x) \in Seq(S) /\ Len(Append(nil, x)) = Len(nil) + 1
        /\ Append(nil, x)[Len(nil) + 1] = x
    BY <1>1, <2>1, AppendProperties
  <2>3. one = Append(nil, x)
    BY DEF nil
  <2> HIDE DEF one
  <2> QED BY <2>1, <2>2, <2>3
<1> HIDE DEF one
<1>3. two \in Seq(S) /\ Len(two) = 2 /\ two[1] = x /\ two[2] = y
  <2>1. Append(one, y) \in Seq(S) /\ Len(Append(one, y)) = Len(one) + 1
    BY <1>1, <1>2, AppendProperties
  <2>2. \A i \in 1..Len(one) : Append(one, y)[i] = one[i]
    BY <1>1, <1>2, AppendProperties
  <2>3. Append(one, y)[Len(one) + 1] = y
    BY <1>1, <1>2, AppendProperties
  <2> QED BY <1>2, <2>1, <2>2, <2>3
<1> HIDE DEF two
<1>4. two = <<x, y>>
  <2>1. Len(<<x, y>>) = 2 /\ <<x, y>>[1] = x /\ <<x, y>>[2] = y
    OBVIOUS
  <2>2. \A i \in 1..Len(two) : two[i] = <<x, y>>[i]
    BY <1>3, <2>1
  <2> DEFINE pair == <<x, y>>
  <2>3. Len(pair) = 2 /\ (\A i \in 1..Len(two) : two[i] = pair[i]) /\ pair \in Seq(S)
    BY <1>1, <2>1, <2>2
  <2> HIDE DEF pair
  <2>4. two = pair
    BY <1>3, <2>3, SeqEqual
  <2> QED BY <2>4 DEF pair
<1> QED
  BY <1>4 DEF two, one

(* Whatever Rust writes for a value, Dart reads back.                      *)
LEMMA ReadsAnswer ==
    ASSUME NEW b, IsRow(b), NEW pos \in Nat, NEW type \in {"bool", "bytes", "text", "pair"},
           NEW v, HasType(type, v), Lies(b, pos, sse_encode(v))
    PROVE  \E end : sse_decode(type, b, pos) = Got(v, end)
<1>1. v = <<type, v[2]>> /\ v[1] = type
  BY DEF HasType
<1>2. CASE type = "bool"
  <2>1. sse_encode(v) = <<Num(IF v[2] THEN 1 ELSE 0)>>
    BY <1>1, <1>2 DEF sse_encode
  <2> QED BY <1>2, <2>1, ReadsBool
<1>3. CASE type = "text"
  <2>1. sse_encode(v) = Prefixed(v[2])
    BY <1>1, <1>3 DEF sse_encode
  <2> QED BY <1>3, <2>1, ReadsText
<1>4. CASE type = "bytes"
  <2>1. sse_encode(v) = Prefixed(v[2]) /\ IsRow(v[2])
    BY <1>1, <1>4 DEF sse_encode, HasType
  <2>2. sse_decode_Vec_u8(b, pos) = Got(v[2], pos + Len(Prefixed(v[2])))
    BY <2>1, ReadsRow
  <2>3. sse_decode("bytes", b, pos) = Typed("bytes", sse_decode_Vec_u8(b, pos))
    BY DEF sse_decode
  <2>4. sse_decode("bytes", b, pos) = Got(<<"bytes", v[2]>>, pos + Len(Prefixed(v[2])))
    BY <2>2, <2>3, TypedGot
  <2> QED BY <1>1, <1>4, <2>4
<1>5. CASE type = "pair"
  <2> DEFINE x == v[2][1]
             y == v[2][2]
             p == pos + Len(Prefixed(x))
             e == p + Len(Prefixed(y))
  <2>1. v[2] = <<x, y>> /\ IsRow(x) /\ IsRow(y)
    BY <1>5 DEF HasType
  <2>2. sse_encode(v) = Prefixed(x) \o Prefixed(y)
    BY <1>1, <1>5 DEF sse_encode, sse_encode_KeyPair
  <2> HIDE DEF x, y
  <2>3. /\ IsRow(Prefixed(x)) /\ IsRow(Prefixed(y)) /\ Len(Prefixed(x)) \in Nat
    BY <2>1, PrefixedRow, RowDomain
  <2>4. Lies(b, pos, Prefixed(x)) /\ Lies(b, p, Prefixed(y)) /\ p \in Nat
    BY <2>2, <2>3, PartsLie
  <2>5. sse_decode_Vec_u8(b, pos) = Got(x, p)
    BY <2>1, <2>4, ReadsRow
  <2> HIDE DEF p
  <2>6. sse_decode_Vec_u8(b, p) = Got(y, e)
    BY <2>1, <2>4, ReadsRow
  <2> HIDE DEF e
  <2>7. Pair(b, Got(x, p)) = Got(Append(Append(<<>>, x), y), e)
    <3>1. Got(x, p).pos = p
      BY GotFacts
    <3> DEFINE nil == <<>>
               one == Append(nil, x)
    <3>2. Pair(b, Got(x, p)) = Longer(Longer(Got(nil, p), Got(x, p)), Got(y, e))
      BY <2>6, <3>1 DEF Pair
    <3> HIDE DEF nil
    <3>3. Longer(Got(nil, p), Got(x, p)) = Got(one, p)
      BY LongerGot
    <3> HIDE DEF one
    <3>4. Longer(Got(one, p), Got(y, e)) = Got(Append(one, y), e)
      BY LongerGot
    <3>5. Pair(b, Got(x, p)) = Got(Append(one, y), e)
      BY <3>2, <3>3, <3>4
    <3> QED BY <3>5 DEF one, nil
  <2>8. Append(Append(<<>>, x), y) = <<x, y>>
    BY TwoAppended
  <2>9. sse_decode("pair", b, pos) = Typed("pair", sse_decode_KeyPair(b, pos))
    BY DEF sse_decode
  <2>10. sse_decode_KeyPair(b, pos) = Got(v[2], e)
    BY <2>1, <2>5, <2>7, <2>8 DEF sse_decode_KeyPair
  <2>11. sse_decode("pair", b, pos) = Got(<<"pair", v[2]>>, e)
    BY <2>9, <2>10, TypedGot
  <2> QED BY <1>1, <1>5, <2>11
<1> QED
  BY <1>2, <1>3, <1>4, <1>5

LEMMA AnswerRow ==
    ASSUME NEW type \in {"bool", "bytes", "text", "pair"}, NEW v, HasType(type, v)
    PROVE  IsRow(sse_encode(v))
<1>1. v = <<type, v[2]>> /\ v[1] = type
  BY DEF HasType
<1>2. CASE type = "bool"
  <2>1. \A k : IsRow(<<k>>)
    BY DEF IsRow
  <2> QED BY <1>1, <1>2, <2>1 DEF sse_encode
<1>3. CASE type \in {"bytes", "text"}
  <2>1. IsRow(v[2]) /\ sse_encode(v) = Prefixed(v[2])
    BY <1>1, <1>3 DEF sse_encode, HasType, IsString
  <2> QED BY <2>1, PrefixedRow
<1>4. CASE type = "pair"
  <2>1. /\ IsRow(v[2][1]) /\ IsRow(v[2][2])
        /\ sse_encode(v) = Prefixed(v[2][1]) \o Prefixed(v[2][2])
    BY <1>1, <1>4 DEF sse_encode, sse_encode_KeyPair, HasType
  <2>2. IsRow(Prefixed(v[2][1])) /\ IsRow(Prefixed(v[2][2]))
    BY <2>1, PrefixedRow
  <2> QED BY <2>1, <2>2, RowConcat
<1> QED
  BY <1>2, <1>3, <1>4

(* An outcome the type checkers let through comes back as it is: a panic   *)
(* as a panic, an error as that error, a value as that value.              *)
LEMMA AnswerReturns ==
    ASSUME NEW f \in DOMAIN RustLibApiImpl, NEW o, TypedOutcome(f, o)
    PROVE  DartRead(f, RustReply(o)) = o
<1> DEFINE d == RustLibApiImpl[f]
           data == RustReply(o)
<1>1. d.ok \in {"bool", "bytes", "text", "pair"} /\ d.err \in {"text", "none"}
  BY DEF RustLibApiImpl, DartFunction
<1>2. DartRead(f, data) = Decoded(d, data)
  BY DEF DartRead
<1>3. \/ o = <<"panic">>
      \/ o = <<"ok", o[2]>> /\ HasType(d.ok, o[2])
      \/ d.err # "none" /\ o = <<"err", o[2]>> /\ HasType(d.err, o[2])
  BY DEF TypedOutcome
<1> HIDE DEF d
<1>4. ASSUME NEW k, NEW e, IsRow(e), data = <<Num(k)>> \o e
      PROVE  IsRow(data) /\ data[1][2] = k /\ Lies(data, 1, e)
  <2>1. Num(k)[2] = k
    BY DEF Num
  <2>2. /\ IsRow(<<Num(k)>> \o e) /\ Len(<<Num(k)>> \o e) = Len(e) + 1
        /\ (<<Num(k)>> \o e)[1] = Num(k)
        /\ \A i \in 1..Len(e) : (<<Num(k)>> \o e)[1 + i] = e[i]
    BY <1>4, NumberInFront
  <2>3. Len(e) \in Nat
    BY <1>4, RowDomain
  <2> HIDE DEF data
  <2> QED BY <1>4, <2>1, <2>2, <2>3 DEF Lies
<1>5. CASE o = <<"panic">>
  <2>1. data = <<Num(3)>>
    BY <1>5 DEF RustReply
  <2>2. data[1][2] = 3
    BY <2>1 DEF Num
  <2> HIDE DEF data
  <2>3. Decoded(d, data) = o
    BY <1>5, <2>2 DEF Decoded
  <2> QED BY <1>2, <2>3 DEF data
<1>6. CASE o = <<"ok", o[2]>> /\ HasType(d.ok, o[2])
  <2> DEFINE e == sse_encode(o[2])
  <2>1. data = <<Num(0)>> \o e
    <3>1. o[1] = "ok"
      BY <1>6
    <3> QED BY <3>1 DEF RustReply
  <2>2. IsRow(e)
    BY <1>1, <1>6, AnswerRow
  <2>3. IsRow(data) /\ data[1][2] = 0 /\ Lies(data, 1, e)
    BY <1>4, <2>1, <2>2
  <2> HIDE DEF data
  <2>4. PICK end : sse_decode(d.ok, data, 1) = Got(o[2], end)
    BY <1>1, <1>6, <2>3, ReadsAnswer
  <2>5. Carried("ok", sse_decode(d.ok, data, 1)) = <<"ok", o[2]>>
    BY <2>4, CarriedGot
  <2>6. Decoded(d, data) = Carried("ok", sse_decode(d.ok, data, 1))
    BY <2>3 DEF Decoded
  <2>7. Decoded(d, data) = o
    BY <1>6, <2>5, <2>6
  <2> QED BY <1>2, <2>7 DEF data
<1>7. CASE d.err # "none" /\ o = <<"err", o[2]>> /\ HasType(d.err, o[2])
  <2> DEFINE e == sse_encode(o[2])
  <2>1. data = <<Num(1)>> \o e
    <3>1. o[1] = "err"
      BY <1>7
    <3> QED BY <3>1 DEF RustReply
  <2>2. d.err \in {"bool", "bytes", "text", "pair"} /\ IsRow(e)
    BY <1>1, <1>7, AnswerRow
  <2>3. IsRow(data) /\ data[1][2] = 1 /\ Lies(data, 1, e)
    BY <1>4, <2>1, <2>2
  <2> HIDE DEF data
  <2>4. PICK end : sse_decode(d.err, data, 1) = Got(o[2], end)
    BY <1>7, <2>2, <2>3, ReadsAnswer
  <2>5. Carried("err", sse_decode(d.err, data, 1)) = <<"err", o[2]>>
    BY <2>4, CarriedGot
  <2>6. Decoded(d, data) = Carried("err", sse_decode(d.err, data, 1))
    BY <1>7, <2>3 DEF Decoded
  <2>7. Decoded(d, data) = o
    BY <1>7, <2>5, <2>6
  <2> QED BY <1>2, <2>7 DEF data
<1> QED
  BY <1>3, <1>5, <1>6, <1>7

(* The bridge as it is built: Dart's half and Rust's half are the          *)
(* generated ones, and the apps' calls and the wrappers' outcomes are what *)
(* the type checkers of the two languages let through.                     *)
GeneratedCode ==
    \A c \in Calls :
        /\ TypedCall(c)
        /\ Send(c) = DartSend(c)
        /\ Meant(c) = Narrowed(c)
        /\ Receive(Send(c)) = RustReceive(Send(c))
        /\ \A o \in Outcomes(c) : /\ TypedOutcome(c[1], o)
                                  /\ Reply(o) = RustReply(o)
                                  /\ Read(c, Reply(o)) = DartRead(c[1], Reply(o))

(* The two generated halves agree: the wire function reads from what Dart  *)
(* wrote the call that was meant, every parameter under its own name and   *)
(* in its own width, and Dart reads from what transform_result_sse and the *)
(* handler wrote the outcome the wrapper had, for every typed call.        *)
THEOREM GeneratedHalvesAgree ==
    ASSUME GeneratedCode
    PROVE  CodecRoundTrips
<1> SUFFICES ASSUME NEW c \in Calls
             PROVE  RoundTrips(c)
  BY DEF CodecRoundTrips
<1>1. /\ TypedCall(c) /\ Send(c) = DartSend(c) /\ Meant(c) = Narrowed(c)
      /\ Receive(Send(c)) = RustReceive(Send(c))
  BY DEF GeneratedCode
<1>2. Receive(Send(c)) = <<"task", Meant(c)>>
  BY <1>1, CallArrives
<1>3. c[1] \in DOMAIN RustLibApiImpl
  BY <1>1 DEF TypedCall
<1>4. ASSUME NEW o \in Outcomes(c)
      PROVE  Read(c, Reply(o)) = o
  <2>1. /\ TypedOutcome(c[1], o) /\ Reply(o) = RustReply(o)
        /\ Read(c, Reply(o)) = DartRead(c[1], Reply(o))
    BY DEF GeneratedCode
  <2>2. DartRead(c[1], RustReply(o)) = o
    BY <1>3, <2>1, AnswerReturns
  <2> QED BY <2>1, <2>2
<1> QED
  BY <1>2, <1>4 DEF RoundTrips

(* No call an app makes over the generated halves is misread or refused on *)
(* the way in, and none of its outcomes is misread on the way back.        *)
THEOREM CallsRoundTripSafety ==
    ASSUME GeneratedCode
    PROVE  Spec => []CallsRoundTrip
<1>1. CodecRoundTrips
  BY GeneratedHalvesAgree
<1>2. CallsRoundTrip
  BY <1>1 DEF CodecRoundTrips, CallsRoundTrip
<1> QED
  BY <1>2, PTL

(* With its generated halves the bridge implements the futures of          *)
(* RemoteCalls and answers every call once: the theorems above, their      *)
(* hypothesis discharged.                                                  *)
THEOREM GeneratedBridgeIsFaithful ==
    ASSUME GeneratedCode
    PROVE  Spec => /\ ImplementsRemoteCalls
                   /\ []TasksMeanTheirCalls
                   /\ []OneAnswerPerCall
<1>1. CodecRoundTrips
  BY GeneratedHalvesAgree
<1>2. Spec => ImplementsRemoteCalls
  BY <1>1, BridgeImplementsRemoteCalls
<1>3. Spec => []TasksMeanTheirCalls
  BY <1>1, CarriersAreFaithful
<1>4. Spec => []OneAnswerPerCall
  BY <1>1, EachCallIsAnsweredOnce
<1> QED
  BY <1>2, <1>3, <1>4
-----------------------------------------------------------------------------
(* The three boundaries.  What region r of memory m holds:                 *)
At(m, r) == IF r[2] = 0 THEN <<>> ELSE SubSeq(m, r[1], r[1] + r[2] - 1)

Readable(m, r) == Named(r) /\ \A i \in DOMAIN At(m, r) : IsUtf8(At(m, r)[i])

(* Options are told apart by their tags.                                   *)
LEMMA OptionFacts ==
    \A x : Some(x) # None /\ Some(x)[2] = x
BY DEF Some, None

(* as_slice borrows exactly the region it is given, and as_str the regions *)
(* that hold text; a NULL with a length is neither.                        *)
LEMMA SlicesAreRegions ==
    ASSUME memory \in [1..MEM -> Cells], NEW r \in Regions
    PROVE  /\ as_slice(r) = IF Named(r) THEN Some(Bytes(At(memory, r))) ELSE None
           /\ as_str(r) = IF Readable(memory, r) THEN Some(Text(At(memory, r))) ELSE None
           /\ Named(r) => At(memory, r) \in Slices
<1>1. /\ r = <<r[1], r[2]>> /\ r[1] \in 0..MEM /\ r[2] \in Lengths /\ r[2] \in Nat
      /\ r[1] = NULL \/ r[1] + r[2] <= MEM + 1
  <2>1. r \in (0..MEM) \X Lengths /\ (r[1] = NULL \/ r[1] + r[2] <= MEM + 1)
    BY DEF Regions
  <2>2. PICK p \in 0..MEM, n \in Lengths : r = <<p, n>>
    BY <2>1
  <2>3. r[1] = p /\ r[2] = n /\ n \in Nat
    BY <2>2, MemoryAssumption
  <2> QED BY <2>1, <2>2, <2>3
<1>2. as_slice(r) = IF Named(r) THEN Some(Bytes(At(memory, r))) ELSE None
  BY <1>1 DEF as_slice, Named, At
<1>3. as_str(r) = IF Readable(memory, r) THEN Some(Text(At(memory, r))) ELSE None
  <2> DEFINE v == At(memory, r)
  <2>1. CASE Named(r)
    <3>1. as_slice(r) # None /\ as_slice(r)[2][2] = v
      BY <1>2, <2>1, OptionFacts DEF Bytes
    <3> HIDE DEF v
    <3>2. as_str(r) = IF \A i \in DOMAIN v : IsUtf8(v[i]) THEN Some(Text(v)) ELSE None
      BY <3>1 DEF as_str
    <3> QED BY <2>1, <3>2 DEF Readable, v
  <2>2. CASE ~Named(r)
    BY <1>2, <2>2 DEF as_str, Readable
  <2> QED BY <2>1, <2>2
<1>4. ASSUME Named(r) PROVE At(memory, r) \in Slices
  <2>1. CASE r[2] = 0
    <3>1. At(memory, r) \in [1..0 -> Cells]
      BY <2>1 DEF At
    <3> QED BY <1>1, <2>1, <3>1 DEF Slices
  <2>2. CASE r[2] # 0
    <3>1. r[1] # NULL /\ r[1] \in 1..MEM /\ r[1] + r[2] - 1 \in 1..MEM
      BY <1>1, <1>4, <2>2, MemoryAssumption DEF Named, NULL
    <3>2. memory \in Seq(Cells) /\ Len(memory) = MEM
      BY MemoryAssumption
    <3>3. SubSeq(memory, r[1], r[1] + r[2] - 1) = [i \in 1..r[2] |-> memory[r[1] + i - 1]]
      <4> DEFINE p == r[1]
                 n == r[2]
      <4>1. p \in 1..MEM /\ n \in Nat /\ p + n - 1 \in 1..MEM
        BY <1>1, <3>1
      <4> HIDE DEF p, n
      <4>2. SubSeq(memory, p, p + n - 1) = [i \in 1..n |-> memory[p + i - 1]]
        BY <3>2, <4>1, MemoryAssumption
      <4> QED BY <4>2 DEF p, n
    <3>4. \A i \in 1..r[2] : memory[r[1] + i - 1] \in Cells
      BY <1>1, <3>1, MemoryAssumption
    <3>5. At(memory, r) \in [1..r[2] -> Cells]
      BY <2>2, <3>3, <3>4 DEF At
    <3> QED BY <1>1, <3>5 DEF Slices
  <2> QED BY <2>1, <2>2
<1> QED
  BY <1>2, <1>3, <1>4

(* guard: 1 comes back for a verdict of TRUE and for nothing else.         *)
LEMMA GuardReturnsTheVerdict ==
    ASSUME NEW outcome, NEW r \in guard(outcome)
    PROVE  r = <<1>> <=> outcome = Ok(Bool(TRUE))
<1>1. <<0>> # <<1>> /\ <<>> # <<1>>
  OBVIOUS
<1>2. CASE outcome = <<"panic">>
  <2>1. outcome # Ok(Bool(TRUE))
    BY <1>2 DEF Ok, Bool
  <2> QED BY <1>1, <1>2, <2>1 DEF guard
<1>3. CASE outcome # <<"panic">>
  <2>1. r = <<IF outcome = Ok(Bool(TRUE)) THEN 1 ELSE 0>>
    BY <1>3 DEF guard
  <2> QED BY <1>1, <2>1
<1> QED
  BY <1>2, <1>3

(* A verifying export's last call.                                         *)
LEMMA SignatureAgrees ==
    ASSUME memory \in [1..MEM -> Cells],
           NEW a \in [curve : CurveCodes, public_key : Regions, msg : Regions, sig : Regions],
           NEW r \in guard(phi_verify_signature(a)),
           last' = [f |-> "verify_signature", args |-> a, before |-> memory, returned |-> r]
    PROVE  ChainAcceptsWhatAppsAccept'
<1> DEFINE P == At(memory, a.public_key)
           M == At(memory, a.msg)
           G == At(memory, a.sig)
           ok == Named(a.public_key) /\ Named(a.msg) /\ Named(a.sig)
<1>1. /\ last'.f = "verify_signature" /\ last'.args = a /\ last'.before = memory
      /\ last'.returned = r
  OBVIOUS
<1>2. /\ a.public_key \in Regions /\ a.msg \in Regions /\ a.sig \in Regions
      /\ DOMAIN a = {"curve", "public_key", "msg", "sig"}
  OBVIOUS
<1>3. Meaningful' <=> ok
  BY <1>1 DEF Meaningful, Names, Strings, Named
<1>4. /\ (ByValue').curve = <<"u8", a.curve>> /\ (ByValue').public_key = Bytes(P)
      /\ (ByValue').msg = Bytes(M) /\ (ByValue').sig = Bytes(G)
  BY <1>1, <1>2 DEF ByValue, Names, Strings, Stored, At
<1>5. phi_verify_signature(a)
        = IF ok /\ a.curve \in {0, 1}
          THEN Core("did::verify", << <<"curve", a.curve>>, Bytes(P), Bytes(M), Bytes(G)>>)
          ELSE Rejected
  <2> DEFINE args == <<CCurve(a.curve), as_slice(a.public_key), as_slice(a.msg), as_slice(a.sig)>>
  <2>1. AllSome(args) <=> ok /\ a.curve \in {0, 1}
    <3>1. AllSome(args) <=> /\ CCurve(a.curve) # None /\ as_slice(a.public_key) # None
                            /\ as_slice(a.msg) # None /\ as_slice(a.sig) # None
      BY DEF AllSome
    <3> HIDE DEF args
    <3> QED BY <1>2, <3>1, SlicesAreRegions, OptionFacts DEF CCurve
  <2>2. ASSUME ok, a.curve \in {0, 1}
        PROVE  Values(args) = << <<"curve", a.curve>>, Bytes(P), Bytes(M), Bytes(G)>>
    <3>1. Values(args) = <<CCurve(a.curve)[2], as_slice(a.public_key)[2],
                           as_slice(a.msg)[2], as_slice(a.sig)[2]>>
      BY DEF Values
    <3>2. /\ CCurve(a.curve)[2] = <<"curve", a.curve>> /\ as_slice(a.public_key)[2] = Bytes(P)
          /\ as_slice(a.msg)[2] = Bytes(M) /\ as_slice(a.sig)[2] = Bytes(G)
      BY <1>2, <2>2, SlicesAreRegions, OptionFacts DEF CCurve
    <3> HIDE DEF args, P, M, G
    <3> QED BY <3>1, <3>2
  <2> HIDE DEF args, ok, P, M, G
  <2>3. phi_verify_signature(a)
           = IF AllSome(args) THEN Core("did::verify", Values(args)) ELSE Rejected
    BY DEF phi_verify_signature, args
  <2> QED BY <2>1, <2>2, <2>3
<1>6. LET verdict == IF a.curve \in {0, 1}
                     THEN Core("did::verify",
                               << <<"curve", a.curve>>, Bytes(P), Bytes(M), Bytes(G)>>)
                     ELSE Ok(Bool(FALSE))
      IN Api("verify_signature", ByValue') = verdict /\ Wasm("verify_signature", ByValue') = verdict
  <2> HIDE DEF P, M, G
  <2> DEFINE v == ByValue'
  <2>1. v.curve[2] = a.curve
    BY <1>4
  <2> HIDE DEF v
  <2>2. Api("verify_signature", v) = api_verify_signature(v)
        /\ Wasm("verify_signature", v) = wasm_verify_signature(v)
    BY DEF Api, Wasm
  <2> QED
    BY <1>4, <2>1, <2>2 DEF v, api_verify_signature, wasm_verify_signature, KnownCurve, Curve,
       WasmCurveKnown, WasmCurve
<1>7. r = <<1>> <=> phi_verify_signature(a) = Ok(Bool(TRUE))
  BY GuardReturnsTheVerdict
<1>8. Ok(Bool(FALSE)) # Ok(Bool(TRUE))
  BY DEF Ok, Bool
<1> HIDE DEF ok, P, M, G
<1> QED
  BY <1>1, <1>3, <1>5, <1>6, <1>7, <1>8 DEF ChainAcceptsWhatAppsAccept, IsVerdict, Rejected

LEMMA BbsProofAgrees ==
    ASSUME memory \in [1..MEM -> Cells],
           NEW a \in [proof : Regions, public_key : Regions, nonce : Regions],
           NEW r \in guard(phi_bbs_verify_proof(a)),
           last' = [f |-> "bbs_verify_proof", args |-> a, before |-> memory, returned |-> r]
    PROVE  ChainAcceptsWhatAppsAccept'
<1> DEFINE F == At(memory, a.proof)
           P == At(memory, a.public_key)
           N == At(memory, a.nonce)
           ok == Named(a.proof) /\ Named(a.public_key) /\ Named(a.nonce)
           verdict == Core("bbs::verify_proof_bytes", <<Bytes(F), Bytes(P), Bytes(N)>>)
<1>1. /\ last'.f = "bbs_verify_proof" /\ last'.args = a /\ last'.before = memory
      /\ last'.returned = r
  OBVIOUS
<1>2. /\ a.proof \in Regions /\ a.public_key \in Regions /\ a.nonce \in Regions
      /\ DOMAIN a = {"proof", "public_key", "nonce"}
  OBVIOUS
<1>3. Meaningful' <=> ok
  BY <1>1 DEF Meaningful, Names, Strings, Named
<1>4. /\ (ByValue').proof = Bytes(F) /\ (ByValue').public_key = Bytes(P)
      /\ (ByValue').nonce = Bytes(N)
  BY <1>1, <1>2 DEF ByValue, Names, Strings, Stored, At
<1>5. phi_bbs_verify_proof(a) = IF ok THEN verdict ELSE Rejected
  <2> DEFINE args == <<as_slice(a.proof), as_slice(a.public_key), as_slice(a.nonce)>>
  <2>1. AllSome(args) <=> ok
    <3>1. AllSome(args) <=> /\ as_slice(a.proof) # None /\ as_slice(a.public_key) # None
                            /\ as_slice(a.nonce) # None
      BY DEF AllSome
    <3> HIDE DEF args
    <3> QED BY <1>2, <3>1, SlicesAreRegions, OptionFacts
  <2>2. ASSUME ok PROVE Values(args) = <<Bytes(F), Bytes(P), Bytes(N)>>
    <3>1. Values(args) = <<as_slice(a.proof)[2], as_slice(a.public_key)[2],
                           as_slice(a.nonce)[2]>>
      BY DEF Values
    <3>2. /\ as_slice(a.proof)[2] = Bytes(F) /\ as_slice(a.public_key)[2] = Bytes(P)
          /\ as_slice(a.nonce)[2] = Bytes(N)
      BY <1>2, <2>2, SlicesAreRegions, OptionFacts
    <3> HIDE DEF args, F, P, N
    <3> QED BY <3>1, <3>2
  <2> HIDE DEF args, ok, F, P, N
  <2>3. phi_bbs_verify_proof(a)
           = IF AllSome(args) THEN Core("bbs::verify_proof_bytes", Values(args)) ELSE Rejected
    BY DEF phi_bbs_verify_proof, args
  <2> QED BY <2>1, <2>2, <2>3
<1>6. Api("bbs_verify_proof", ByValue') = verdict /\ Wasm("bbs_verify_proof", ByValue') = verdict
  <2> HIDE DEF F, P, N
  <2> DEFINE v == ByValue'
  <2> HIDE DEF v
  <2>1. Api("bbs_verify_proof", v) = api_bbs_verify_proof(v)
        /\ Wasm("bbs_verify_proof", v) = wasm_bbs_verify_proof(v)
    BY DEF Api, Wasm
  <2> QED
    BY <1>4, <2>1 DEF v, api_bbs_verify_proof, wasm_bbs_verify_proof
<1>7. r = <<1>> <=> phi_bbs_verify_proof(a) = Ok(Bool(TRUE))
  BY GuardReturnsTheVerdict
<1>8. Ok(Bool(FALSE)) # Ok(Bool(TRUE))
  BY DEF Ok, Bool
<1> HIDE DEF ok, F, P, N, verdict
<1> QED
  BY <1>1, <1>3, <1>5, <1>6, <1>7, <1>8 DEF ChainAcceptsWhatAppsAccept, IsVerdict, Rejected

LEMMA LoginAgrees ==
    ASSUME memory \in [1..MEM -> Cells], NEW a \in WebauthnArgs,
           NEW r \in guard(phi_webauthn_verify(a)),
           last' = [f |-> "webauthn_verify", args |-> a, before |-> memory, returned |-> r]
    PROVE  ChainAcceptsWhatAppsAccept'
<1> DEFINE A == At(memory, a.auth_data)
           D == At(memory, a.client_data_json)
           G == At(memory, a.signature)
           C == At(memory, a.challenge)
           P == At(memory, a.public_key)
           O == At(memory, a.origin)
           I == At(memory, a.rp_id)
           ok == /\ Named(a.auth_data) /\ Named(a.client_data_json) /\ Named(a.signature)
                 /\ Named(a.challenge) /\ Named(a.public_key)
                 /\ Readable(memory, a.origin) /\ Readable(memory, a.rp_id)
           verdict == Core("webauthn::verify_webauthn",
                           << <<Bytes(A), Bytes(D), Bytes(G)>>, Bytes(C), Bytes(P), Text(O),
                              Text(I), Bool(a.require_uv # 0)>>)
<1>1. /\ last'.f = "webauthn_verify" /\ last'.args = a /\ last'.before = memory
      /\ last'.returned = r
  OBVIOUS
<1>2. /\ a.auth_data \in Regions /\ a.client_data_json \in Regions /\ a.signature \in Regions
      /\ a.challenge \in Regions /\ a.public_key \in Regions /\ a.origin \in Regions
      /\ a.rp_id \in Regions
      /\ DOMAIN a = {"auth_data", "client_data_json", "signature", "challenge", "public_key",
                     "origin", "rp_id", "require_uv"}
  BY WebauthnAssumption
<1>3. Meaningful' <=> ok
  <2>1. \A x : Stored(x)' = At(memory, x)
    BY <1>1 DEF Stored, At
  <2>2. /\ Names("webauthn_verify") = {"auth_data", "client_data_json", "signature", "challenge",
                                        "public_key", "origin", "rp_id"}
        /\ Names("webauthn_verify") \cap Strings = {"origin", "rp_id"}
    BY DEF Names, Strings
  <2>3. Meaningful' <=> /\ \A n \in Names("webauthn_verify") : Named(a[n])
                        /\ \A n \in {"origin", "rp_id"} :
                              \A i \in DOMAIN At(memory, a[n]) : IsUtf8(At(memory, a[n])[i])
    BY <1>1, <2>1, <2>2 DEF Meaningful, Named
  <2> QED BY <2>2, <2>3 DEF Readable
<1>4. /\ (ByValue').auth_data = Bytes(A) /\ (ByValue').client_data_json = Bytes(D)
      /\ (ByValue').signature = Bytes(G) /\ (ByValue').challenge = Bytes(C)
      /\ (ByValue').public_key = Bytes(P) /\ (ByValue').origin = Text(O)
      /\ (ByValue').rp_id = Text(I) /\ (ByValue').require_uv = Bool(a.require_uv # 0)
  <2>1. /\ "out" \notin DOMAIN a
        /\ Names("webauthn_verify") \ Strings
              = {"auth_data", "client_data_json", "signature", "challenge", "public_key"}
        /\ Names("webauthn_verify") \cap Strings = {"origin", "rp_id"}
    BY <1>2 DEF Names, Strings
  <2>2. \A n \in {"auth_data", "client_data_json", "signature", "challenge", "public_key"} :
           (ByValue')[n] = Bytes(At(memory, a[n]))
    BY <1>1, <1>2, <2>1 DEF ByValue, Stored, At
  <2>3. \A n \in {"origin", "rp_id"} : (ByValue')[n] = Text(At(memory, a[n]))
    BY <1>1, <1>2, <2>1 DEF ByValue, Stored, At
  <2>4. (ByValue').require_uv = Bool(a.require_uv # 0)
    BY <1>1, <1>2, <2>1 DEF ByValue
  <2> QED BY <2>2, <2>3, <2>4
<1>5. phi_webauthn_verify(a) = IF ok THEN verdict ELSE Rejected
  <2> DEFINE args == <<as_slice(a.auth_data), as_slice(a.client_data_json), as_slice(a.signature),
                       as_slice(a.challenge), as_slice(a.public_key), as_str(a.origin),
                       as_str(a.rp_id)>>
             w == Values(args)
  <2>1. AllSome(args) <=> ok
    <3>1. AllSome(args) <=> /\ as_slice(a.auth_data) # None /\ as_slice(a.client_data_json) # None
                            /\ as_slice(a.signature) # None /\ as_slice(a.challenge) # None
                            /\ as_slice(a.public_key) # None
                            /\ as_str(a.origin) # None /\ as_str(a.rp_id) # None
      BY DEF AllSome
    <3> HIDE DEF args
    <3> QED BY <1>2, <3>1, SlicesAreRegions, OptionFacts
  <2>2. ASSUME ok
        PROVE  /\ w[1] = Bytes(A) /\ w[2] = Bytes(D) /\ w[3] = Bytes(G) /\ w[4] = Bytes(C)
               /\ w[5] = Bytes(P) /\ w[6] = Text(O) /\ w[7] = Text(I)
    <3>1. /\ w[1] = as_slice(a.auth_data)[2] /\ w[2] = as_slice(a.client_data_json)[2]
          /\ w[3] = as_slice(a.signature)[2] /\ w[4] = as_slice(a.challenge)[2]
          /\ w[5] = as_slice(a.public_key)[2] /\ w[6] = as_str(a.origin)[2]
          /\ w[7] = as_str(a.rp_id)[2]
      BY DEF Values
    <3> HIDE DEF w
    <3>2. /\ as_slice(a.auth_data)[2] = Bytes(A) /\ as_slice(a.client_data_json)[2] = Bytes(D)
          /\ as_slice(a.signature)[2] = Bytes(G) /\ as_slice(a.challenge)[2] = Bytes(C)
          /\ as_slice(a.public_key)[2] = Bytes(P) /\ as_str(a.origin)[2] = Text(O)
          /\ as_str(a.rp_id)[2] = Text(I)
      BY <1>2, <2>2, SlicesAreRegions, OptionFacts
    <3> HIDE DEF A, D, G, C, P, O, I
    <3> QED BY <3>1, <3>2
  <2>3. phi_webauthn_verify(a)
           = IF AllSome(args)
             THEN Core("webauthn::verify_webauthn",
                       << <<w[1], w[2], w[3]>>, w[4], w[5], w[6], w[7], Bool(a.require_uv # 0)>>)
             ELSE Rejected
    BY DEF phi_webauthn_verify
  <2> HIDE DEF args, w, ok, A, D, G, C, P, O, I
  <2> QED BY <2>1, <2>2, <2>3
<1>6. Api("webauthn_verify", ByValue') = verdict /\ Wasm("webauthn_verify", ByValue') = verdict
  <2> HIDE DEF A, D, G, C, P, O, I
  <2> DEFINE v == ByValue'
  <2> HIDE DEF v
  <2>1. Api("webauthn_verify", v) = api_webauthn_verify(v)
        /\ Wasm("webauthn_verify", v) = wasm_webauthn_verify(v)
    BY DEF Api, Wasm
  <2> QED
    BY <1>4, <2>1 DEF v, api_webauthn_verify, wasm_webauthn_verify
<1>7. r = <<1>> <=> phi_webauthn_verify(a) = Ok(Bool(TRUE))
  BY GuardReturnsTheVerdict
<1>8. Ok(Bool(FALSE)) # Ok(Bool(TRUE))
  BY DEF Ok, Bool
<1> HIDE DEF ok, A, D, G, C, P, O, I, verdict
<1> QED
  BY <1>1, <1>3, <1>5, <1>6, <1>7, <1>8 DEF ChainAcceptsWhatAppsAccept, IsVerdict, Rejected

(* phi_compute_nullifier's last call: the array it writes is the one the   *)
(* phone computes from the bytes that memory held before it.               *)
LEMMA NullifierIsWritten ==
    ASSUME memory \in [1..MEM -> Cells],
           NEW a \in [secret : Regions, topic : Regions, out : Regions],
           NEW r \in phi_compute_nullifier(a),
           last' = [f |-> "compute_nullifier", args |-> a, before |-> memory, returned |-> r[1]],
           memory' = r[2]
    PROVE  NullifierLandsInOut'
<1> DEFINE K == At(memory, a.secret)
           T == At(memory, a.topic)
           p == a.out[1]
           c == a.out[2]
           n == Core("voting::compute_nullifier", <<Bytes(K), Bytes(T)>>)
           array == [i \in 1..NULLIFIER_LEN |-> n[2][2][i]]
           ok == Named(a.secret) /\ Named(a.topic)
           args == <<as_slice(a.secret), as_slice(a.topic)>>
<1>1. /\ last'.f = "compute_nullifier" /\ last'.args = a /\ last'.before = memory
      /\ last'.returned = r[1] /\ last' # NoCall
  BY DEF NoCall
<1>2. /\ a.secret \in Regions /\ a.topic \in Regions /\ a.out \in Regions
      /\ DOMAIN a = {"secret", "topic", "out"}
  OBVIOUS
<1>3. Meaningful' <=> ok
  BY <1>1 DEF Meaningful, Names, Strings, Named
<1>4. (ByValue').secret = Bytes(K) /\ (ByValue').topic = Bytes(T)
  BY <1>1, <1>2 DEF ByValue, Names, Strings, Stored, At
<1>5. AllSome(args) <=> ok
  <2>1. AllSome(args) <=> as_slice(a.secret) # None /\ as_slice(a.topic) # None
    BY DEF AllSome
  <2> HIDE DEF args
  <2> QED BY <1>2, <2>1, SlicesAreRegions, OptionFacts
<1>6. ASSUME ok PROVE Values(args) = <<Bytes(K), Bytes(T)>>
  <2>1. Values(args) = <<as_slice(a.secret)[2], as_slice(a.topic)[2]>>
    BY DEF Values
  <2>2. as_slice(a.secret)[2] = Bytes(K) /\ as_slice(a.topic)[2] = Bytes(T)
    BY <1>2, <1>6, SlicesAreRegions, OptionFacts
  <2> HIDE DEF args, K, T
  <2> QED BY <2>1, <2>2
<1>7. Api("compute_nullifier", ByValue') = n
  <2> HIDE DEF K, T
  <2> DEFINE v == ByValue'
  <2> HIDE DEF v
  <2>1. Api("compute_nullifier", v) = api_compute_nullifier(v)
    BY DEF Api
  <2> QED BY <1>4, <2>1 DEF v, api_compute_nullifier
<1>8. CASE p = NULL \/ c < NULLIFIER_LEN \/ ~ok
  <2>1. r = << <<0>>, memory>>
    BY <1>5, <1>8 DEF phi_compute_nullifier
  <2>2. r[1] # <<1>> /\ memory' = memory
    BY <2>1
  <2> QED BY <1>1, <2>2 DEF NullifierLandsInOut
<1>9. CASE p # NULL /\ ~(c < NULLIFIER_LEN) /\ ok /\ n = <<"panic">>
  <2>1. r \in guard(n) \X {memory}
    BY <1>5, <1>6, <1>9 DEF phi_compute_nullifier
  <2>2. r[1] \in {<<0>>, <<>>} /\ r[2] = memory
    BY <1>9, <2>1 DEF guard
  <2>3. r[1] # <<1>> /\ memory' = memory
    BY <2>2
  <2> QED BY <1>1, <2>3 DEF NullifierLandsInOut
<1>10. CASE p # NULL /\ ~(c < NULLIFIER_LEN) /\ ok /\ n # <<"panic">>
  <2>1. r = << <<1>>, Overwritten(p, n[2][2])>>
    BY <1>5, <1>6, <1>10 DEF phi_compute_nullifier
  <2>2. n = Ok(Bytes(array))
    <3>1. K \in Slices /\ T \in Slices
      BY <1>2, <1>10, SlicesAreRegions
    <3> HIDE DEF K, T
    <3> QED BY <1>10, <3>1, NullifierAssumption
  <2>3. n[2][2] = array /\ Len(array) = NULLIFIER_LEN /\ NULLIFIER_LEN \in Nat
    <3>1. Ok(Bytes(array))[2][2] = array
      BY DEF Ok, Bytes
    <3>2. NULLIFIER_LEN \in Nat
      BY NullifierAssumption
    <3> QED BY <2>2, <3>1, <3>2
  <2>4. p \in 1..MEM /\ c \in Nat /\ p + c <= MEM + 1 /\ NULLIFIER_LEN <= c
    <3>1. a.out \in (0..MEM) \X Lengths /\ (p = NULL \/ p + c <= MEM + 1)
      BY <1>2 DEF Regions
    <3>2. p \in 0..MEM /\ c \in Lengths
      BY <3>1
    <3>3. c \in Nat
      BY <3>2, MemoryAssumption
    <3> HIDE DEF p, c
    <3> QED BY <1>10, <2>3, <3>1, <3>2, <3>3, MemoryAssumption DEF NULL
  <2> HIDE DEF p, c, n, array
  <2>5. memory' = [i \in 1..MEM |-> IF i \in p..(p + NULLIFIER_LEN - 1) THEN array[i - p + 1]
                                    ELSE memory[i]]
    BY <2>1, <2>3 DEF Overwritten
  <2>6. SubSeq(memory', p, p + NULLIFIER_LEN - 1) = array
    <3>1. SubSeq(memory', p, p + NULLIFIER_LEN - 1)
             = [i \in 1..NULLIFIER_LEN |-> memory'[p + i - 1]]
      BY <2>3, <2>4, <2>5, MemoryAssumption
    <3>2. \A i \in 1..NULLIFIER_LEN : memory'[p + i - 1] = array[i]
      BY <2>3, <2>4, <2>5, MemoryAssumption
    <3> QED BY <3>1, <3>2 DEF array
  <2>7. \A i \in 1..MEM : memory'[i] # memory[i] => i \in p..(p + c - 1)
    BY <2>3, <2>4, <2>5, MemoryAssumption
  <2> QED
    BY <1>1, <1>3, <1>7, <1>10, <2>1, <2>2, <2>6, <2>7 DEF NullifierLandsInOut, p, c
<1> QED
  BY <1>8, <1>9, <1>10

(* claims_from_array: the list the page passed, or an error; and a         *)
(* function of claims hands that list to the core.                         *)
LEMMA ArrayIsTheClaims ==
    ASSUME NEW s, Len(s) \in Nat, NEW f, NEW rest
    PROVE  LET list == <<"claims", [i \in 1..Len(s) |-> s[i]]>>
               page == [i \in 1..Len(s) |-> <<"Uint8Array", s[i]>>]
           IN /\ WithClaims(f, <<"array", page>>, rest) = Stringly(Core(f, <<list>> \o rest))
              /\ \A i \in 1..Len(s) :
                    WithClaims(f, <<"array", [page EXCEPT ![i] = <<"other">>]>>, rest)
                       = Message("each claim must be a Uint8Array")
<1> DEFINE L == 1..Len(s)
           values == [i \in L |-> s[i]]
           list == <<"claims", values>>
           page == [i \in L |-> <<"Uint8Array", s[i]>>]
<1>1. claims_from_array(<<"array", page>>) = Ok(list)
  <2>1. \A i \in L : page[i][1] = "Uint8Array" /\ page[i][2] = s[i]
    OBVIOUS
  <2>2. [i \in DOMAIN page |-> page[i][2]] = values
    BY <2>1
  <2>3. DOMAIN page = L
    OBVIOUS
  <2> HIDE DEF page, values, L
  <2> QED BY <2>1, <2>2, <2>3 DEF claims_from_array
<1>2. WithClaims(f, <<"array", page>>, rest) = Stringly(Core(f, <<list>> \o rest))
  <2> HIDE DEF page, list
  <2>1. Ok(list)[1] # "err" /\ Ok(list)[2] = list
    BY DEF Ok
  <2> QED BY <1>1, <2>1 DEF WithClaims
<1>3. ASSUME NEW i \in L
      PROVE  WithClaims(f, <<"array", [page EXCEPT ![i] = <<"other">>]>>, rest)
                = Message("each claim must be a Uint8Array")
  <2> DEFINE spoiled == [page EXCEPT ![i] = <<"other">>]
  <2>1. i \in DOMAIN spoiled /\ spoiled[i][1] # "Uint8Array"
    BY <1>3
  <2> HIDE DEF spoiled
  <2>2. claims_from_array(<<"array", spoiled>>) = Message("each claim must be a Uint8Array")
    BY <2>1 DEF claims_from_array
  <2>3. Message("each claim must be a Uint8Array")[1] = "err"
    BY DEF Message, Err
  <2> QED BY <2>2, <2>3 DEF WithClaims, spoiled
<1> QED
  BY <1>2, <1>3

(* One value in front of a tuple.                                          *)
LEMMA InFront ==
    ASSUME NEW S, NEW c \in S, NEW t \in Seq(S), NEW w \in Seq(S),
           Len(w) = Len(t) + 1, w[1] = c, \A i \in 1..Len(t) : w[i + 1] = t[i]
    PROVE  <<c>> \o t = w
<1>1. <<c>> \in Seq(S) /\ Len(<<c>>) = 1 /\ <<c>>[1] = c
  OBVIOUS
<1>2. /\ <<c>> \o t \in Seq(S) /\ Len(<<c>> \o t) = Len(t) + 1
      /\ \A i \in 1..(Len(t) + 1) :
            (<<c>> \o t)[i] = IF i <= 1 THEN <<c>>[i] ELSE t[i - 1]
  BY <1>1, ConcatProperties
<1>3. ASSUME NEW i \in 1..(Len(t) + 1) PROVE (<<c>> \o t)[i] = w[i]
  <2>1. CASE i = 1
    BY <1>1, <1>2, <2>1
  <2>2. CASE i # 1
    <3>1. i - 1 \in 1..Len(t) /\ w[(i - 1) + 1] = t[i - 1] /\ (i - 1) + 1 = i
      BY <2>2
    <3> QED BY <1>2, <2>2, <3>1
  <2> QED BY <2>1, <2>2
<1> QED
  BY <1>2, <1>3, SeqEqual

LEMMA TuplesInFront ==
    /\ \A c, x : <<c>> \o <<x>> = <<c, x>>
    /\ \A c, x, y, z : <<c>> \o <<x, y, z>> = <<c, x, y, z>>
    /\ \A c, u, v, d, x, y, z : <<c>> \o <<u, v, d, x, y, z>> = <<c, u, v, d, x, y, z>>
<1>1. ASSUME NEW c, NEW x
      PROVE  <<c>> \o <<x>> = <<c, x>>
  <2> DEFINE S == {c, x}
             t == <<x>>
             w == <<c, x>>
  <2>1. c \in S /\ t \in Seq(S) /\ w \in Seq(S) /\ Len(t) = 1 /\ Len(w) = 2
    OBVIOUS
  <2>2. w[1] = c /\ \A i \in 1..1 : w[i + 1] = t[i]
    OBVIOUS
  <2> HIDE DEF S, t, w
  <2>3. Len(w) = Len(t) + 1 /\ \A i \in 1..Len(t) : w[i + 1] = t[i]
    BY <2>1, <2>2
  <2>4. <<c>> \o t = w
    BY <2>1, <2>2, <2>3, InFront, Zenon
  <2> QED BY <2>4 DEF t, w
<1>2. ASSUME NEW c, NEW x, NEW y, NEW z
      PROVE  <<c>> \o <<x, y, z>> = <<c, x, y, z>>
  <2> DEFINE S == {c, x, y, z}
             t == <<x, y, z>>
             w == <<c, x, y, z>>
  <2>1. c \in S /\ t \in Seq(S) /\ w \in Seq(S) /\ Len(t) = 3 /\ Len(w) = 4
    OBVIOUS
  <2>2. w[1] = c /\ \A i \in 1..3 : w[i + 1] = t[i]
    OBVIOUS
  <2> HIDE DEF S, t, w
  <2>3. Len(w) = Len(t) + 1 /\ \A i \in 1..Len(t) : w[i + 1] = t[i]
    BY <2>1, <2>2
  <2>4. <<c>> \o t = w
    BY <2>1, <2>2, <2>3, InFront, Zenon
  <2> QED BY <2>4 DEF t, w
<1>3. ASSUME NEW c, NEW u, NEW v, NEW d, NEW x, NEW y, NEW z
      PROVE  <<c>> \o <<u, v, d, x, y, z>> = <<c, u, v, d, x, y, z>>
  <2> DEFINE S == {c, u, v, d, x, y, z}
             t == <<u, v, d, x, y, z>>
             w == <<c, u, v, d, x, y, z>>
  <2>1. c \in S /\ t \in Seq(S) /\ w \in Seq(S) /\ Len(t) = 6 /\ Len(w) = 7
    OBVIOUS
  <2>2. w[1] = c /\ \A i \in 1..6 : w[i + 1] = t[i]
    OBVIOUS
  <2> HIDE DEF S, t, w
  <2>3. Len(w) = Len(t) + 1 /\ \A i \in 1..Len(t) : w[i + 1] = t[i]
    BY <2>1, <2>2
  <2>4. <<c>> \o t = w
    BY <2>1, <2>2, <2>3, InFront, Zenon
  <2> QED BY <2>4 DEF t, w
<1> QED
  BY <1>1, <1>2, <1>3

(* The browser gives the phone's answer to every question, and refuses a   *)
(* question one of whose claims is not a Uint8Array.                       *)
LEMMA BrowserAnswers ==
    ASSUME NEW q \in Questions
    PROVE  /\ Wasm(q[1], AsJs(q[2])) = Api(q[1], q[2])
           /\ "claims" \in DOMAIN q[2] =>
                 \A i \in DOMAIN q[2].claims[2] :
                     Wasm(q[1], Spoiled(q[2], i)) = Message("each claim must be a Uint8Array")
<1> DEFINE f == q[1]
           a == q[2]
           js == AsJs(a)
<1>1. /\ f \in DOMAIN Parameters /\ DOMAIN a = Parameters[f]
      /\ a = [n \in Parameters[f] |-> a[n]]
      /\ \A n \in DOMAIN a \ {"claims"} : a[n][1] # "claims"
  BY QuestionsAssumption
<1>2. DOMAIN js = DOMAIN a /\ \A n \in DOMAIN a \ {"claims"} : js[n] = a[n]
  BY <1>1 DEF AsJs
<1>3. f \in {"generate_keypair", "sign", "verify_signature", "did_from_public",
             "seed_generate_mnemonic", "seed_derive_k1", "webauthn_verify", "compute_nullifier",
             "semaphore_nullifier", "semaphore_bind_nonce", "bbs_generate_keypair",
             "bbs_sign_credential", "bbs_derive_proof", "bbs_verify_proof", "vote_prove"}
  BY <1>1 DEF Parameters
<1>4. "claims" \in DOMAIN a <=> f \in {"bbs_sign_credential", "bbs_derive_proof", "vote_prove"}
  BY <1>1, <1>3 DEF Parameters
<1>5. ASSUME "claims" \notin DOMAIN a PROVE Wasm(f, js) = Api(f, a)
  <2>1. js = a
    BY <1>1, <1>2, <1>5 DEF AsJs
  <2>2. f \notin {"bbs_sign_credential", "bbs_derive_proof", "vote_prove"}
    BY <1>4, <1>5
  <2> HIDE DEF f, a, js
  <2>3. CASE f \in {"generate_keypair", "sign", "verify_signature", "did_from_public"}
    BY <2>1, <2>3 DEF Wasm, Api, wasm_generate_keypair, api_generate_keypair, wasm_sign, api_sign,
       wasm_verify_signature, api_verify_signature, wasm_did_from_public, api_did_from_public,
       WasmCurveKnown, WasmCurve, KnownCurve, Curve
  <2>4. CASE f \in {"seed_generate_mnemonic", "seed_derive_k1", "webauthn_verify"}
    BY <2>1, <2>4 DEF Wasm, Api, wasm_seed_generate_mnemonic, api_seed_generate_mnemonic,
       wasm_seed_derive_k1, api_seed_derive_k1, wasm_webauthn_verify, api_webauthn_verify
  <2>5. CASE f \in {"compute_nullifier", "semaphore_nullifier", "semaphore_bind_nonce"}
    BY <2>1, <2>5 DEF Wasm, Api, wasm_compute_nullifier, api_compute_nullifier,
       wasm_semaphore_nullifier, api_semaphore_nullifier, wasm_semaphore_bind_nonce,
       api_semaphore_bind_nonce, IsNullifier
  <2>6. CASE f \in {"bbs_generate_keypair", "bbs_verify_proof"}
    BY <2>1, <2>6 DEF Wasm, Api, wasm_bbs_generate_keypair, api_bbs_generate_keypair,
       wasm_bbs_verify_proof, api_bbs_verify_proof
  <2> QED BY <1>3, <2>2, <2>3, <2>4, <2>5, <2>6
<1>6. ASSUME "claims" \in DOMAIN a
      PROVE  /\ Wasm(f, js) = Api(f, a)
             /\ \A i \in DOMAIN a.claims[2] :
                   Wasm(f, Spoiled(a, i)) = Message("each claim must be a Uint8Array")
  <2> DEFINE s == a.claims[2]
             list == [i \in 1..Len(s) |-> s[i]]
             page == [i \in 1..Len(s) |-> <<"Uint8Array", s[i]>>]
  <2>1. a.claims = <<"claims", list>> /\ Len(s) \in Nat
    BY <1>6, QuestionsAssumption
  <2>2. DOMAIN s = 1..Len(s) /\ a.claims[1] = "claims"
    <3>1. s = list
      BY <2>1
    <3>2. DOMAIN list = 1..Len(s)
      OBVIOUS
    <3>3. <<"claims", list>>[1] = "claims"
      OBVIOUS
    <3> HIDE DEF list, s, a
    <3> QED BY <2>1, <3>1, <3>2, <3>3
  <2>3. js.claims = <<"array", page>>
    <3>1. js.claims = <<"array", [i \in DOMAIN s |-> <<"Uint8Array", s[i]>>]>>
      BY <1>6, <2>2 DEF AsJs
    <3> QED BY <2>2, <3>1
  <2>4. ASSUME NEW i \in 1..Len(s)
        PROVE  /\ Spoiled(a, i).claims = <<"array", [page EXCEPT ![i] = <<"other">>]>>
               /\ \A n \in DOMAIN a \ {"claims"} : Spoiled(a, i)[n] = a[n]
    <3>1. <<"array", page>>[2] = page
      OBVIOUS
    <3> HIDE DEF js, page
    <3>2. Spoiled(a, i)
            = [js EXCEPT !.claims = <<"array", [js.claims[2] EXCEPT ![i] = <<"other">>]>>]
      BY DEF Spoiled, js
    <3> QED BY <1>2, <1>6, <2>3, <3>1, <3>2
  <2> HIDE DEF s, js, page
  <2>5. \A g, rest :
           /\ WithClaims(g, js.claims, rest) = Stringly(Core(g, <<a.claims>> \o rest))
           /\ \A i \in 1..Len(s) :
                 WithClaims(g, Spoiled(a, i).claims, rest)
                    = Message("each claim must be a Uint8Array")
    <3> HIDE DEF a
    <3>1. ASSUME NEW g, NEW rest
          PROVE  /\ WithClaims(g, <<"array", page>>, rest) = Stringly(Core(g, <<a.claims>> \o rest))
                 /\ \A i \in 1..Len(s) :
                       WithClaims(g, <<"array", [page EXCEPT ![i] = <<"other">>]>>, rest)
                          = Message("each claim must be a Uint8Array")
      BY <2>1, ArrayIsTheClaims DEF page
    <3>2. ASSUME NEW g, NEW rest, NEW i \in 1..Len(s)
          PROVE  WithClaims(g, Spoiled(a, i).claims, rest)
                    = Message("each claim must be a Uint8Array")
      <4>1. Spoiled(a, i).claims = <<"array", [page EXCEPT ![i] = <<"other">>]>>
        BY <2>4
      <4> QED BY <3>1, <4>1, Zenon
    <3>3. ASSUME NEW g, NEW rest
          PROVE  WithClaims(g, js.claims, rest) = Stringly(Core(g, <<a.claims>> \o rest))
      BY <2>3, <3>1, Zenon
    <3> QED BY <3>2, <3>3
  <2>6. CASE f = "bbs_sign_credential"
    <3>1. DOMAIN a \ {"claims"} = {"secret"}
      BY <1>1, <2>6 DEF Parameters
    <3>2. \A c, x : <<c>> \o <<x>> = <<c, x>>
      BY TuplesInFront
    <3> HIDE DEF f, a
    <3>3. /\ Wasm(f, js) = wasm_bbs_sign_credential(js)
          /\ Api(f, a) = api_bbs_sign_credential(a)
          /\ \A i : Wasm(f, Spoiled(a, i)) = wasm_bbs_sign_credential(Spoiled(a, i))
      BY <2>6 DEF Wasm, Api
    <3>4. js.secret = a.secret
      BY <1>2, <3>1
    <3>5. wasm_bbs_sign_credential(js) = WithClaims("bbs::sign_credential", js.claims, <<a.secret>>)
      BY <3>4 DEF wasm_bbs_sign_credential
    <3>6. api_bbs_sign_credential(a)
             = Stringly(Core("bbs::sign_credential", <<a.claims>> \o <<a.secret>>))
      BY <3>2 DEF api_bbs_sign_credential
    <3>7. Wasm(f, js) = Api(f, a)
      BY <2>5, <3>3, <3>5, <3>6
    <3>8. \A i \in 1..Len(s) : Wasm(f, Spoiled(a, i)) = Message("each claim must be a Uint8Array")
      BY <2>5, <3>3 DEF wasm_bbs_sign_credential
    <3> QED BY <2>2, <3>7, <3>8 DEF s
  <2>7. CASE f = "bbs_derive_proof"
    <3>1. DOMAIN a \ {"claims"} = {"signature", "reveal", "nonce"}
      BY <1>1, <2>7 DEF Parameters
    <3>2. \A c, x, y, z : <<c>> \o <<x, y, z>> = <<c, x, y, z>>
      BY TuplesInFront
    <3> HIDE DEF f, a
    <3>3. /\ Wasm(f, js) = wasm_bbs_derive_proof(js)
          /\ Api(f, a) = api_bbs_derive_proof(a)
          /\ \A i : Wasm(f, Spoiled(a, i)) = wasm_bbs_derive_proof(Spoiled(a, i))
      BY <2>7 DEF Wasm, Api
    <3>4. js.signature = a.signature /\ js.reveal = a.reveal /\ js.nonce = a.nonce
      BY <1>2, <3>1
    <3>5. wasm_bbs_derive_proof(js)
             = WithClaims("bbs::derive_proof", js.claims, <<a.signature, a.reveal, a.nonce>>)
      BY <3>4 DEF wasm_bbs_derive_proof
    <3>6. api_bbs_derive_proof(a)
             = Stringly(Core("bbs::derive_proof",
                             <<a.claims>> \o <<a.signature, a.reveal, a.nonce>>))
      BY <3>2 DEF api_bbs_derive_proof
    <3>7. Wasm(f, js) = Api(f, a)
      BY <2>5, <3>3, <3>5, <3>6
    <3>8. \A i \in 1..Len(s) : Wasm(f, Spoiled(a, i)) = Message("each claim must be a Uint8Array")
      BY <2>5, <3>3 DEF wasm_bbs_derive_proof
    <3> QED BY <2>2, <3>7, <3>8 DEF s
  <2>8. CASE f = "vote_prove"
    <3>1. DOMAIN a \ {"claims"} = {"signature", "issuer_public_key", "reveal", "chain_id",
                                   "election_id", "signal"}
      BY <1>1, <2>8 DEF Parameters
    <3>2. \A c, u, v, d, x, y, z : <<c>> \o <<u, v, d, x, y, z>> = <<c, u, v, d, x, y, z>>
      BY TuplesInFront
    <3> HIDE DEF f, a
    <3>3. /\ Wasm(f, js) = wasm_vote_prove(js)
          /\ Api(f, a) = api_vote_prove(a)
          /\ \A i : Wasm(f, Spoiled(a, i)) = wasm_vote_prove(Spoiled(a, i))
      BY <2>8 DEF Wasm, Api
    <3> DEFINE rest == <<a.signature, a.issuer_public_key, a.reveal, a.chain_id, a.election_id,
                         a.signal>>
    <3>4. /\ js.signature = a.signature /\ js.issuer_public_key = a.issuer_public_key
          /\ js.reveal = a.reveal /\ js.chain_id = a.chain_id
          /\ js.election_id = a.election_id /\ js.signal = a.signal
      BY <1>2, <3>1
    <3>5. wasm_vote_prove(js) = WithClaims("voting_snark::prove_vote_bytes", js.claims, rest)
      BY <3>4 DEF wasm_vote_prove
    <3>6. api_vote_prove(a)
             = Stringly(Core("voting_snark::prove_vote_bytes", <<a.claims>> \o rest))
      <4>1. <<a.claims>> \o rest
               = <<a.claims, a.signature, a.issuer_public_key, a.reveal, a.chain_id,
                   a.election_id, a.signal>>
        BY <3>2
      <4> QED BY <4>1 DEF api_vote_prove
    <3>7. Wasm(f, js) = Api(f, a)
      BY <2>5, <3>3, <3>5, <3>6
    <3>8. \A i \in 1..Len(s) : Wasm(f, Spoiled(a, i)) = Message("each claim must be a Uint8Array")
      BY <2>5, <3>3 DEF wasm_vote_prove
    <3> QED BY <2>2, <3>7, <3>8 DEF s
  <2> QED BY <1>4, <1>6, <2>6, <2>7, <2>8
<1> QED
  BY <1>5, <1>6
-----------------------------------------------------------------------------
(* Before a call memory is the caller's cells; after it, the last call has *)
(* come back the way the other surfaces answer; and what the browser and   *)
(* the phone were asked is a question.                                     *)
SurfacesInv ==
    /\ last = NoCall => memory \in [1..MEM -> Cells]
    /\ asked \in Questions \cup {NoQuestion}
    /\ ChainAcceptsWhatAppsAccept
    /\ NullifierLandsInOut

LEMMA SurfacesInvInit == SInit => SurfacesInv
<1> SUFFICES ASSUME SInit PROVE SurfacesInv
  OBVIOUS
<1>1. last = NoCall /\ memory \in [1..MEM -> Cells] /\ asked = NoQuestion
  BY DEF SInit, CInit
<1> QED
  BY <1>1 DEF SurfacesInv, ChainAcceptsWhatAppsAccept, NullifierLandsInOut, IsVerdict

LEMMA SurfacesInvStep == SurfacesInv /\ [SNext]_svars => SurfacesInv'
<1> SUFFICES ASSUME SurfacesInv, [SNext]_svars PROVE SurfacesInv'
  OBVIOUS
<1>1. CASE Ask
  <2>1. last' = last /\ memory' = memory /\ last = NoCall /\ asked' \in Questions
    BY <1>1 DEF Ask, MayCall, cvars
  <2>2. memory' \in [1..MEM -> Cells] /\ last' = NoCall
    BY <2>1 DEF SurfacesInv
  <2> QED
    BY <2>1, <2>2 DEF SurfacesInv, ChainAcceptsWhatAppsAccept, NullifierLandsInOut, IsVerdict,
       NoCall
<1>2. CASE asked' = NoQuestion /\ VerifySignature
  <2>1. memory \in [1..MEM -> Cells] /\ memory' = memory
    BY <1>2 DEF VerifySignature, MayCall, Verify, SurfacesInv
  <2>2. PICK a \in [curve : CurveCodes, public_key : Regions, msg : Regions, sig : Regions] :
           Verify("verify_signature", a, phi_verify_signature(a))
    BY <1>2 DEF VerifySignature
  <2>3. PICK r \in guard(phi_verify_signature(a)) : Returned("verify_signature", a, r)
    BY <2>2 DEF Verify
  <2>4. last' = [f |-> "verify_signature", args |-> a, before |-> memory, returned |-> r]
    BY <2>3 DEF Returned
  <2>5. ChainAcceptsWhatAppsAccept'
    BY <2>1, <2>4, SignatureAgrees
  <2>6. last' # NoCall /\ last'.f # "compute_nullifier"
    BY <2>4 DEF NoCall
  <2> QED BY <1>2, <2>1, <2>5, <2>6 DEF SurfacesInv, NullifierLandsInOut, NoCall
<1>3. CASE asked' = NoQuestion /\ BbsVerifyProof
  <2>1. memory \in [1..MEM -> Cells] /\ memory' = memory
    BY <1>3 DEF BbsVerifyProof, MayCall, Verify, SurfacesInv
  <2>2. PICK a \in [proof : Regions, public_key : Regions, nonce : Regions] :
           Verify("bbs_verify_proof", a, phi_bbs_verify_proof(a))
    BY <1>3 DEF BbsVerifyProof
  <2>3. PICK r \in guard(phi_bbs_verify_proof(a)) : Returned("bbs_verify_proof", a, r)
    BY <2>2 DEF Verify
  <2>4. last' = [f |-> "bbs_verify_proof", args |-> a, before |-> memory, returned |-> r]
    BY <2>3 DEF Returned
  <2>5. ChainAcceptsWhatAppsAccept'
    BY <2>1, <2>4, BbsProofAgrees
  <2>6. last' # NoCall /\ last'.f # "compute_nullifier"
    BY <2>4 DEF NoCall
  <2> QED BY <1>3, <2>1, <2>5, <2>6 DEF SurfacesInv, NullifierLandsInOut, NoCall
<1>4. CASE asked' = NoQuestion /\ WebauthnVerify
  <2>1. memory \in [1..MEM -> Cells] /\ memory' = memory
    BY <1>4 DEF WebauthnVerify, MayCall, Verify, SurfacesInv
  <2>2. PICK a \in WebauthnArgs : Verify("webauthn_verify", a, phi_webauthn_verify(a))
    BY <1>4 DEF WebauthnVerify
  <2>3. PICK r \in guard(phi_webauthn_verify(a)) : Returned("webauthn_verify", a, r)
    BY <2>2 DEF Verify
  <2>4. last' = [f |-> "webauthn_verify", args |-> a, before |-> memory, returned |-> r]
    BY <2>3 DEF Returned
  <2>5. ChainAcceptsWhatAppsAccept'
    BY <2>1, <2>4, LoginAgrees
  <2>6. last' # NoCall /\ last'.f # "compute_nullifier"
    BY <2>4 DEF NoCall
  <2> QED BY <1>4, <2>1, <2>5, <2>6 DEF SurfacesInv, NullifierLandsInOut, NoCall
<1>5. CASE asked' = NoQuestion /\ ComputeNullifier
  <2>1. memory \in [1..MEM -> Cells]
    BY <1>5 DEF ComputeNullifier, MayCall, SurfacesInv
  <2>2. PICK a \in [secret : Regions, topic : Regions, out : Regions] :
           \E r \in phi_compute_nullifier(a) :
              Returned("compute_nullifier", a, r[1]) /\ memory' = r[2]
    BY <1>5 DEF ComputeNullifier
  <2>3. PICK r \in phi_compute_nullifier(a) :
           Returned("compute_nullifier", a, r[1]) /\ memory' = r[2]
    BY <2>2
  <2>4. last' = [f |-> "compute_nullifier", args |-> a, before |-> memory, returned |-> r[1]]
    BY <2>3 DEF Returned
  <2>5. NullifierLandsInOut'
    BY <2>1, <2>3, <2>4, NullifierIsWritten
  <2>6. last' # NoCall /\ last'.f = "compute_nullifier"
    BY <2>4 DEF NoCall
  <2> QED
    BY <1>5, <2>5, <2>6 DEF SurfacesInv, ChainAcceptsWhatAppsAccept, IsVerdict, NoCall
<1>6. CASE asked' = NoQuestion /\ Refill
  BY <1>6 DEF Refill, SurfacesInv, ChainAcceptsWhatAppsAccept, NullifierLandsInOut, IsVerdict,
     NoCall
<1>7. CASE UNCHANGED svars
  <2>1. last' = last /\ memory' = memory /\ asked' = asked
    BY <1>7 DEF svars
  <2>2. IsVerdict' = IsVerdict /\ Meaningful' = Meaningful /\ ByValue' = ByValue
    BY <2>1 DEF IsVerdict, Meaningful, ByValue, Stored
  <2>3. ChainAcceptsWhatAppsAccept'
    BY <2>1, <2>2 DEF SurfacesInv, ChainAcceptsWhatAppsAccept
  <2>4. NullifierLandsInOut'
    BY <2>1, <2>2 DEF SurfacesInv, NullifierLandsInOut
  <2> QED BY <2>1, <2>3, <2>4 DEF SurfacesInv
<1> QED
  BY <1>1, <1>2, <1>3, <1>4, <1>5, <1>6, <1>7 DEF SNext

(* The verifying exports of the C ABI: for every core, memory, length and  *)
(* overlap of regions, 1 comes back exactly when the arguments name bytes  *)
(* and the phone's and the browser's wrappers both answer true.            *)
THEOREM ChainAcceptsSafety == SSpec => []ChainAcceptsWhatAppsAccept
<1>1. SurfacesInv => ChainAcceptsWhatAppsAccept
  BY DEF SurfacesInv
<1> QED
  BY <1>1, SurfacesInvInit, SurfacesInvStep, PTL DEF SSpec

(* phi_compute_nullifier: for every memory size, capacity and overlap of   *)
(* out with the inputs, what lands in out is the nullifier of the bytes    *)
(* passed, nothing outside out changes, and a refusal changes nothing.     *)
THEOREM NullifierLandsSafety == SSpec => []NullifierLandsInOut
<1>1. SurfacesInv => NullifierLandsInOut
  BY DEF SurfacesInv
<1> QED
  BY <1>1, SurfacesInvInit, SurfacesInvStep, PTL DEF SSpec

(* wasm.rs answers every question as api.rs does, for every core, and      *)
(* refuses a list of claims with an element that is not a Uint8Array.      *)
THEOREM BrowserAgreesSafety == SSpec => []BrowserAgreesWithPhone
<1>1. SurfacesInv => BrowserAgreesWithPhone
  <2> SUFFICES ASSUME asked \in Questions PROVE BrowserAgreesWithPhone
    BY DEF SurfacesInv, BrowserAgreesWithPhone
  <2> QED BY BrowserAnswers DEF BrowserAgreesWithPhone
<1> QED
  BY <1>1, SurfacesInvInit, SurfacesInvStep, PTL DEF SSpec
=============================================================================
