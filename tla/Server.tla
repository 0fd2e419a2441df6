------------------------------- MODULE Server -------------------------------
(***************************************************************************)
(* The trainer's TCP server, src/trainer/internal/server.cpp, on top of    *)
(* the looper.  One thread holds the acceptor.  When it has accepted a     *)
(* connection it hands the acceptor to a new thread, unless there are      *)
(* max_threads_count() already; it reads the request, posts one callback   *)
(* for each message, waits until the looper has destroyed them all, writes *)
(* what they appended, and ends, or loops if it still has the acceptor.    *)
(*                                                                         *)
(* A client here is one connection: a program that tries again is another  *)
(* client.  The handlers are the looper's callbacks; each appends one      *)
(* message to its sink (trainer_app_server.cpp, the outcomes handler).     *)
(***************************************************************************)
EXTENDS Naturals, Sequences, FiniteSets, SequencesExt

CONSTANTS
  ServerThreads,  \* identities for server threads, reused when one has ended
  FirstThread,    \* the thread server::start makes
  RunThread,      \* the looper's thread
  MaxThreads,     \* max_threads_count()
  Clients,        \* the connections of a behaviour: the bound on requests
  MaxMessages,    \* bound on the messages of a request
  Closed,         \* the acceptor when its last holder has destroyed it
  NoClient,
  DoInit,         \* app::do_init, the callback that starts the server
  NoCallback,
  BufSz

ASSUME ServerAssumption ==
  /\ IsFiniteSet(ServerThreads)
  /\ FirstThread \in ServerThreads
  /\ MaxThreads \in 1 .. Cardinality(ServerThreads)
  /\ Closed \notin ServerThreads
  /\ NoClient \notin Clients
  /\ MaxMessages \in Nat \ {0}

Messages == Clients \X (1 .. MaxMessages)
Callbacks == Messages \cup {DoInit}

VARIABLES
  c, front, todo, spent, run, stage, arg, unposted, done,   \* the looper
  pc,            \* pc[t]: where server thread t is in server_thread
  serving,       \* serving[t]: the client whose socket t has
  posted,        \* posted[t]: messages of the request t has posted
  acceptor,      \* the thread that holds the acceptor, or Closed
  threads_count,
  backlog,       \* connections not accepted yet, oldest first
  request,       \* request[cl]: its number of messages; 0: nothing was sent
  outcome,       \* outcome[cl]: how far the connection has come
  handled,       \* messages whose handler has appended to its sink
  released       \* messages whose sink is destroyed: notify_one was called

looperVars == <<c, front, todo, spent, run, stage, arg, unposted, done>>
serverVars == <<pc, serving, posted, acceptor, threads_count>>
clientVars == <<backlog, request, outcome>>
sinkVars == <<handled, released>>
vars == <<looperVars, serverVars, clientVars, sinkVars>>

L == INSTANCE Looper WITH Posters <- ServerThreads

PCs == {"none", "starting", "accept", "read", "post", "wait", "ended"}

\* do_init is running on the looper and has just called server::start.
Init ==
  /\ c = 0
  /\ front = <<>> /\ todo = <<>> /\ spent = <<DoInit>>
  /\ run = "callback"
  /\ stage = [t \in L!Threads |-> "out"]
  /\ arg = [t \in L!Threads |-> NoCallback]
  /\ unposted = Messages
  /\ done = <<DoInit>>
  /\ pc = [t \in ServerThreads |-> IF t = FirstThread THEN "starting" ELSE "none"]
  /\ serving = [t \in ServerThreads |-> NoClient]
  /\ posted = [t \in ServerThreads |-> 0]
  /\ acceptor = FirstThread
  /\ threads_count = 0
  /\ backlog = <<>>
  /\ request = [cl \in Clients |-> 0]
  /\ outcome = [cl \in Clients |-> "new"]
  /\ handled = {} /\ released = {}

-----------------------------------------------------------------------------
(* Clients *)

\* A client connects and will send a request of n messages, n = 0 if it
\* drops the connection first.  Without a listener it is refused.
Connect(cl, n) ==
  /\ outcome[cl] = "new"
  /\ IF acceptor = Closed
       THEN /\ outcome' = [outcome EXCEPT ![cl] = "refused"]
            /\ UNCHANGED <<backlog, request>>
       ELSE /\ outcome' = [outcome EXCEPT ![cl] = "connected"]
            /\ backlog' = Append(backlog, cl)
            /\ request' = [request EXCEPT ![cl] = n]
  /\ UNCHANGED <<looperVars, serverVars, sinkVars>>

-----------------------------------------------------------------------------
(* server_thread *)

ThreadStart(t) ==
  /\ pc[t] = "starting"
  /\ pc' = [pc EXCEPT ![t] = "accept"]
  /\ threads_count' = threads_count + 1
  /\ UNCHANGED <<looperVars, serving, posted, acceptor, clientVars, sinkVars>>

\* Mutant of MaySpawn: the limit is passed by one.
MaySpawn_OneMore == threads_count <= MaxThreads

\* Only the holder of the acceptor makes threads, and it has counted itself.
MaySpawn == threads_count < MaxThreads

\* accept() returns; the acceptor moves to a new thread if one may be made.
Accept(t) ==
  /\ pc[t] = "accept" /\ acceptor = t
  /\ backlog # <<>>
  /\ serving' = [serving EXCEPT ![t] = Head(backlog)]
  /\ backlog' = Tail(backlog)
  /\ posted' = [posted EXCEPT ![t] = 0]
  /\ IF MaySpawn
       THEN \E u \in {v \in ServerThreads : pc[v] \in {"none", "ended"}} :
              /\ pc' = [pc EXCEPT ![t] = "read", ![u] = "starting"]
              /\ acceptor' = u
       ELSE /\ pc' = [pc EXCEPT ![t] = "read"]
            /\ UNCHANGED acceptor
  /\ UNCHANGED <<looperVars, threads_count, request, outcome, sinkVars>>

\* Mutant of Finish: the body never loops.
Finish_NoLoop(t) ==
  /\ pc' = [pc EXCEPT ![t] = "ended"]
  /\ threads_count' = threads_count - 1

\* The end of the body: loop with the acceptor, or leave the thread.
Finish(t) ==
  IF acceptor = t
    THEN /\ pc' = [pc EXCEPT ![t] = "accept"]
         /\ UNCHANGED threads_count
    ELSE /\ pc' = [pc EXCEPT ![t] = "ended"]
         /\ threads_count' = threads_count - 1

\* The connection broke: an exception that the body catches.
Fail(t) ==
  /\ outcome' = [outcome EXCEPT ![serving[t]] = "dropped"]
  /\ serving' = [serving EXCEPT ![t] = NoClient]
  /\ Finish(t)

Read(t) ==
  /\ pc[t] = "read" /\ request[serving[t]] > 0
  /\ pc' = [pc EXCEPT ![t] = "post"]
  /\ UNCHANGED <<looperVars, serving, posted, acceptor, threads_count,
                 clientVars, sinkVars>>

ReadFails(t) ==
  /\ pc[t] = "read" /\ request[serving[t]] > 0
  /\ Fail(t)
  /\ UNCHANGED <<looperVars, posted, acceptor, backlog, request, sinkVars>>

\* Mutant of ReadEmpty: the early return counts the thread off as well.
ReadEmpty_Twice(t) ==
  /\ pc[t] = "read" /\ request[serving[t]] = 0
  /\ pc' = [pc EXCEPT ![t] = "ended"]
  /\ threads_count' = threads_count - 2
  /\ serving' = [serving EXCEPT ![t] = NoClient]
  /\ outcome' = [outcome EXCEPT ![serving[t]] = "dropped"]
  /\ UNCHANGED <<looperVars, posted, acceptor, backlog, request, sinkVars>>

\* An empty request: the thread returns, and if it still has the acceptor
\* it destroys it, with all that waits in the backlog.
ReadEmpty(t) ==
  /\ pc[t] = "read" /\ request[serving[t]] = 0
  /\ pc' = [pc EXCEPT ![t] = "ended"]
  /\ threads_count' = threads_count - 1
  /\ serving' = [serving EXCEPT ![t] = NoClient]
  /\ IF acceptor = t
       THEN /\ acceptor' = Closed
            /\ backlog' = <<>>
            /\ outcome' = [cl \in Clients |->
                 IF cl = serving[t] THEN "dropped"
                 ELSE IF \E i \in DOMAIN backlog : backlog[i] = cl THEN "refused"
                 ELSE outcome[cl]]
       ELSE /\ outcome' = [outcome EXCEPT ![serving[t]] = "dropped"]
            /\ UNCHANGED <<acceptor, backlog>>
  /\ UNCHANGED <<looperVars, posted, request, sinkVars>>

\* l.post(bind(handler, ..., ws.get_sink())), once for each message.
PostEnter(t) ==
  /\ pc[t] = "post"
  /\ posted[t] < request[serving[t]]
  /\ L!Enter(t, <<serving[t], posted[t] + 1>>)
  /\ UNCHANGED <<serverVars, clientVars, sinkVars>>

PostPush(t) ==
  /\ L!Enqueue(t)
  /\ UNCHANGED <<serverVars, clientVars, sinkVars>>

PostReturn(t) ==
  /\ L!Leave(t)
  /\ posted' = [posted EXCEPT ![t] = @ + 1]
  /\ UNCHANGED <<pc, serving, acceptor, threads_count, clientVars, sinkVars>>

Wait(t) ==
  /\ pc[t] = "post" /\ stage[t] = "out"
  /\ posted[t] = request[serving[t]]
  /\ pc' = [pc EXCEPT ![t] = "wait"]
  /\ UNCHANGED <<looperVars, serving, posted, acceptor, threads_count,
                 clientVars, sinkVars>>

\* Mutant of Ready: append() notifies, not the destruction of the sink.
Ready_OnAppend(cl) ==
  Cardinality({m \in handled : m \in Messages /\ m[1] = cl}) = request[cl]

\* Mutant of Ready: the promise is set by the first sink.
Ready_First(cl) == \E m \in released : m[1] = cl

\* Mutant of Ready: _count++ in the place of ++_count.
Ready_PostIncrement(cl) ==
  Cardinality({m \in released : m[1] = cl}) = request[cl] + 1

\* response_wait_state::notify_one sets the promise on the last release.
Ready(cl) ==
  Cardinality({m \in released : m[1] = cl}) = request[cl]

\* ws.wait() returns; what is in the slots is written.
Respond(t) ==
  /\ pc[t] = "wait" /\ Ready(serving[t])
  /\ outcome' = [outcome EXCEPT ![serving[t]] = "answered"]
  /\ serving' = [serving EXCEPT ![t] = NoClient]
  /\ Finish(t)
  /\ UNCHANGED <<looperVars, posted, acceptor, backlog, request, sinkVars>>

RespondFails(t) ==
  /\ pc[t] = "wait" /\ Ready(serving[t])
  /\ Fail(t)
  /\ UNCHANGED <<looperVars, posted, acceptor, backlog, request, sinkVars>>

ThreadStep(t) ==
  \/ ThreadStart(t) \/ Accept(t)
  \/ Read(t) \/ ReadFails(t) \/ ReadEmpty(t)
  \/ PostEnter(t) \/ PostPush(t) \/ PostReturn(t)
  \/ Wait(t) \/ Respond(t) \/ RespondFails(t)

-----------------------------------------------------------------------------
(* The looper *)

CheckPredicate ==
  /\ L!CheckPredicate
  /\ UNCHANGED <<serverVars, clientVars, sinkVars>>

SpuriousWakeUp ==
  /\ L!SpuriousWakeUp
  /\ UNCHANGED <<serverVars, clientVars, sinkVars>>

\* A handler runs and appends its response.
Handle ==
  /\ L!StartCallback
  /\ handled' = handled \cup {Head(todo)}
  /\ UNCHANGED <<serverVars, clientVars, released>>

HandlerReturns ==
  /\ L!EndCallback
  /\ UNCHANGED <<serverVars, clientVars, sinkVars>>

\* Destroying the callbacks of the batch destroys their sinks.
ReleaseSinks ==
  /\ L!ClearBatch
  /\ released' = released \cup (ToSet(spent) \ {DoInit})
  /\ UNCHANGED <<serverVars, clientVars, handled>>

LooperStep == CheckPredicate \/ Handle \/ HandlerReturns \/ ReleaseSinks

Next ==
  \/ \E cl \in Clients, n \in 0 .. MaxMessages : Connect(cl, n)
  \/ \E t \in ServerThreads : ThreadStep(t)
  \/ LooperStep
  \/ SpuriousWakeUp

Spec == Init /\ [][Next]_vars

\* Threads that can go on do, and so does the looper.  Clients need not
\* connect, and nothing promises a spurious wake-up.
Fairness ==
  /\ \A t \in ServerThreads : WF_vars(ThreadStep(t))
  /\ WF_vars(LooperStep)

FairSpec == Spec /\ Fairness

-----------------------------------------------------------------------------
(* Properties *)

Running == {t \in ServerThreads : pc[t] \notin {"none", "ended"}}

TypeOK ==
  /\ pc \in [ServerThreads -> PCs]
  /\ serving \in [ServerThreads -> Clients \cup {NoClient}]
  /\ posted \in [ServerThreads -> 0 .. MaxMessages]
  /\ acceptor \in ServerThreads \cup {Closed}
  /\ threads_count \in 0 .. Cardinality(ServerThreads)
  /\ backlog \in Seq(Clients)
  /\ request \in [Clients -> 0 .. MaxMessages]
  /\ outcome \in [Clients -> {"new", "connected", "refused", "dropped", "answered"}]
  /\ handled \in SUBSET Callbacks
  /\ released \in SUBSET Messages

\* However threads end and are made anew, there are never more of them than
\* max_threads_count(), a thread that has not yet counted itself included.
ThreadsBounded == Cardinality(Running) <= MaxThreads

\* The acceptor is held by a running thread; it is lost only to a client
\* that sent nothing, and only by a thread that could not pass it on.
AcceptorHeld ==
  IF acceptor = Closed
    THEN \E cl \in Clients : outcome[cl] = "dropped" /\ request[cl] = 0
    ELSE pc[acceptor] \notin {"none", "ended"}

\* While the looper holds a callback with a sink, the response_wait_state
\* that the sink points into is alive on the stack of the thread that
\* posted it.
WaitStateOutlivesSinks ==
  \A m \in Messages :
    m \notin unposted /\ m \notin released =>
      \E t \in ServerThreads : pc[t] \in {"post", "wait"} /\ serving[t] = m[1]

\* A response leaves only when every message of its request is handled, so
\* that it holds one answer for each, in the order of the request.
ResponseComplete ==
  \A cl \in Clients : outcome[cl] = "answered" =>
    \A i \in 1 .. request[cl] : <<cl, i>> \in handled

\* Every request that has arrived is answered or its connection breaks.
EveryRequestSettled ==
  \A cl \in Clients : (outcome[cl] = "connected") ~> (outcome[cl] # "connected")

\* Where a request is left waiting, it is for a looper that sleeps on queued
\* callbacks: nothing else in the server, no order of accepting, posting,
\* running and releasing, keeps a request for ever.
OnlyLostWakeUpsHang ==
  \A cl \in Clients :
    (outcome[cl] = "connected") ~>
      (outcome[cl] # "connected" \/ (run = "blocked" /\ front # <<>>))

=============================================================================
