----------------------------- MODULE ServerProofs -----------------------------
(***************************************************************************)
(* Theorems about Server, for every number of threads, of connections and  *)
(* of messages in a request.                                               *)
(***************************************************************************)
EXTENDS Server, FiniteSetTheorems, SequenceTheorems, TLAPS

-----------------------------------------------------------------------------
(* The inductive invariant *)

\* Types, of the looper's variables those that carry callbacks.  That
\* threads_count is a natural number follows from CountExact below.
Typed ==
  /\ front \in Seq(Messages) /\ todo \in Seq(Messages) /\ spent \in Seq(Callbacks)
  /\ stage \in [L!Threads -> L!Stages]
  /\ arg \in [L!Threads -> Callbacks \cup {NoCallback}]
  /\ unposted \in SUBSET Messages
  /\ pc \in [ServerThreads -> PCs]
  /\ serving \in [ServerThreads -> Clients \cup {NoClient}]
  /\ posted \in [ServerThreads -> 0 .. MaxMessages]
  /\ acceptor \in ServerThreads \cup {Closed}
  /\ threads_count \in Int
  /\ backlog \in Seq(Clients)
  /\ request \in [Clients -> 0 .. MaxMessages]
  /\ outcome \in [Clients -> {"new", "connected", "refused", "dropped", "answered"}]
  /\ handled \in SUBSET Callbacks
  /\ released \in SUBSET Messages

\* Only the holder of the acceptor is starting or waits for a connection.
HolderAccepts ==
  \A t \in ServerThreads : pc[t] \in {"starting", "accept"} => acceptor = t

\* threads_count counts the running threads that have begun.
Counted == Running \ {t \in ServerThreads : pc[t] = "starting"}
CountExact == threads_count = Cardinality(Counted)

\* A thread serves a connection from accept() to the end of the body, which
\* is connected, and no other thread serves it.
ServesOne ==
  /\ \A t \in ServerThreads : serving[t] # NoClient <=> pc[t] \in {"read", "post", "wait"}
  /\ \A t \in ServerThreads : serving[t] # NoClient => outcome[serving[t]] = "connected"
  /\ \A t, u \in ServerThreads : serving[t] = serving[u] /\ serving[t] # NoClient => t = u

\* What waits in the backlog is connected, waits once and is not served.
BacklogFresh ==
  /\ \A i \in 1 .. Len(backlog) :
       outcome[backlog[i]] = "connected" /\ \A t \in ServerThreads : serving[t] # backlog[i]
  /\ \A i, j \in 1 .. Len(backlog) : backlog[i] = backlog[j] => i = j

\* How far a thread is in its request: the messages before posted[t] are with
\* the looper, and one more while it is inside post().
Taken(t) == posted[t] + IF stage[t] = "out" THEN 0 ELSE 1
InOrder(t) ==
  /\ pc[t] # "post" => stage[t] = "out"
  /\ pc[t] = "read" => posted[t] = 0
  /\ pc[t] = "post" => Taken(t) <= request[serving[t]]
  /\ pc[t] = "wait" => posted[t] = request[serving[t]]
  /\ stage[t] = "entered" => arg[t] = <<serving[t], posted[t] + 1>>
  /\ pc[t] \in {"post", "wait"} =>
       \A i \in 1 .. MaxMessages : <<serving[t], i>> \notin unposted <=> i <= Taken(t)
PostsInOrder == \A t \in ServerThreads : InOrder(t)

Busy(cl) == \E t \in ServerThreads : pc[t] \in {"post", "wait"} /\ serving[t] = cl

\* A message that has been posted has a thread that waits for it, until its
\* connection is over and its sink is destroyed.
PostedIsAwaited ==
  \A m \in Messages \ unposted :
    m \notin released \/ outcome[m[1]] \in {"new", "connected"} => Busy(m[1])

\* What the looper holds has been posted; what it has called is handled; and
\* only sinks of called handlers are destroyed.
LooperHolds ==
  /\ \A i \in 1 .. Len(front) : front[i] \notin unposted
  /\ \A i \in 1 .. Len(todo) : todo[i] \notin unposted
  /\ \A i \in 1 .. Len(spent) : spent[i] = DoInit \/ spent[i] \in handled \ unposted
  /\ \A m \in released : m \in handled \ unposted

Inv ==
  /\ Typed
  /\ HolderAccepts /\ CountExact /\ ThreadsBounded /\ AcceptorHeld
  /\ ServesOne /\ BacklogFresh /\ PostsInOrder /\ PostedIsAwaited /\ LooperHolds
  /\ ResponseComplete

-----------------------------------------------------------------------------
(* Types *)

\* The actions of Next, unfolded once for all the step lemmas below.
LEMMA NextCases ==
  ASSUME [Next]_vars
  PROVE  \/ \E cl \in Clients, n \in 0 .. MaxMessages : Connect(cl, n)
         \/ \E t \in ServerThreads : ThreadStart(t)
         \/ \E t \in ServerThreads : Accept(t)
         \/ \E t \in ServerThreads : Read(t)
         \/ \E t \in ServerThreads : ReadFails(t)
         \/ \E t \in ServerThreads : ReadEmpty(t)
         \/ \E t \in ServerThreads : PostEnter(t)
         \/ \E t \in ServerThreads : PostPush(t)
         \/ \E t \in ServerThreads : PostReturn(t)
         \/ \E t \in ServerThreads : Wait(t)
         \/ \E t \in ServerThreads : Respond(t)
         \/ \E t \in ServerThreads : RespondFails(t)
         \/ CheckPredicate \/ Handle \/ HandlerReturns \/ ReleaseSinks
         \/ SpuriousWakeUp
         \/ UNCHANGED vars
BY DEF Next, ThreadStep, LooperStep

\* Messages are pairs of a connection and a place in its request.
LEMMA MessagePairs ==
  ASSUME NEW cl \in Clients, NEW i \in 1 .. MaxMessages
  PROVE  <<cl, i>> \in Messages /\ <<cl, i>>[1] = cl /\ <<cl, i>>[2] = i
BY DEF Messages

\* A thread that is in the body serves a connection.
LEMMA ServingClient ==
  ASSUME Typed, ServesOne, NEW t \in ServerThreads, pc[t] \in {"read", "post", "wait"}
  PROVE  serving[t] \in Clients /\ serving[t] # NoClient
BY DEF Typed, ServesOne

LEMMA InitTyped == Init => Typed
<1> SUFFICES ASSUME Init PROVE Typed
  OBVIOUS
<1>1. <<>> \in Seq(Messages) /\ <<>> \in Seq(Clients) /\ <<DoInit>> \in Seq(Callbacks)
  BY DEF Callbacks
<1>2. /\ stage \in [L!Threads -> L!Stages]
      /\ arg \in [L!Threads -> Callbacks \cup {NoCallback}]
  BY DEF Init, L!Stages
<1>3. /\ pc \in [ServerThreads -> PCs]
      /\ serving \in [ServerThreads -> Clients \cup {NoClient}]
      /\ posted \in [ServerThreads -> 0 .. MaxMessages]
      /\ request \in [Clients -> 0 .. MaxMessages]
      /\ outcome \in [Clients -> {"new", "connected", "refused", "dropped", "answered"}]
  BY ServerAssumption DEF Init, PCs
<1>4. acceptor \in ServerThreads \cup {Closed} /\ threads_count \in Int
  BY ServerAssumption DEF Init
<1>5. QED
  BY <1>1, <1>2, <1>3, <1>4 DEF Init, Typed

LEMMA StepTyped ==
  ASSUME Typed, ServesOne, PostsInOrder, [Next]_vars
  PROVE  Typed'
<1> USE DEF Typed, looperVars, serverVars, clientVars, sinkVars
<1>1. ASSUME NEW cl \in Clients, NEW n \in 0 .. MaxMessages, Connect(cl, n)
      PROVE  Typed'
  <2>1. Append(backlog, cl) \in Seq(Clients)
    BY AppendProperties
  <2>2. QED
    BY <1>1, <2>1 DEF Connect
<1>2. ASSUME NEW t \in ServerThreads, ThreadStart(t)
      PROVE  Typed'
  BY <1>2 DEF ThreadStart, PCs
<1>3. ASSUME NEW t \in ServerThreads, Accept(t)
      PROVE  Typed'
  <2>1. Head(backlog) \in Clients /\ backlog' \in Seq(Clients)
    BY <1>3, HeadTailProperties DEF Accept
  <2>2. serving' \in [ServerThreads -> Clients \cup {NoClient}]
    BY <1>3, <2>1 DEF Accept
  <2>3. posted' \in [ServerThreads -> 0 .. MaxMessages]
    BY <1>3, ServerAssumption DEF Accept
  <2>4. pc' \in [ServerThreads -> PCs] /\ acceptor' \in ServerThreads \cup {Closed}
    BY <1>3 DEF Accept, PCs
  <2>5. QED
    BY <1>3, <2>1, <2>2, <2>3, <2>4 DEF Accept
<1>4. ASSUME NEW t \in ServerThreads, Finish(t)
      PROVE  pc' \in [ServerThreads -> PCs] /\ threads_count' \in Int
  <2>1. CASE acceptor = t
    BY <1>4, <2>1 DEF Finish, PCs
  <2>2. CASE acceptor # t
    <3>1. pc' = [pc EXCEPT ![t] = "ended"] /\ threads_count' = threads_count - 1
      BY <1>4, <2>2 DEF Finish
    <3>2. QED
      BY <3>1 DEF PCs
  <2>3. QED
    BY <2>1, <2>2
<1>5. ASSUME NEW t \in ServerThreads, Read(t) \/ Wait(t)
      PROVE  Typed'
  BY <1>5 DEF Read, Wait, PCs
<1>6. ASSUME NEW t \in ServerThreads, ReadFails(t) \/ Respond(t) \/ RespondFails(t)
      PROVE  Typed'
  <2>1. Finish(t)
    BY <1>6 DEF ReadFails, Respond, RespondFails, Fail
  <2>2. QED
    BY <1>4, <1>6, <2>1 DEF ReadFails, Respond, RespondFails, Fail
<1>7. ASSUME NEW t \in ServerThreads, ReadEmpty(t)
      PROVE  Typed'
  <2>1. <<>> \in Seq(Clients)
    OBVIOUS
  <2>2. backlog' \in Seq(Clients) /\ acceptor' \in ServerThreads \cup {Closed}
    BY <1>7, <2>1 DEF ReadEmpty
  <2>3. outcome' \in [Clients -> {"new", "connected", "refused", "dropped", "answered"}]
    BY <1>7 DEF ReadEmpty
  <2>4. QED
    BY <1>7, <2>2, <2>3 DEF ReadEmpty, PCs
<1>8. ASSUME NEW t \in ServerThreads, PostEnter(t)
      PROVE  Typed'
  <2>1. /\ stage' = [stage EXCEPT ![t] = "entered"]
        /\ arg' = [arg EXCEPT ![t] = <<serving[t], posted[t] + 1>>]
        /\ <<serving[t], posted[t] + 1>> \in unposted
        /\ unposted' = unposted \ {<<serving[t], posted[t] + 1>>}
    BY <1>8 DEF PostEnter, L!Enter
  <2>2. arg' \in [L!Threads -> Callbacks \cup {NoCallback}]
    BY <2>1 DEF Callbacks
  <2>3. stage' \in [L!Threads -> L!Stages]
    BY <2>1 DEF L!Stages
  <2>4. QED
    BY <1>8, <2>1, <2>2, <2>3 DEF PostEnter, L!Enter, L!bufferVars
<1>9. ASSUME NEW t \in ServerThreads, PostPush(t)
      PROVE  Typed'
  <2>1. /\ stage[t] = "entered"
        /\ front' = Append(front, arg[t])
        /\ arg' = [arg EXCEPT ![t] = NoCallback]
        /\ stage' = [stage EXCEPT ![t] = "queued"]
    BY <1>9 DEF PostPush, L!Enqueue
  <2>2. pc[t] = "post" /\ posted[t] < request[serving[t]] /\ serving[t] \in Clients
    BY <2>1, ServingClient DEF PostsInOrder, InOrder, Taken
  <2>3. arg[t] \in Messages
    <3>1. posted[t] \in Nat /\ request[serving[t]] \in 0 .. MaxMessages
      BY <2>2, ServerAssumption
    <3>2. posted[t] + 1 \in 1 .. MaxMessages
      BY <2>2, <3>1, ServerAssumption
    <3>3. arg[t] = <<serving[t], posted[t] + 1>>
      BY <2>1 DEF PostsInOrder, InOrder
    <3>4. QED
      BY <2>2, <3>2, <3>3, MessagePairs
  <2>4. front' \in Seq(Messages)
    BY <2>1, <2>3, AppendProperties
  <2>5. arg' \in [L!Threads -> Callbacks \cup {NoCallback}]
    BY <2>1
  <2>6. stage' \in [L!Threads -> L!Stages]
    BY <2>1 DEF L!Stages
  <2>7. QED
    BY <1>9, <2>4, <2>5, <2>6 DEF PostPush, L!Enqueue
<1>10. ASSUME NEW t \in ServerThreads, PostReturn(t)
       PROVE  Typed'
  <2>1. stage[t] = "queued" /\ stage' = [stage EXCEPT ![t] = "out"]
    BY <1>10 DEF PostReturn, L!Leave
  <2>2. posted[t] + 1 \in 0 .. MaxMessages
    <3>1. pc[t] = "post" /\ posted[t] + 1 <= request[serving[t]] /\ serving[t] \in Clients
      BY <2>1, ServingClient DEF PostsInOrder, InOrder, Taken
    <3>2. QED
      BY <3>1, ServerAssumption
  <2>3. posted' \in [ServerThreads -> 0 .. MaxMessages]
    BY <1>10, <2>2 DEF PostReturn
  <2>4. stage' \in [L!Threads -> L!Stages]
    BY <2>1 DEF L!Stages
  <2>5. QED
    BY <1>10, <2>3, <2>4 DEF PostReturn, L!Leave, L!bufferVars
<1>11. CASE CheckPredicate
  <2>1. front' \in Seq(Messages) /\ todo' \in Seq(Messages)
    <3>1. <<>> \in Seq(Messages)
      OBVIOUS
    <3>2. QED
      BY <1>11, <3>1 DEF CheckPredicate, L!CheckPredicate
  <2>2. QED
    BY <1>11, <2>1 DEF CheckPredicate, L!CheckPredicate
<1>12. CASE Handle
  <2>1. /\ todo # <<>> /\ todo' = Tail(todo) /\ spent' = Append(spent, Head(todo))
        /\ handled' = handled \cup {Head(todo)}
    BY <1>12 DEF Handle, L!StartCallback
  <2>2. Head(todo) \in Messages /\ todo' \in Seq(Messages)
    BY <2>1, HeadTailProperties
  <2>3. spent' \in Seq(Callbacks) /\ handled' \in SUBSET Callbacks
    BY <2>1, <2>2, AppendProperties DEF Callbacks
  <2>4. QED
    BY <1>12, <2>2, <2>3 DEF Handle, L!StartCallback
<1>13. CASE HandlerReturns \/ SpuriousWakeUp
  BY <1>13 DEF HandlerReturns, SpuriousWakeUp, L!EndCallback, L!SpuriousWakeUp, L!bufferVars
<1>14. CASE ReleaseSinks
  <2>1. spent' = <<>> /\ released' = released \cup (ToSet(spent) \ {DoInit})
    BY <1>14 DEF ReleaseSinks, L!ClearBatch
  <2>2. ToSet(spent) \subseteq Callbacks
    BY ElementOfSeq, LenProperties DEF ToSet
  <2>3. released' \in SUBSET Messages
    BY <2>1, <2>2 DEF Callbacks
  <2>4. spent' \in Seq(Callbacks)
    BY <2>1
  <2>5. QED
    BY <1>14, <2>3, <2>4 DEF ReleaseSinks, L!ClearBatch
<1>15. CASE UNCHANGED vars
  BY <1>15 DEF vars
<1>16. QED
  BY <1>1, <1>2, <1>3, <1>5, <1>6, <1>7, <1>8, <1>9, <1>10, <1>11, <1>12, <1>13,
     <1>14, <1>15, NextCases

-----------------------------------------------------------------------------
(* Threads and the acceptor *)

\* The three actions in which a connection is over and the body goes on.
Ends(t) ==
  /\ pc[t] \in {"read", "wait"}
  /\ pc[t] = "wait" => Ready(serving[t])
  /\ pc' = [pc EXCEPT ![t] = IF acceptor = t THEN "accept" ELSE "ended"]
  /\ threads_count' = IF acceptor = t THEN threads_count ELSE threads_count - 1
  /\ serving' = [serving EXCEPT ![t] = NoClient]
  /\ \/ outcome' = [outcome EXCEPT ![serving[t]] = "dropped"]
     \/ pc[t] = "wait" /\ outcome' = [outcome EXCEPT ![serving[t]] = "answered"]
  /\ UNCHANGED <<looperVars, posted, acceptor, backlog, request, sinkVars>>

LEMMA EndsCases ==
  ASSUME NEW t, ReadFails(t) \/ Respond(t) \/ RespondFails(t)
  PROVE  Ends(t)
<1>1. Finish(t)
  BY DEF ReadFails, Respond, RespondFails, Fail
<1>2. /\ pc' = [pc EXCEPT ![t] = IF acceptor = t THEN "accept" ELSE "ended"]
      /\ threads_count' = IF acceptor = t THEN threads_count ELSE threads_count - 1
  <2>1. CASE acceptor = t
    BY <1>1, <2>1 DEF Finish
  <2>2. CASE acceptor # t
    BY <1>1, <2>2 DEF Finish
  <2>3. QED
    BY <2>1, <2>2
<1>3. QED
  BY <1>2 DEF Ends, ReadFails, Respond, RespondFails, Fail

\* Steps that leave the places of the threads and the acceptor alone.
Resting ==
  \/ UNCHANGED <<pc, acceptor, threads_count>>
  \/ /\ \E t \in ServerThreads : \/ pc[t] = "read" /\ pc' = [pc EXCEPT ![t] = "post"]
                                 \/ pc[t] = "post" /\ pc' = [pc EXCEPT ![t] = "wait"]
     /\ UNCHANGED <<acceptor, threads_count>>

\* The actions as the threads and the acceptor see them.
LEMMA ThreadCases ==
  ASSUME [Next]_vars
  PROVE  \/ \E t \in ServerThreads : ThreadStart(t)
         \/ \E t \in ServerThreads : Accept(t)
         \/ \E t \in ServerThreads : ReadEmpty(t)
         \/ \E t \in ServerThreads : Ends(t)
         \/ Resting
<1> USE DEF Resting
<1>1. ASSUME NEW t \in ServerThreads, Read(t) \/ Wait(t)
      PROVE  Resting
  BY <1>1 DEF Read, Wait
<1>2. ASSUME \/ \E cl \in Clients, n \in 0 .. MaxMessages : Connect(cl, n)
             \/ \E t \in ServerThreads : PostEnter(t) \/ PostPush(t) \/ PostReturn(t)
             \/ CheckPredicate \/ Handle \/ HandlerReturns \/ ReleaseSinks
             \/ SpuriousWakeUp
             \/ UNCHANGED vars
      PROVE  UNCHANGED <<pc, acceptor, threads_count>>
  BY <1>2 DEF Connect, PostEnter, PostPush, PostReturn, CheckPredicate, Handle,
     HandlerReturns, ReleaseSinks, SpuriousWakeUp, serverVars, vars
<1>3. QED
  BY <1>1, <1>2, EndsCases, NextCases

LEMMA StepHolder ==
  ASSUME Typed, HolderAccepts, [Next]_vars
  PROVE  HolderAccepts'
<1> USE DEF HolderAccepts
<1>1. ASSUME NEW t \in ServerThreads, ThreadStart(t)
      PROVE  HolderAccepts'
  BY <1>1 DEF ThreadStart, Typed
<1>2. ASSUME NEW t \in ServerThreads, Accept(t)
      PROVE  HolderAccepts'
  <2>1. \A v \in ServerThreads : v # t => pc[v] \notin {"starting", "accept"}
    BY <1>2 DEF Accept
  <2>2. CASE MaySpawn
    BY <1>2, <2>1, <2>2 DEF Accept, Typed
  <2>3. CASE ~MaySpawn
    BY <1>2, <2>1, <2>3 DEF Accept, Typed
  <2>4. QED
    BY <2>2, <2>3
<1>3. ASSUME NEW t \in ServerThreads, ReadEmpty(t)
      PROVE  HolderAccepts'
  BY <1>3 DEF ReadEmpty, Typed
<1>4. ASSUME NEW t \in ServerThreads, Ends(t)
      PROVE  HolderAccepts'
  BY <1>4 DEF Ends, Typed
<1>5. CASE Resting
  BY <1>5 DEF Resting, Typed
<1>6. QED
  BY <1>1, <1>2, <1>3, <1>4, <1>5, ThreadCases

LEMMA RunningFinite ==
  /\ IsFiniteSet(Running) /\ Cardinality(Running) \in Nat
  /\ IsFiniteSet(Counted) /\ Cardinality(Counted) \in Nat
  /\ Cardinality(Counted) <= Cardinality(ServerThreads)
<1>1. IsFiniteSet(ServerThreads) /\ Running \subseteq ServerThreads
      /\ Counted \subseteq ServerThreads
  BY ServerAssumption DEF Running, Counted
<1>2. QED
  BY <1>1, FS_Subset, FS_CardinalityType

LEMMA StepCount ==
  ASSUME Typed, CountExact, [Next]_vars
  PROVE  CountExact'
<1> USE DEF CountExact
<1>1. ASSUME NEW t \in ServerThreads, ThreadStart(t)
      PROVE  CountExact'
  <2>1. Counted' = Counted \cup {t} /\ t \notin Counted
    BY <1>1 DEF ThreadStart, Counted, Running, Typed
  <2>2. Cardinality(Counted') = Cardinality(Counted) + 1
    BY <2>1, RunningFinite, FS_AddElement
  <2>3. QED
    BY <1>1, <2>2 DEF ThreadStart
<1>2. ASSUME NEW t \in ServerThreads, Accept(t)
      PROVE  CountExact'
  <2>1. threads_count' = threads_count
    BY <1>2 DEF Accept
  <2>2. Counted' = Counted
    <3>1. CASE MaySpawn
      BY <1>2, <3>1 DEF Accept, Counted, Running, Typed
    <3>2. CASE ~MaySpawn
      BY <1>2, <3>2 DEF Accept, Counted, Running, Typed
    <3>3. QED
      BY <3>1, <3>2
  <2>3. QED
    BY <2>1, <2>2
<1>3. ASSUME NEW t \in ServerThreads, pc[t] \in {"read", "wait"},
             pc' = [pc EXCEPT ![t] = "ended"], threads_count' = threads_count - 1
      PROVE  CountExact'
  <2>1. Counted' = Counted \ {t} /\ t \in Counted
    BY <1>3 DEF Counted, Running, Typed
  <2>2. Cardinality(Counted') = Cardinality(Counted) - 1
    BY <2>1, RunningFinite, FS_RemoveElement
  <2>3. QED
    BY <1>3, <2>2
<1>4. ASSUME NEW t \in ServerThreads, ReadEmpty(t)
      PROVE  CountExact'
  BY <1>3, <1>4 DEF ReadEmpty
<1>5. ASSUME NEW t \in ServerThreads, Ends(t)
      PROVE  CountExact'
  <2>1. CASE acceptor = t
    <3>1. pc' = [pc EXCEPT ![t] = "accept"] /\ threads_count' = threads_count
      BY <1>5, <2>1 DEF Ends
    <3>2. Counted' = Counted
      BY <1>5, <3>1 DEF Ends, Counted, Running, Typed
    <3>3. QED
      BY <3>1, <3>2
  <2>2. CASE acceptor # t
    BY <1>3, <1>5, <2>2 DEF Ends
  <2>3. QED
    BY <2>1, <2>2
<1>6. CASE Resting
  <2>1. Counted' = Counted
    BY <1>6 DEF Resting, Counted, Running, Typed
  <2>2. QED
    BY <1>6, <2>1 DEF Resting
<1>7. QED
  BY <1>1, <1>2, <1>4, <1>5, <1>6, ThreadCases

\* A thread is made only while none is starting, so that the counter tells
\* how many there are.
LEMMA StepBounded ==
  ASSUME Typed, HolderAccepts, CountExact, ThreadsBounded, [Next]_vars
  PROVE  ThreadsBounded'
<1> USE DEF ThreadsBounded
<1>1. MaxThreads \in Nat
  <2>1. Cardinality(ServerThreads) \in Nat
    BY ServerAssumption, FS_CardinalityType
  <2>2. QED
    BY <2>1, ServerAssumption
<1>2. ASSUME Running' \subseteq Running
      PROVE  ThreadsBounded'
  <2>1. Cardinality(Running') <= Cardinality(Running) /\ Cardinality(Running') \in Nat
    BY <1>2, RunningFinite, FS_Subset, FS_CardinalityType
  <2>2. QED
    BY <1>1, <2>1, RunningFinite
<1>3. ASSUME NEW t \in ServerThreads, ThreadStart(t)
      PROVE  Running' \subseteq Running
  BY <1>3 DEF ThreadStart, Running, Typed
<1>4. ASSUME NEW t \in ServerThreads, Accept(t)
      PROVE  ThreadsBounded'
  <2>1. CASE MaySpawn
    <3>1. PICK u \in ServerThreads :
             pc[u] \in {"none", "ended"} /\ pc' = [pc EXCEPT ![t] = "read", ![u] = "starting"]
      BY <1>4, <2>1 DEF Accept
    <3>2. Running' = Running \cup {u} /\ u \notin Running
      BY <1>4, <3>1 DEF Accept, Running, Typed
    <3>3. Running = Counted
      BY <1>4 DEF Accept, HolderAccepts, Counted, Running
    <3>4. Cardinality(Running') = Cardinality(Running) + 1
      BY <3>2, RunningFinite, FS_AddElement
    <3>5. Cardinality(Running) < MaxThreads
      BY <2>1, <3>3 DEF MaySpawn, CountExact
    <3>6. QED
      BY <1>1, <3>4, <3>5, RunningFinite
  <2>2. CASE ~MaySpawn
    <3>1. Running' \subseteq Running
      BY <1>4, <2>2 DEF Accept, Running, Typed
    <3>2. QED
      BY <1>2, <3>1
  <2>3. QED
    BY <2>1, <2>2
<1>5. ASSUME NEW t \in ServerThreads, ReadEmpty(t) \/ Ends(t)
      PROVE  Running' \subseteq Running
  BY <1>5 DEF ReadEmpty, Ends, Running, Typed
<1>6. CASE Resting
  <2>1. Running' \subseteq Running
    BY <1>6 DEF Resting, Running, Typed
  <2>2. QED
    BY <1>2, <2>1
<1>7. QED
  BY <1>2, <1>3, <1>4, <1>5, <1>6, ThreadCases

-----------------------------------------------------------------------------
(* Connections *)

\* The actions as the connections see them.
LEMMA ClientCases ==
  ASSUME [Next]_vars
  PROVE  \/ \E cl \in Clients, n \in 0 .. MaxMessages : Connect(cl, n)
         \/ \E t \in ServerThreads : Accept(t)
         \/ \E t \in ServerThreads : Read(t) \/ Wait(t)
         \/ \E t \in ServerThreads : ReadEmpty(t)
         \/ \E t \in ServerThreads : Ends(t)
         \/ \E t \in ServerThreads : ThreadStart(t)
         \/ UNCHANGED <<pc, serving, clientVars>>
<1>1. ASSUME \/ \E t \in ServerThreads : PostEnter(t) \/ PostPush(t) \/ PostReturn(t)
             \/ CheckPredicate \/ Handle \/ HandlerReturns \/ ReleaseSinks
             \/ SpuriousWakeUp
             \/ UNCHANGED vars
      PROVE  UNCHANGED <<pc, serving, clientVars>>
  BY <1>1 DEF PostEnter, PostPush, PostReturn, CheckPredicate, Handle,
     HandlerReturns, ReleaseSinks, SpuriousWakeUp, serverVars, vars
<1>2. QED
  BY <1>1, EndsCases, NextCases

\* The number of messages of a request is fixed when it connects, and a
\* connection that is over stays so.
LEMMA OutcomesStay ==
  ASSUME Typed, ServesOne, BacklogFresh, [Next]_vars, NEW cl \in Clients
  PROVE  /\ outcome[cl] # "new" => request'[cl] = request[cl] /\ outcome'[cl] # "new"
         /\ outcome[cl] \notin {"new", "connected"} => outcome'[cl] = outcome[cl]
<1> USE DEF Typed
<1>1. ASSUME NEW k \in Clients, NEW n \in 0 .. MaxMessages, Connect(k, n)
      PROVE  k # cl => request'[cl] = request[cl] /\ outcome'[cl] = outcome[cl]
  BY <1>1 DEF Connect
<1>2. ASSUME NEW k \in Clients, NEW n \in 0 .. MaxMessages, Connect(k, n)
      PROVE  outcome[k] = "new"
  BY <1>2 DEF Connect
<1>3. ASSUME NEW t \in ServerThreads, ReadEmpty(t)
      PROVE  /\ request' = request
             /\ outcome'[cl] # "new" \/ outcome'[cl] = outcome[cl]
             /\ outcome[cl] # "connected" => outcome'[cl] = outcome[cl]
  <2>1. serving[t] \in Clients /\ outcome[serving[t]] = "connected"
    BY <1>3, ServingClient DEF ReadEmpty, ServesOne
  <2>2. \A i \in DOMAIN backlog : outcome[backlog[i]] = "connected"
    BY LenProperties DEF BacklogFresh
  <2>3. CASE acceptor = t
    <3>1. request' = request /\ outcome'[cl] =
             IF cl = serving[t] THEN "dropped"
             ELSE IF \E i \in DOMAIN backlog : backlog[i] = cl THEN "refused"
             ELSE outcome[cl]
      BY <1>3, <2>3 DEF ReadEmpty
    <3>2. outcome[cl] # "connected" =>
            cl # serving[t] /\ ~\E i \in DOMAIN backlog : backlog[i] = cl
      BY <2>1, <2>2
    <3>3. QED
      BY <3>1, <3>2
  <2>4. CASE acceptor # t
    BY <1>3, <2>1, <2>4 DEF ReadEmpty
  <2>5. QED
    BY <2>3, <2>4
<1>4. ASSUME NEW t \in ServerThreads, Ends(t)
      PROVE  /\ request' = request
             /\ outcome'[cl] # "new" \/ outcome'[cl] = outcome[cl]
             /\ outcome[cl] # "connected" => outcome'[cl] = outcome[cl]
  <2>1. serving[t] \in Clients /\ outcome[serving[t]] = "connected"
    BY <1>4, ServingClient DEF Ends, ServesOne
  <2>2. QED
    BY <1>4, <2>1 DEF Ends
<1>5. ASSUME \/ \E t \in ServerThreads : Accept(t) \/ Read(t) \/ Wait(t) \/ ThreadStart(t)
             \/ UNCHANGED <<pc, serving, clientVars>>
      PROVE  UNCHANGED <<request, outcome>>
  BY <1>5 DEF Accept, Read, Wait, ThreadStart, clientVars
<1>6. QED
  BY <1>1, <1>2, <1>3, <1>4, <1>5, ClientCases

LEMMA StepAcceptorHeld ==
  ASSUME Typed, HolderAccepts, ServesOne, BacklogFresh, AcceptorHeld, [Next]_vars
  PROVE  AcceptorHeld'
<1> USE DEF AcceptorHeld
<1>1. ASSUME acceptor = Closed, acceptor' = Closed
      PROVE  AcceptorHeld'
  <2>1. PICK cl \in Clients : outcome[cl] = "dropped" /\ request[cl] = 0
    BY <1>1
  <2>2. outcome'[cl] = "dropped" /\ request'[cl] = 0
    BY <2>1, OutcomesStay
  <2>3. QED
    BY <1>1, <2>2
<1>2. Closed \notin ServerThreads
  BY ServerAssumption
<1>3. ASSUME NEW t \in ServerThreads, ThreadStart(t)
      PROVE  AcceptorHeld'
  <2>1. acceptor = t /\ acceptor' = t /\ pc'[t] = "accept"
    BY <1>3 DEF ThreadStart, HolderAccepts, Typed
  <2>2. QED
    BY <1>2, <2>1
<1>4. ASSUME NEW t \in ServerThreads, Accept(t)
      PROVE  AcceptorHeld'
  <2>1. CASE MaySpawn
    <3>1. PICK u \in ServerThreads :
             /\ pc[u] \in {"none", "ended"} /\ pc' = [pc EXCEPT ![t] = "read", ![u] = "starting"]
             /\ acceptor' = u
      BY <1>4, <2>1 DEF Accept
    <3>2. pc'[acceptor'] = "starting" /\ acceptor' # Closed
      BY <1>2, <3>1 DEF Typed
    <3>3. QED
      BY <3>2
  <2>2. CASE ~MaySpawn
    <3>1. acceptor = t /\ acceptor' = t /\ pc'[t] = "read"
      BY <1>4, <2>2 DEF Accept, Typed
    <3>2. QED
      BY <1>2, <3>1
  <2>3. QED
    BY <2>1, <2>2
<1>5. ASSUME NEW t \in ServerThreads, ReadEmpty(t)
      PROVE  AcceptorHeld'
  <2>1. CASE acceptor = t
    <3>1. serving[t] \in Clients
      BY <1>5, ServingClient DEF ReadEmpty
    <3>2. /\ acceptor' = Closed /\ request' = request /\ request[serving[t]] = 0
          /\ outcome' = [cl \in Clients |->
                 IF cl = serving[t] THEN "dropped"
                 ELSE IF \E i \in DOMAIN backlog : backlog[i] = cl THEN "refused"
                 ELSE outcome[cl]]
      BY <1>5, <2>1 DEF ReadEmpty
    <3>3. outcome'[serving[t]] = "dropped" /\ request'[serving[t]] = 0
      BY <3>1, <3>2
    <3>4. QED
      BY <3>1, <3>2, <3>3
  <2>2. CASE acceptor # t
    <3>1. acceptor' = acceptor /\ \A u \in ServerThreads : u # t => pc'[u] = pc[u]
      BY <1>5, <2>2 DEF ReadEmpty, Typed
    <3>2. QED
      BY <1>1, <2>2, <3>1 DEF Typed
  <2>3. QED
    BY <2>1, <2>2
<1>6. ASSUME NEW t \in ServerThreads, Ends(t)
      PROVE  AcceptorHeld'
  <2>1. acceptor' = acceptor /\ \A u \in ServerThreads : u # t => pc'[u] = pc[u]
    BY <1>6 DEF Ends, Typed
  <2>2. acceptor = t => pc'[t] = "accept"
    BY <1>6 DEF Ends, Typed
  <2>3. QED
    BY <1>1, <2>1, <2>2 DEF Typed
<1>7. CASE Resting
  <2>1. acceptor' = acceptor
    BY <1>7 DEF Resting
  <2>2. \A u \in ServerThreads : pc'[u] # pc[u] => pc'[u] \in {"post", "wait"}
    BY <1>7 DEF Resting, Typed
  <2>3. QED
    BY <1>1, <2>1, <2>2 DEF Typed
<1>8. QED
  BY <1>3, <1>4, <1>5, <1>6, <1>7, ThreadCases

LEMMA StepServesOne ==
  ASSUME Typed, ServesOne, BacklogFresh, [Next]_vars
  PROVE  ServesOne'
<1> USE DEF ServesOne
<1>1. NoClient \notin Clients
  BY ServerAssumption
<1>2. ASSUME NEW k \in Clients, NEW n \in 0 .. MaxMessages, Connect(k, n)
      PROVE  ServesOne'
  <2>1. outcome[k] = "new" /\ UNCHANGED <<pc, serving>>
    BY <1>2 DEF Connect, serverVars
  <2>2. \A cl \in Clients : outcome[cl] = "connected" => outcome'[cl] = "connected"
    BY <1>2 DEF Connect, Typed
  <2>3. QED
    BY <2>1, <2>2 DEF Typed
<1>3. ASSUME NEW t \in ServerThreads, Accept(t)
      PROVE  ServesOne'
  <2>1. /\ serving' = [serving EXCEPT ![t] = Head(backlog)] /\ backlog # <<>>
        /\ outcome' = outcome
    BY <1>3 DEF Accept
  <2>2. Head(backlog) \in Clients /\ Head(backlog) = backlog[1] /\ 1 \in 1 .. Len(backlog)
    BY <2>1, HeadTailProperties, EmptySeq DEF Typed
  <2>3. /\ outcome[Head(backlog)] = "connected"
        /\ \A u \in ServerThreads : serving[u] # Head(backlog)
    BY <2>2 DEF BacklogFresh
  <2>4. pc'[t] = "read"
    BY <1>3 DEF Accept, Typed
  <2>5. \A u \in ServerThreads : u # t =>
          \/ pc'[u] = pc[u]
          \/ pc'[u] = "starting" /\ pc[u] \in {"none", "ended"}
    <3>1. CASE MaySpawn
      <4>1. PICK v \in ServerThreads :
               pc[v] \in {"none", "ended"} /\ pc' = [pc EXCEPT ![t] = "read", ![v] = "starting"]
        BY <1>3, <3>1 DEF Accept
      <4>2. QED
        BY <4>1 DEF Typed
    <3>2. CASE ~MaySpawn
      <4>1. pc' = [pc EXCEPT ![t] = "read"]
        BY <1>3, <3>2 DEF Accept
      <4>2. QED
        BY <4>1 DEF Typed
    <3>3. QED
      BY <3>1, <3>2
  <2>6. QED
    BY <1>1, <2>1, <2>2, <2>3, <2>4, <2>5 DEF Typed
<1>4. ASSUME NEW t \in ServerThreads, Read(t) \/ Wait(t) \/ ThreadStart(t)
      PROVE  ServesOne'
  BY <1>4 DEF Read, Wait, ThreadStart, clientVars, Typed
<1>5. ASSUME NEW t \in ServerThreads, ReadEmpty(t)
      PROVE  ServesOne'
  <2>1. /\ pc' = [pc EXCEPT ![t] = "ended"] /\ pc[t] = "read"
        /\ serving' = [serving EXCEPT ![t] = NoClient]
    BY <1>5 DEF ReadEmpty
  <2>2. serving[t] \in Clients
    BY <2>1, ServingClient
  <2>3. ASSUME NEW u \in ServerThreads, u # t, serving[u] # NoClient
        PROVE  outcome'[serving[u]] = outcome[serving[u]]
    <3>1. serving[u] # serving[t] /\ serving[u] \in Clients
      BY <2>3 DEF Typed
    <3>2. \A i \in DOMAIN backlog : backlog[i] # serving[u]
      BY LenProperties DEF BacklogFresh, Typed
    <3>3. QED
      BY <1>5, <2>2, <3>1, <3>2 DEF ReadEmpty, Typed
  <2>4. QED
    BY <1>1, <2>1, <2>2, <2>3 DEF Typed
<1>6. ASSUME NEW t \in ServerThreads, Ends(t)
      PROVE  ServesOne'
  <2>1. /\ pc'[t] \in {"accept", "ended"} /\ \A u \in ServerThreads : u # t => pc'[u] = pc[u]
        /\ serving' = [serving EXCEPT ![t] = NoClient]
    BY <1>6 DEF Ends, Typed
  <2>2. serving[t] \in Clients /\ serving[t] # NoClient
    BY <1>6, ServingClient DEF Ends
  <2>3. ASSUME NEW u \in ServerThreads, u # t, serving[u] # NoClient
        PROVE  outcome'[serving[u]] = outcome[serving[u]]
    BY <1>6, <2>2, <2>3 DEF Ends, Typed
  <2>4. QED
    BY <1>1, <2>1, <2>2, <2>3 DEF Typed
<1>7. CASE UNCHANGED <<pc, serving, clientVars>>
  BY <1>7 DEF clientVars
<1>8. QED
  BY <1>2, <1>3, <1>4, <1>5, <1>6, <1>7, ClientCases

LEMMA StepBacklog ==
  ASSUME Typed, ServesOne, BacklogFresh, [Next]_vars
  PROVE  BacklogFresh'
<1> USE DEF BacklogFresh
<1>1. ASSUME NEW k \in Clients, NEW n \in 0 .. MaxMessages, Connect(k, n)
      PROVE  BacklogFresh'
  <2>1. outcome[k] = "new" /\ serving' = serving
    BY <1>1 DEF Connect, serverVars
  <2>2. CASE acceptor = Closed
    <3>1. backlog' = backlog /\ outcome' = [outcome EXCEPT ![k] = "refused"]
      BY <1>1, <2>2 DEF Connect
    <3>2. \A i \in 1 .. Len(backlog) : backlog[i] # k /\ backlog[i] \in Clients
      BY <2>1, ElementOfSeq DEF Typed
    <3>3. QED
      BY <2>1, <3>1, <3>2 DEF Typed
  <2>3. CASE acceptor # Closed
    <3>1. backlog' = Append(backlog, k) /\ outcome' = [outcome EXCEPT ![k] = "connected"]
      BY <1>1, <2>3 DEF Connect
    <3>2. /\ Len(backlog) \in Nat /\ Len(backlog') = Len(backlog) + 1
          /\ \A i \in 1 .. Len(backlog) : backlog'[i] = backlog[i]
          /\ backlog'[Len(backlog) + 1] = k
      BY <3>1, AppendProperties, LenProperties DEF Typed
    <3>3. \A i \in 1 .. Len(backlog) : backlog[i] # k /\ backlog[i] \in Clients
      BY <2>1, ElementOfSeq DEF Typed
    <3>4. \A t \in ServerThreads : serving[t] # k
      BY <2>1, ServerAssumption DEF ServesOne
    <3>5. \A i \in 1 .. Len(backlog') :
            i \in 1 .. Len(backlog) \/ i = Len(backlog) + 1
      BY <3>2
    <3>6. outcome'[k] = "connected" /\ \A cl \in Clients : cl # k => outcome'[cl] = outcome[cl]
      BY <3>1 DEF Typed
    <3>7. QED
      BY <2>1, <3>2, <3>3, <3>4, <3>5, <3>6
  <2>4. QED
    BY <2>2, <2>3
<1>2. ASSUME NEW t \in ServerThreads, Accept(t)
      PROVE  BacklogFresh'
  <2>1. /\ serving' = [serving EXCEPT ![t] = Head(backlog)] /\ backlog # <<>>
        /\ outcome' = outcome /\ backlog' = Tail(backlog)
    BY <1>2 DEF Accept
  <2>2. /\ Head(backlog) = backlog[1] /\ Len(backlog) \in Nat \ {0}
        /\ Len(backlog') = Len(backlog) - 1
        /\ \A i \in 1 .. Len(backlog') : backlog'[i] = backlog[i + 1]
    BY <2>1, HeadTailProperties, EmptySeq DEF Typed
  <2>3. \A i \in 1 .. Len(backlog') : i + 1 \in 1 .. Len(backlog) /\ backlog'[i] # Head(backlog)
    BY <2>2
  <2>4. \A u \in ServerThreads : serving'[u] = serving[u] \/ serving'[u] = Head(backlog)
    BY <2>1 DEF Typed
  <2>5. QED
    BY <2>1, <2>2, <2>3, <2>4
<1>3. ASSUME NEW t \in ServerThreads, ReadEmpty(t)
      PROVE  BacklogFresh'
  <2>1. serving' = [serving EXCEPT ![t] = NoClient] /\ serving[t] \in Clients
    BY <1>3, ServingClient DEF ReadEmpty
  <2>2. CASE acceptor = t
    <3>1. backlog' = <<>>
      BY <1>3, <2>2 DEF ReadEmpty
    <3>2. Len(backlog') = 0
      BY <3>1
    <3>3. QED
      BY <3>2
  <2>3. CASE acceptor # t
    <3>1. backlog' = backlog /\ outcome' = [outcome EXCEPT ![serving[t]] = "dropped"]
      BY <1>3, <2>3 DEF ReadEmpty
    <3>2. \A i \in 1 .. Len(backlog) : backlog[i] \in Clients /\ backlog[i] # serving[t]
      BY ElementOfSeq DEF Typed
    <3>3. QED
      BY <2>1, <3>1, <3>2, ServerAssumption DEF Typed
  <2>4. QED
    BY <2>2, <2>3
<1>4. ASSUME NEW t \in ServerThreads, Ends(t)
      PROVE  BacklogFresh'
  <2>1. serving' = [serving EXCEPT ![t] = NoClient] /\ serving[t] \in Clients /\ backlog' = backlog
    BY <1>4, ServingClient DEF Ends
  <2>2. \A i \in 1 .. Len(backlog) : backlog[i] \in Clients /\ backlog[i] # serving[t]
    BY ElementOfSeq DEF Typed
  <2>3. \A cl \in Clients : cl # serving[t] => outcome'[cl] = outcome[cl]
    BY <1>4 DEF Ends, Typed
  <2>4. \A u \in ServerThreads : serving'[u] = serving[u] \/ serving'[u] = NoClient
    BY <2>1 DEF Typed
  <2>5. QED
    BY <2>1, <2>2, <2>3, <2>4, ServerAssumption
<1>5. ASSUME \/ \E t \in ServerThreads : Read(t) \/ Wait(t) \/ ThreadStart(t)
             \/ UNCHANGED <<pc, serving, clientVars>>
      PROVE  UNCHANGED <<serving, backlog, outcome>>
  BY <1>5 DEF Read, Wait, ThreadStart, clientVars
<1>6. QED
  BY <1>1, <1>2, <1>3, <1>4, <1>5, ClientCases

-----------------------------------------------------------------------------
(* Requests on their way through the looper *)

\* What a step does to the posts of a thread it is not about.
LEMMA InOrderKept ==
  ASSUME NEW t \in ServerThreads, InOrder(t),
         pc'[t] = pc[t], serving'[t] = serving[t], posted'[t] = posted[t],
         stage'[t] = stage[t], arg'[t] = arg[t],
         serving[t] # NoClient => request'[serving[t]] = request[serving[t]],
         pc[t] \in {"read", "post", "wait"} => serving[t] # NoClient,
         \A i \in 1 .. MaxMessages : <<serving[t], i>> \in unposted' <=> <<serving[t], i>> \in unposted
  PROVE  InOrder(t)'
<1>1. Taken(t)' = Taken(t)
  BY DEF Taken
<1>2. QED
  BY <1>1 DEF InOrder

\* The actions as the posts see them.
LEMMA PostCases ==
  ASSUME [Next]_vars
  PROVE  \/ \E cl \in Clients, n \in 0 .. MaxMessages : Connect(cl, n)
         \/ \E t \in ServerThreads : ThreadStart(t)
         \/ \E t \in ServerThreads : Accept(t)
         \/ \E t \in ServerThreads : Read(t)
         \/ \E t \in ServerThreads : ReadEmpty(t)
         \/ \E t \in ServerThreads : Ends(t)
         \/ \E t \in ServerThreads : PostEnter(t)
         \/ \E t \in ServerThreads : PostPush(t)
         \/ \E t \in ServerThreads : PostReturn(t)
         \/ \E t \in ServerThreads : Wait(t)
         \/ UNCHANGED <<pc, serving, posted, request, outcome, stage, arg, unposted>>
<1>1. ASSUME \/ CheckPredicate \/ Handle \/ HandlerReturns \/ ReleaseSinks
             \/ SpuriousWakeUp
             \/ UNCHANGED vars
      PROVE  UNCHANGED <<pc, serving, posted, request, outcome, stage, arg, unposted>>
  BY <1>1 DEF CheckPredicate, Handle, HandlerReturns, ReleaseSinks, SpuriousWakeUp,
     L!CheckPredicate, L!StartCallback, L!EndCallback, L!ClearBatch, L!SpuriousWakeUp,
     serverVars, clientVars, looperVars, vars
<1>2. QED
  BY <1>1, EndsCases, NextCases

\* The request a thread serves keeps its length.
LEMMA RequestKept ==
  ASSUME Typed, ServesOne, BacklogFresh, [Next]_vars, NEW t \in ServerThreads,
         serving[t] # NoClient
  PROVE  /\ serving[t] \in Clients /\ outcome[serving[t]] = "connected"
         /\ request'[serving[t]] = request[serving[t]]
<1>1. serving[t] \in Clients /\ outcome[serving[t]] = "connected"
  BY DEF Typed, ServesOne
<1>2. QED
  BY <1>1, OutcomesStay

\* Before it posts, nothing of a request is with the looper.
LEMMA NothingPosted ==
  ASSUME Typed, ServesOne, PostedIsAwaited, NEW t \in ServerThreads, pc[t] = "read"
  PROVE  \A i \in 1 .. MaxMessages : <<serving[t], i>> \in unposted
<1>1. SUFFICES ASSUME NEW i \in 1 .. MaxMessages, <<serving[t], i>> \notin unposted
               PROVE  FALSE
  OBVIOUS
<1>2. serving[t] \in Clients /\ outcome[serving[t]] = "connected" /\ serving[t] # NoClient
  BY ServingClient DEF ServesOne
<1>3. Busy(serving[t])
  BY <1>1, <1>2, MessagePairs DEF PostedIsAwaited
<1>4. QED
  BY <1>2, <1>3 DEF Busy, ServesOne

LEMMA StepPostsInOrder ==
  ASSUME Typed, ServesOne, BacklogFresh, PostsInOrder, PostedIsAwaited, [Next]_vars
  PROVE  PostsInOrder'
<1> SUFFICES ASSUME NEW u \in ServerThreads PROVE InOrder(u)'
  BY DEF PostsInOrder
<1> USE DEF Typed
<1>1. /\ InOrder(u)
      /\ serving[u] # NoClient => request'[serving[u]] = request[serving[u]]
      /\ pc[u] \in {"read", "post", "wait"} => serving[u] # NoClient
  BY RequestKept DEF PostsInOrder, ServesOne
<1>2. ASSUME UNCHANGED <<pc[u], serving[u], posted[u], stage[u], arg[u], unposted>>
      PROVE  InOrder(u)'
  BY <1>1, <1>2, InOrderKept
<1>3. ASSUME pc'[u] \notin {"read", "post", "wait"}, stage'[u] = "out"
      PROVE  InOrder(u)'
  BY <1>3 DEF InOrder
<1>4. ASSUME NEW cl \in Clients, NEW n \in 0 .. MaxMessages, Connect(cl, n)
      PROVE  InOrder(u)'
  BY <1>2, <1>4 DEF Connect, serverVars, looperVars
<1>5. ASSUME NEW t \in ServerThreads, ThreadStart(t)
      PROVE  InOrder(u)'
  <2>1. CASE u = t
    BY <1>1, <1>3, <1>5, <2>1 DEF ThreadStart, looperVars, InOrder
  <2>2. CASE u # t
    BY <1>2, <1>5, <2>2 DEF ThreadStart, looperVars
  <2>3. QED
    BY <2>1, <2>2
<1>6. ASSUME NEW t \in ServerThreads, Accept(t)
      PROVE  InOrder(u)'
  <2>1. /\ posted' = [posted EXCEPT ![t] = 0]
        /\ serving' = [serving EXCEPT ![t] = Head(backlog)]
        /\ UNCHANGED <<stage, arg, unposted>> /\ pc[t] = "accept"
    BY <1>6 DEF Accept, looperVars
  <2>2. /\ pc'[t] = "read"
        /\ \A v \in ServerThreads : v # t =>
             \/ pc'[v] = pc[v]
             \/ pc'[v] = "starting" /\ pc[v] \in {"none", "ended"}
    <3>1. CASE MaySpawn
      <4>1. PICK v \in ServerThreads :
               pc[v] \in {"none", "ended"} /\ pc' = [pc EXCEPT ![t] = "read", ![v] = "starting"]
        BY <1>6, <3>1 DEF Accept
      <4>2. QED
        BY <2>1, <4>1
    <3>2. CASE ~MaySpawn
      <4>1. pc' = [pc EXCEPT ![t] = "read"]
        BY <1>6, <3>2 DEF Accept
      <4>2. QED
        BY <4>1
    <3>3. QED
      BY <3>1, <3>2
  <2>3. CASE u = t
    BY <1>1, <2>1, <2>2, <2>3 DEF InOrder
  <2>4. CASE u # t /\ pc'[u] = pc[u]
    BY <1>2, <2>1, <2>4
  <2>5. CASE u # t /\ pc'[u] = "starting" /\ pc[u] \in {"none", "ended"}
    BY <1>1, <1>3, <2>1, <2>5 DEF InOrder
  <2>6. QED
    BY <2>2, <2>3, <2>4, <2>5
<1>7. ASSUME NEW t \in ServerThreads, Read(t)
      PROVE  InOrder(u)'
  <2>1. /\ pc' = [pc EXCEPT ![t] = "post"] /\ pc[t] = "read"
        /\ UNCHANGED <<serving, posted, stage, arg, unposted, request>>
    BY <1>7 DEF Read, looperVars, clientVars
  <2>2. CASE u = t
    <3>1. stage[u] = "out" /\ posted[u] = 0 /\ Taken(u)' = 0
      BY <1>1, <2>1, <2>2 DEF InOrder, Taken
    <3>2. \A i \in 1 .. MaxMessages : <<serving[u], i>> \in unposted
      BY <2>1, <2>2, NothingPosted
    <3>3. request[serving[u]] \in Nat
      BY <1>1, <2>1, <2>2, ServingClient
    <3>4. QED
      BY <2>1, <2>2, <3>1, <3>2, <3>3 DEF InOrder
  <2>3. CASE u # t
    BY <1>2, <2>1, <2>3
  <2>4. QED
    BY <2>2, <2>3
<1>8. ASSUME NEW t \in ServerThreads, ReadEmpty(t) \/ Ends(t)
      PROVE  InOrder(u)'
  <2>1. /\ pc[t] \in {"read", "wait"} /\ pc'[t] \in {"accept", "ended"}
        /\ \A v \in ServerThreads : v # t => pc'[v] = pc[v] /\ serving'[v] = serving[v]
        /\ UNCHANGED <<posted, stage, arg, unposted>>
    BY <1>8 DEF ReadEmpty, Ends, looperVars
  <2>2. CASE u = t
    BY <1>1, <1>3, <2>1, <2>2 DEF InOrder
  <2>3. CASE u # t
    BY <1>2, <2>1, <2>3
  <2>4. QED
    BY <2>2, <2>3
<1>9. ASSUME NEW t \in ServerThreads, PostEnter(t)
      PROVE  InOrder(u)'
  <2>1. /\ stage[t] = "out" /\ stage' = [stage EXCEPT ![t] = "entered"]
        /\ arg' = [arg EXCEPT ![t] = <<serving[t], posted[t] + 1>>]
        /\ unposted' = unposted \ {<<serving[t], posted[t] + 1>>}
        /\ pc[t] = "post" /\ posted[t] < request[serving[t]]
        /\ UNCHANGED <<pc, serving, posted, request>>
    BY <1>9 DEF PostEnter, L!Enter, serverVars, clientVars
  <2>2. serving[t] \in Clients /\ serving[t] # NoClient /\ request[serving[t]] \in Nat
    BY <2>1, ServingClient
  <2>3. CASE u = t
    <3>1. /\ Taken(u) = posted[u] /\ Taken(u)' = posted[u] + 1 /\ posted[u] \in Nat
          /\ stage'[u] = "entered" /\ arg'[u] = <<serving[u], posted[u] + 1>>
      BY <2>1, <2>3, ServerAssumption DEF Taken, L!Threads
    <3>2. \A i \in 1 .. MaxMessages : <<serving[u], i>> \notin unposted' <=> i <= posted[u] + 1
      BY <1>1, <2>1, <2>3, <3>1 DEF InOrder
    <3>3. QED
      BY <2>1, <2>2, <2>3, <3>1, <3>2 DEF InOrder
  <2>4. CASE u # t
    <3>1. serving[u] # serving[t]
      BY <2>2, <2>4 DEF ServesOne
    <3>2. \A i \in 1 .. MaxMessages : <<serving[u], i>> \in unposted' <=> <<serving[u], i>> \in unposted
      BY <2>1, <3>1
    <3>3. UNCHANGED <<pc[u], serving[u], posted[u], stage[u], arg[u]>>
      BY <2>1, <2>4
    <3>4. QED
      BY <1>1, <3>2, <3>3, InOrderKept
  <2>5. QED
    BY <2>3, <2>4
<1>10. ASSUME NEW t \in ServerThreads, PostPush(t)
       PROVE  InOrder(u)'
  <2>1. /\ stage[t] = "entered" /\ stage' = [stage EXCEPT ![t] = "queued"]
        /\ arg' = [arg EXCEPT ![t] = NoCallback]
        /\ UNCHANGED <<pc, serving, posted, request, unposted>>
    BY <1>10 DEF PostPush, L!Enqueue, serverVars, clientVars
  <2>2. CASE u = t
    <3>1. Taken(u)' = Taken(u) /\ stage'[u] = "queued" /\ pc[u] = "post"
      BY <1>1, <2>1, <2>2 DEF Taken, InOrder, L!Threads
    <3>2. QED
      BY <1>1, <2>1, <3>1 DEF InOrder
  <2>3. CASE u # t
    BY <1>2, <2>1, <2>3
  <2>4. QED
    BY <2>2, <2>3
<1>11. ASSUME NEW t \in ServerThreads, PostReturn(t)
       PROVE  InOrder(u)'
  <2>1. /\ stage[t] = "queued" /\ stage' = [stage EXCEPT ![t] = "out"]
        /\ posted' = [posted EXCEPT ![t] = posted[t] + 1]
        /\ UNCHANGED <<pc, serving, arg, request, unposted>>
    BY <1>11 DEF PostReturn, L!Leave, serverVars, clientVars
  <2>2. CASE u = t
    <3>1. Taken(u)' = Taken(u) /\ stage'[u] = "out" /\ pc[u] = "post"
      BY <1>1, <2>1, <2>2 DEF Taken, InOrder, L!Threads
    <3>2. QED
      BY <1>1, <2>1, <3>1 DEF InOrder
  <2>3. CASE u # t
    BY <1>2, <2>1, <2>3
  <2>4. QED
    BY <2>2, <2>3
<1>12. ASSUME NEW t \in ServerThreads, Wait(t)
       PROVE  InOrder(u)'
  <2>1. /\ pc' = [pc EXCEPT ![t] = "wait"] /\ pc[t] = "post" /\ stage[t] = "out"
        /\ posted[t] = request[serving[t]]
        /\ UNCHANGED <<serving, posted, stage, arg, unposted, request>>
    BY <1>12 DEF Wait, looperVars, clientVars
  <2>2. CASE u = t
    <3>1. Taken(u)' = Taken(u)
      BY <2>1, <2>2 DEF Taken
    <3>2. QED
      BY <1>1, <2>1, <2>2, <3>1 DEF InOrder
  <2>3. CASE u # t
    BY <1>2, <2>1, <2>3
  <2>4. QED
    BY <2>2, <2>3
<1>13. CASE UNCHANGED <<pc, serving, posted, request, outcome, stage, arg, unposted>>
  BY <1>2, <1>13
<1>14. QED
  BY <1>4, <1>5, <1>6, <1>7, <1>8, <1>9, <1>10, <1>11, <1>12, <1>13, PostCases

\* The release counter of a request that is waited for ends at the number of
\* its messages only when the sink of every one of them is destroyed, and
\* nothing else of its connection is with the looper.
LEMMA ReadyMeansReleased ==
  ASSUME Typed, ServesOne, PostsInOrder, LooperHolds,
         NEW t \in ServerThreads, pc[t] = "wait", Ready(serving[t])
  PROVE  /\ \A i \in 1 .. request[serving[t]] : <<serving[t], i>> \in released
         /\ \A m \in Messages \ unposted : m[1] = serving[t] => m \in released
<1> DEFINE cl == serving[t]
           n == request[cl]
           Sent == {<<cl, i>> : i \in 1 .. n}
           Freed == {m \in released : m[1] = cl}
<1>1. cl \in Clients /\ n \in 0 .. MaxMessages /\ n \in Nat
  <2>1. cl \in Clients
    BY ServingClient
  <2>2. QED
    BY <2>1, ServerAssumption DEF Typed
<1>2. \A i \in 1 .. MaxMessages : <<cl, i>> \notin unposted <=> i <= n
  <2>1. InOrder(t)
    BY DEF PostsInOrder
  <2>2. stage[t] = "out" /\ posted[t] = n
    BY <2>1 DEF InOrder
  <2>3. Taken(t) = n
    BY <1>1, <2>2 DEF Taken
  <2>4. \A i \in 1 .. MaxMessages : <<cl, i>> \notin unposted <=> i <= Taken(t)
    BY <2>1 DEF InOrder
  <2>5. QED
    BY <2>3, <2>4
<1>3. \A m \in Messages \ unposted : m[1] = cl => m \in Sent
  <2>1. SUFFICES ASSUME NEW m \in Messages \ unposted, m[1] = cl PROVE m \in Sent
    OBVIOUS
  <2>2. m = <<cl, m[2]>> /\ m[2] \in 1 .. MaxMessages
    BY <2>1 DEF Messages
  <2>3. m[2] \in 1 .. n
    BY <1>1, <1>2, <2>1, <2>2
  <2>4. QED
    BY <2>2, <2>3
<1>4. Freed \subseteq Sent
  BY <1>3 DEF LooperHolds, Typed
<1>5. IsFiniteSet(Sent) /\ Cardinality(Sent) = n
  <2>1. IsFiniteSet(1 .. n) /\ Cardinality(1 .. n) = n
    <3> HIDE DEF n
    <3>1. /\ IsFiniteSet(1 .. n)
          /\ Cardinality(1 .. n) = IF 1 > n THEN 0 ELSE n - 1 + 1
      BY <1>1, FS_Interval
    <3>2. QED
      BY <1>1, <3>1
  <2>2. [i \in 1 .. n |-> <<cl, i>>] \in Bijection(1 .. n, Sent)
    <3> HIDE DEF cl, n
    <3>1. [i \in 1 .. n |-> <<cl, i>>] \in [1 .. n -> Sent]
      OBVIOUS
    <3>2. QED
      BY <3>1 DEF Bijection, Injection, Surjection, IsInjective
  <2>3. ExistsBijection(1 .. n, Sent)
    BY <2>2 DEF ExistsBijection
  <2>4. QED
    BY <2>1, <2>3, FS_Bijection
<1>6. Cardinality(Freed) = n
  BY DEF Ready
<1>7. Freed = Sent
  BY <1>4, <1>5, <1>6, FS_Subset
<1>8. QED
  BY <1>3, <1>7

LEMMA StepPostedIsAwaited ==
  ASSUME Typed, ServesOne, BacklogFresh, PostsInOrder, LooperHolds, PostedIsAwaited,
         [Next]_vars
  PROVE  PostedIsAwaited'
<1> SUFFICES ASSUME NEW m \in Messages, m \notin unposted',
                    m \notin released' \/ outcome'[m[1]] \in {"new", "connected"}
             PROVE  Busy(m[1])'
  BY DEF PostedIsAwaited
<1>1. m[1] \in Clients
  BY DEF Messages
<1>2. CASE \E t \in ServerThreads : PostEnter(t)
  <2>1. PICK t \in ServerThreads : PostEnter(t)
    BY <1>2
  <2>2. /\ pc[t] = "post" /\ UNCHANGED <<pc, serving, released, outcome>>
        /\ unposted' = unposted \ {<<serving[t], posted[t] + 1>>}
    BY <2>1 DEF PostEnter, L!Enter, serverVars, clientVars, sinkVars
  <2>3. CASE m \in unposted
    <3>1. m[1] = serving[t]
      BY <2>2, <2>3
    <3>2. QED
      BY <2>2, <3>1 DEF Busy
  <2>4. CASE m \notin unposted
    BY <2>2, <2>4 DEF Busy, PostedIsAwaited
  <2>5. QED
    BY <2>3, <2>4
<1>3. CASE ~\E t \in ServerThreads : PostEnter(t)
  <2>1. unposted' = unposted /\ released \subseteq released'
    BY <1>3, NextCases, EndsCases DEF Connect, ThreadStart, Accept, Read, ReadEmpty, Ends,
       PostPush, PostReturn, Wait, CheckPredicate, Handle, HandlerReturns, ReleaseSinks,
       SpuriousWakeUp, L!Enqueue, L!Leave, L!CheckPredicate, L!StartCallback,
       L!EndCallback, L!ClearBatch, L!SpuriousWakeUp, looperVars, sinkVars, vars
  <2>2. outcome'[m[1]] \in {"new", "connected"} => outcome[m[1]] \in {"new", "connected"}
    BY <1>1, OutcomesStay DEF Typed
  <2>3. Busy(m[1])
    BY <2>1, <2>2 DEF PostedIsAwaited
  <2>4. PICK u \in ServerThreads : pc[u] \in {"post", "wait"} /\ serving[u] = m[1]
    BY <2>3 DEF Busy
  <2>5. CASE pc'[u] \in {"post", "wait"} /\ serving'[u] = serving[u]
    BY <2>4, <2>5 DEF Busy
  <2>6. CASE ~(pc'[u] \in {"post", "wait"} /\ serving'[u] = serving[u])
    <3>1. Ends(u)
      BY <2>4, <2>6, NextCases, EndsCases DEF Connect, ThreadStart, Accept, Read, ReadEmpty, Ends,
         PostEnter, PostPush, PostReturn, Wait, CheckPredicate, Handle, HandlerReturns,
         ReleaseSinks, SpuriousWakeUp, serverVars, vars, Typed
    <3>2. m \in released
      BY <2>1, <2>4, <3>1, ReadyMeansReleased DEF Ends
    <3>3. outcome'[m[1]] \in {"dropped", "answered"}
      BY <1>1, <2>4, <3>1 DEF Ends, Typed
    <3>4. QED
      BY <2>1, <3>2, <3>3
  <2>7. QED
    BY <2>5, <2>6
<1>4. QED
  BY <1>2, <1>3

LEMMA StepLooperHolds ==
  ASSUME Typed, ServesOne, PostsInOrder, LooperHolds, [Next]_vars
  PROVE  LooperHolds'
<1> USE DEF LooperHolds
<1>1. ASSUME UNCHANGED <<front, todo, spent, released>>,
             unposted' \subseteq unposted, handled \subseteq handled'
      PROVE  LooperHolds'
  <2>1. Len(front) \in Nat /\ Len(todo) \in Nat /\ Len(spent) \in Nat
    BY LenProperties DEF Typed
  <2>2. QED
    BY <1>1, <2>1
<1>2. ASSUME NEW t \in ServerThreads, PostEnter(t)
      PROVE  LooperHolds'
  BY <1>1, <1>2 DEF PostEnter, L!Enter, L!bufferVars, sinkVars
<1>3. ASSUME NEW t \in ServerThreads, PostPush(t)
      PROVE  LooperHolds'
  <2>1. /\ stage[t] = "entered" /\ front' = Append(front, arg[t])
        /\ UNCHANGED <<todo, spent, unposted, handled, released>>
    BY <1>3 DEF PostPush, L!Enqueue, sinkVars
  <2>2. /\ pc[t] = "post" /\ arg[t] = <<serving[t], posted[t] + 1>>
        /\ Taken(t) = posted[t] + 1 /\ Taken(t) <= request[serving[t]]
    <3>1. InOrder(t)
      BY DEF PostsInOrder
    <3>2. pc[t] = "post" /\ arg[t] = <<serving[t], posted[t] + 1>>
      BY <2>1, <3>1 DEF InOrder
    <3>3. Taken(t) <= request[serving[t]]
      BY <3>1, <3>2 DEF InOrder
    <3>4. QED
      BY <2>1, <3>2, <3>3 DEF Taken
  <2>3. arg[t] \in Messages /\ arg[t] \notin unposted
    <3>1. serving[t] \in Clients
      BY <2>2, ServingClient
    <3>2. posted[t] + 1 \in 1 .. MaxMessages
      BY <2>2, <3>1, ServerAssumption DEF Typed
    <3>3. <<serving[t], posted[t] + 1>> \notin unposted
      <4>1. \A i \in 1 .. MaxMessages : <<serving[t], i>> \notin unposted <=> i <= Taken(t)
        BY <2>2 DEF PostsInOrder, InOrder
      <4>2. QED
        BY <2>2, <3>2, <4>1
    <3>4. QED
      BY <2>2, <3>1, <3>2, <3>3, MessagePairs
  <2>4. /\ Len(front) \in Nat /\ Len(front') = Len(front) + 1
        /\ front'[Len(front) + 1] = arg[t]
        /\ \A i \in 1 .. Len(front) : front'[i] = front[i]
    BY <2>1, <2>3, AppendProperties, LenProperties DEF Typed
  <2>5. \A i \in 1 .. Len(front') : i \in 1 .. Len(front) \/ i = Len(front) + 1
    BY <2>4
  <2>6. \A i \in 1 .. Len(front') : front'[i] \notin unposted'
    BY <2>1, <2>3, <2>4, <2>5
  <2>7. QED
    BY <2>1, <2>6
<1>4. CASE CheckPredicate
  <2>1. UNCHANGED <<spent, unposted, handled, released>>
    BY <1>4 DEF CheckPredicate, L!CheckPredicate, sinkVars
  <2>2. CASE front # <<>>
    <3>1. todo' = front /\ front' = <<>>
      BY <1>4, <2>2 DEF CheckPredicate, L!CheckPredicate
    <3>2. Len(front') = 0
      BY <3>1
    <3>3. QED
      BY <2>1, <3>1, <3>2
  <2>3. CASE front = <<>>
    BY <1>1, <1>4, <2>1, <2>3 DEF CheckPredicate, L!CheckPredicate
  <2>4. QED
    BY <2>2, <2>3
<1>5. CASE Handle
  <2>1. /\ todo # <<>> /\ todo' = Tail(todo) /\ spent' = Append(spent, Head(todo))
        /\ handled' = handled \cup {Head(todo)}
        /\ UNCHANGED <<front, unposted, released>>
    BY <1>5 DEF Handle, L!StartCallback
  <2>2. /\ Head(todo) = todo[1] /\ Len(todo) \in Nat \ {0} /\ Head(todo) \in Messages
        /\ Len(todo') = Len(todo) - 1
        /\ \A i \in 1 .. Len(todo') : todo'[i] = todo[i + 1]
    BY <2>1, HeadTailProperties, EmptySeq DEF Typed
  <2>3. Head(todo) \notin unposted
    BY <2>2
  <2>4. \A i \in 1 .. Len(todo') : todo'[i] \notin unposted
    BY <2>2
  <2>5. /\ Len(spent) \in Nat /\ Len(spent') = Len(spent) + 1
        /\ spent'[Len(spent) + 1] = Head(todo)
        /\ \A i \in 1 .. Len(spent) : spent'[i] = spent[i]
    BY <2>1, <2>2, AppendProperties, LenProperties DEF Typed, Callbacks
  <2>6. \A i \in 1 .. Len(spent') : i \in 1 .. Len(spent) \/ i = Len(spent) + 1
    BY <2>5
  <2>7. \A i \in 1 .. Len(spent') : spent'[i] = DoInit \/ spent'[i] \in handled' \ unposted
    BY <2>1, <2>3, <2>5, <2>6
  <2>8. QED
    BY <2>1, <2>4, <2>7
<1>6. CASE ReleaseSinks
  <2>1. /\ spent' = <<>> /\ released' = released \cup (ToSet(spent) \ {DoInit})
        /\ UNCHANGED <<front, todo, unposted, handled>>
    BY <1>6 DEF ReleaseSinks, L!ClearBatch
  <2>2. \A m \in ToSet(spent) \ {DoInit} : m \in handled \ unposted
    BY LenProperties DEF ToSet, Typed
  <2>3. Len(spent') = 0
    BY <2>1
  <2>4. QED
    BY <2>1, <2>2, <2>3
<1>7. ASSUME \/ \E cl \in Clients, n \in 0 .. MaxMessages : Connect(cl, n)
             \/ \E t \in ServerThreads : \/ ThreadStart(t) \/ Accept(t) \/ Read(t)
                                         \/ ReadEmpty(t) \/ Ends(t) \/ PostReturn(t) \/ Wait(t)
             \/ HandlerReturns \/ SpuriousWakeUp \/ UNCHANGED vars
      PROVE  UNCHANGED <<front, todo, spent, unposted, handled, released>>
  BY <1>7 DEF Connect, ThreadStart, Accept, Read, ReadEmpty, Ends, PostReturn, Wait,
     HandlerReturns, SpuriousWakeUp, L!Leave, L!EndCallback, L!SpuriousWakeUp,
     L!bufferVars, looperVars, sinkVars, vars
<1>8. QED
  BY <1>1, <1>2, <1>3, <1>4, <1>5, <1>6, <1>7, NextCases, EndsCases

LEMMA StepResponseComplete ==
  ASSUME Typed, ServesOne, BacklogFresh, PostsInOrder, LooperHolds, ResponseComplete,
         [Next]_vars
  PROVE  ResponseComplete'
<1> SUFFICES ASSUME NEW cl \in Clients, outcome'[cl] = "answered"
             PROVE  \A i \in 1 .. request'[cl] : <<cl, i>> \in handled'
  BY DEF ResponseComplete
<1>1. handled \subseteq handled'
  BY NextCases, EndsCases DEF Connect, ThreadStart, Accept, Read, ReadEmpty, Ends,
     PostEnter, PostPush, PostReturn, Wait, CheckPredicate, Handle, HandlerReturns,
     ReleaseSinks, SpuriousWakeUp, sinkVars, vars
<1>2. CASE outcome[cl] = "answered"
  BY <1>1, <1>2, OutcomesStay DEF ResponseComplete
<1>3. CASE outcome[cl] # "answered"
  <2>1. PICK t \in ServerThreads : Ends(t)
    <3>1. ASSUME NEW k \in Clients, NEW n \in 0 .. MaxMessages, Connect(k, n)
          PROVE  outcome'[cl] # "answered"
      <4>1. \/ outcome' = [outcome EXCEPT ![k] = "refused"]
            \/ outcome' = [outcome EXCEPT ![k] = "connected"]
        BY <3>1 DEF Connect
      <4>2. QED
        BY <1>3, <4>1 DEF Typed
    <3>2. ASSUME NEW t \in ServerThreads, ReadEmpty(t)
          PROVE  outcome'[cl] # "answered"
      <4>1. CASE acceptor = t
        <5>1. outcome'[cl] =
                IF cl = serving[t] THEN "dropped"
                ELSE IF \E i \in DOMAIN backlog : backlog[i] = cl THEN "refused"
                ELSE outcome[cl]
          BY <3>2, <4>1 DEF ReadEmpty
        <5>2. QED
          BY <1>3, <5>1
      <4>2. CASE acceptor # t
        BY <1>3, <3>2, <4>2 DEF ReadEmpty, Typed
      <4>3. QED
        BY <4>1, <4>2
    <3>3. ASSUME \/ \E t \in ServerThreads : Accept(t) \/ Read(t) \/ Wait(t) \/ ThreadStart(t)
                 \/ UNCHANGED <<pc, serving, clientVars>>
          PROVE  outcome' = outcome
      BY <3>3 DEF Accept, Read, Wait, ThreadStart, clientVars
    <3>4. QED
      BY <1>3, <3>1, <3>2, <3>3, ClientCases
  <2>2. cl = serving[t] /\ pc[t] = "wait"
    BY <1>3, <2>1 DEF Ends, Typed
  <2>3. \A i \in 1 .. request[cl] : <<cl, i>> \in released
    BY <2>1, <2>2, ReadyMeansReleased DEF Ends
  <2>4. request' = request
    BY <2>1 DEF Ends
  <2>5. QED
    BY <1>1, <2>3, <2>4 DEF LooperHolds
<1>4. QED
  BY <1>2, <1>3

-----------------------------------------------------------------------------
(* The invariant *)

LEMMA InitInv == Init => Inv
<1> SUFFICES ASSUME Init PROVE Inv
  OBVIOUS
<1>1. Typed
  BY InitTyped
<1>2. MaxThreads \in Nat /\ MaxThreads >= 1
  BY ServerAssumption, FS_CardinalityType
<1>3. /\ \A t \in ServerThreads : pc[t] \in {"starting", "none"} /\ stage[t] = "out"
      /\ \A t \in ServerThreads : pc[t] = "starting" <=> t = FirstThread
      /\ \A t \in ServerThreads : serving[t] = NoClient
  BY DEF Init, L!Threads
<1>4. Running = {FirstThread} /\ Counted = {}
  BY <1>3, ServerAssumption DEF Running, Counted
<1>5. CountExact /\ ThreadsBounded
  BY <1>2, <1>4, FS_EmptySet, FS_Singleton DEF CountExact, ThreadsBounded, Init
<1>6. HolderAccepts /\ AcceptorHeld
  BY <1>3, ServerAssumption DEF HolderAccepts, AcceptorHeld, Init
<1>7. ServesOne
  BY <1>3 DEF ServesOne
<1>8. BacklogFresh /\ ResponseComplete /\ PostedIsAwaited
  BY DEF BacklogFresh, ResponseComplete, PostedIsAwaited, Init
<1>9. PostsInOrder
  BY <1>3 DEF PostsInOrder, InOrder
<1>10. LooperHolds
  BY DEF LooperHolds, Init
<1>11. QED
  BY <1>1, <1>5, <1>6, <1>7, <1>8, <1>9, <1>10 DEF Inv

LEMMA StepInv == Inv /\ [Next]_vars => Inv'
<1> SUFFICES ASSUME Inv, [Next]_vars PROVE Inv'
  OBVIOUS
<1> USE DEF Inv
<1>1. Typed' /\ HolderAccepts' /\ CountExact' /\ ThreadsBounded'
  BY StepTyped, StepHolder, StepCount, StepBounded
<1>2. AcceptorHeld' /\ ServesOne' /\ BacklogFresh'
  BY StepAcceptorHeld, StepServesOne, StepBacklog
<1>3. PostsInOrder' /\ PostedIsAwaited' /\ LooperHolds' /\ ResponseComplete'
  BY StepPostsInOrder, StepPostedIsAwaited, StepLooperHolds, StepResponseComplete
<1>4. QED
  BY <1>1, <1>2, <1>3

\* The invariant holds in every behaviour of the server.
THEOREM Invariance == Spec => []Inv
<1>1. QED
  BY InitInv, StepInv, PTL DEF Spec

-----------------------------------------------------------------------------
(* Theorems *)

\* Every variable has its type; in particular threads_count, an unsigned in
\* the code, never goes below zero, whatever path a thread leaves by.
THEOREM TypeCorrect == Spec => []TypeOK
<1>1. Inv => TypeOK
  <2> SUFFICES ASSUME Inv PROVE TypeOK
    OBVIOUS
  <2>1. threads_count \in 0 .. Cardinality(ServerThreads)
    <3>1. Counted \subseteq ServerThreads
      BY DEF Counted, Running
    <3>2. /\ Cardinality(Counted) \in Nat /\ Cardinality(ServerThreads) \in Nat
          /\ Cardinality(Counted) <= Cardinality(ServerThreads)
      BY <3>1, ServerAssumption, FS_Subset, FS_CardinalityType
    <3>3. QED
      BY <3>2 DEF Inv, CountExact
  <2>2. QED
    BY <2>1 DEF Inv, Typed, TypeOK
<1>2. QED
  BY <1>1, Invariance, PTL

\* There are never more server threads than max_threads_count(), counting
\* those that have not yet counted themselves (server.cpp:117-165).
THEOREM ThreadsStayBounded == Spec => []ThreadsBounded
<1>1. Inv => ThreadsBounded
  BY DEF Inv
<1>2. QED
  BY <1>1, Invariance, PTL

\* The acceptor stays with a running thread unless a connection that sent
\* nothing made its last holder return.
THEOREM AcceptorStaysHeld == Spec => []AcceptorHeld
<1>1. Inv => AcceptorHeld
  BY DEF Inv
<1>2. QED
  BY <1>1, Invariance, PTL

\* A sink that the looper still holds points into a response_wait_state that
\* lives: no thread leaves server_thread's body before the last of its sinks.
THEOREM SinksPointToLife == Spec => []WaitStateOutlivesSinks
<1>1. Inv => WaitStateOutlivesSinks
  BY DEF Inv, PostedIsAwaited, Busy, WaitStateOutlivesSinks
<1>2. QED
  BY <1>1, Invariance, PTL

\* A response that is written holds an answer to every message of its request.
THEOREM ResponsesAreComplete == Spec => []ResponseComplete
<1>1. Inv => ResponseComplete
  BY DEF Inv
<1>2. QED
  BY <1>1, Invariance, PTL

=============================================================================
