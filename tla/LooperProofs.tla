---------------------------- MODULE LooperProofs ----------------------------
(***************************************************************************)
(* Theorems about Looper, for every set of threads, every set of callbacks *)
(* and every buffer size.                                                  *)
(***************************************************************************)
EXTENDS Looper, FiniteSetTheorems, SequenceTheorems, TLAPS

\* The actions of Next, unfolded once for all the step lemmas below.
LEMMA NextCases ==
  ASSUME [Next]_vars
  PROVE  \/ \E t \in Threads, cb \in Callbacks : Enter(t, cb)
         \/ \E t \in Threads : Enqueue(t)
         \/ \E t \in Threads : Leave(t)
         \/ StartRun \/ CheckPredicate \/ StartCallback
         \/ EndCallback \/ ClearBatch \/ SpuriousWakeUp
         \/ UNCHANGED vars
BY DEF Next, RunStep

-----------------------------------------------------------------------------
(* Types *)

\* The inductive form of TypeOK: _c is a natural number only because it
\* counts the threads inside post(), which CountExact says.
Typed ==
  /\ c \in Int
  /\ front \in Seq(Callbacks)
  /\ todo \in Seq(Callbacks)
  /\ spent \in Seq(Callbacks)
  /\ run \in RunStates
  /\ stage \in [Threads -> Stages]
  /\ arg \in [Threads -> Callbacks \cup {NoCallback}]
  /\ \A t \in Threads : stage[t] = "entered" => arg[t] \in Callbacks
  /\ unposted \in SUBSET Callbacks
  /\ done \in Seq(Callbacks)

LEMMA InitTyped == Init => Typed
BY DEF Init, Typed, RunStates, Stages

LEMMA StepTyped ==
  ASSUME Typed, [Next]_vars
  PROVE  Typed'
<1> USE DEF Typed, RunStates, Stages
<1>1. ASSUME NEW t \in Threads, NEW cb \in Callbacks, Enter(t, cb)
      PROVE  Typed'
  BY <1>1 DEF Enter, bufferVars
<1>2. ASSUME NEW t \in Threads, Enqueue(t)
      PROVE  Typed'
  <2>1. front' \in Seq(Callbacks)
    BY <1>2, AppendProperties DEF Enqueue
  <2>2. run' \in RunStates
    BY <1>2 DEF Enqueue, Wake
  <2>3. QED
    BY <1>2, <2>1, <2>2 DEF Enqueue
<1>3. ASSUME NEW t \in Threads, Leave(t)
      PROVE  Typed'
  BY <1>3 DEF Leave, bufferVars
<1>4. CASE StartRun
  BY <1>4 DEF StartRun, bufferVars
<1>5. CASE CheckPredicate
  <2>1. <<>> \in Seq(Callbacks)
    BY EmptySeq
  <2>2. front' \in Seq(Callbacks) /\ todo' \in Seq(Callbacks)
    BY <1>5, <2>1 DEF CheckPredicate
  <2>3. run' \in RunStates
    BY <1>5 DEF CheckPredicate
  <2>4. QED
    BY <1>5, <2>2, <2>3 DEF CheckPredicate
<1>6. CASE StartCallback
  BY <1>6, HeadTailProperties, AppendProperties DEF StartCallback
<1>7. CASE EndCallback
  BY <1>7 DEF EndCallback, bufferVars
<1>8. CASE ClearBatch
  BY <1>8 DEF ClearBatch
<1>9. CASE SpuriousWakeUp
  BY <1>9 DEF SpuriousWakeUp, bufferVars
<1>10. CASE UNCHANGED vars
  BY <1>10 DEF vars, bufferVars
<1>11. QED
  BY <1>1, <1>2, <1>3, <1>4, <1>5, <1>6, <1>7, <1>8, <1>9, <1>10, NextCases

-----------------------------------------------------------------------------
(* The counter *)

LEMMA ThreadsFinite == IsFiniteSet(Threads)
BY LooperAssumption, FS_AddElement DEF Threads

LEMMA InPostFinite ==
  IsFiniteSet(InPost) /\ Cardinality(InPost) \in Nat
BY ThreadsFinite, FS_Subset, FS_CardinalityType DEF InPost

LEMMA InitCount == Init => CountExact
<1> SUFFICES ASSUME Init PROVE CountExact
  OBVIOUS
<1>1. InPost = {}
  BY DEF Init, InPost
<1>2. QED
  BY <1>1, FS_EmptySet DEF Init, CountExact

LEMMA StepCount ==
  ASSUME Typed, CountExact, [Next]_vars
  PROVE  CountExact'
<1>1. ASSUME NEW t \in Threads, NEW cb \in Callbacks, Enter(t, cb)
      PROVE  CountExact'
  <2>1. InPost' = InPost \cup {t} /\ t \notin InPost
    BY <1>1 DEF Enter, InPost, Typed, Stages
  <2>2. Cardinality(InPost') = Cardinality(InPost) + 1
    BY <2>1, InPostFinite, FS_AddElement
  <2>3. QED
    BY <1>1, <2>2 DEF Enter, CountExact
<1>2. ASSUME NEW t \in Threads, Enqueue(t)
      PROVE  CountExact'
  <2>1. InPost' = InPost
    BY <1>2 DEF Enqueue, InPost, Typed, Stages
  <2>2. QED
    BY <1>2, <2>1 DEF Enqueue, CountExact
<1>3. ASSUME NEW t \in Threads, Leave(t)
      PROVE  CountExact'
  <2>1. InPost' = InPost \ {t} /\ t \in InPost
    BY <1>3 DEF Leave, InPost, Typed, Stages
  <2>2. Cardinality(InPost') = Cardinality(InPost) - 1
    BY <2>1, InPostFinite, FS_RemoveElement
  <2>3. QED
    BY <1>3, <2>2 DEF Leave, CountExact
<1>4. ASSUME c' = c, stage' = stage
      PROVE  CountExact'
  BY <1>4 DEF CountExact, InPost
<1>5. QED
  BY <1>1, <1>2, <1>3, <1>4, NextCases
  DEF StartRun, CheckPredicate, StartCallback, EndCallback, ClearBatch,
      SpuriousWakeUp, vars

\* TypeOK (looper.h): the buffers hold callbacks and _c never wraps below 0.
THEOREM TypeCorrect == Spec => []TypeOK
<1>1. Init => Typed /\ CountExact
  BY InitTyped, InitCount
<1>2. Typed /\ CountExact /\ [Next]_vars => (Typed /\ CountExact)'
  BY StepTyped, StepCount
<1>3. Typed /\ CountExact => TypeOK
  BY InPostFinite DEF Typed, CountExact, TypeOK
<1>4. QED
  BY <1>1, <1>2, <1>3, PTL DEF Spec

\* The value the wake-up condition reads is the number of posts under way
\* (looper.cpp:48-49), for any number of threads.
THEOREM CounterCountsPosts == Spec => []CountExact
<1>1. Init => Typed /\ CountExact
  BY InitTyped, InitCount
<1>2. Typed /\ CountExact /\ [Next]_vars => (Typed /\ CountExact)'
  BY StepTyped, StepCount
<1>3. QED
  BY <1>1, <1>2, PTL DEF Spec

-----------------------------------------------------------------------------
(* The buffers and the sleeping thread *)

LEMMA StepSwapSafe ==
  ASSUME Typed, SwapSafe, [Next]_vars
  PROVE  SwapSafe'
<1> USE DEF SwapSafe
<1>1. ASSUME NEW t \in Threads, NEW cb \in Callbacks, Enter(t, cb)
      PROVE  SwapSafe'
  BY <1>1 DEF Enter, CanPost, bufferVars, Typed
<1>2. ASSUME NEW t \in Threads, Enqueue(t)
      PROVE  SwapSafe'
  <2>1. run' = run \/ (run = "blocked" /\ run' = "checking")
    BY <1>2 DEF Enqueue, Wake
  <2>2. run \in {"checking", "blocked", "batch"} => t # RunThread
    BY <1>2 DEF Enqueue
  <2>3. QED
    BY <1>2, <2>1, <2>2 DEF Enqueue, Typed, Threads
<1>3. ASSUME NEW t \in Threads, Leave(t)
      PROVE  SwapSafe'
  BY <1>3 DEF Leave, bufferVars, Typed
<1>4. CASE StartRun
  BY <1>4 DEF StartRun, bufferVars
<1>5. CASE CheckPredicate
  BY <1>5 DEF CheckPredicate
<1>6. CASE StartCallback
  BY <1>6 DEF StartCallback
<1>7. CASE EndCallback
  BY <1>7 DEF EndCallback, bufferVars
<1>8. CASE ClearBatch
  BY <1>8 DEF ClearBatch
<1>9. CASE SpuriousWakeUp
  BY <1>9 DEF SpuriousWakeUp, bufferVars
<1>10. CASE UNCHANGED vars
  BY <1>10 DEF vars, bufferVars
<1>11. QED
  BY <1>1, <1>2, <1>3, <1>4, <1>5, <1>6, <1>7, <1>8, <1>9, <1>10, NextCases

\* The swap of looper.cpp:71 never gives the posters a buffer that still
\* holds callbacks, and run() waits only outside of post().
THEOREM SwapIsSafe == Spec => []SwapSafe
<1>1. Init => Typed /\ SwapSafe
  BY InitTyped DEF Init, SwapSafe, Threads
<1>2. Typed /\ SwapSafe /\ [Next]_vars => (Typed /\ SwapSafe)'
  BY StepTyped, StepSwapSafe
<1>3. QED
  BY <1>1, <1>2, PTL DEF Spec

LEMMA StepStranded ==
  ASSUME Typed, StrandedBelowBufSz, [Next]_vars
  PROVE  StrandedBelowBufSz'
<1> USE DEF StrandedBelowBufSz
<1>1. ASSUME NEW t \in Threads, Enqueue(t)
      PROVE  StrandedBelowBufSz'
  <2>1. Len(front') \in Nat
    BY <1>1, StepTyped, LenProperties DEF Typed
  <2>2. run' = "blocked" => ~Notifies(front')
    BY <1>1 DEF Enqueue, Wake
  <2>3. QED
    BY <2>1, <2>2, LooperAssumption DEF Notifies
<1>2. CASE CheckPredicate
  <2>1. run' = "blocked" => front' = <<>>
    BY <1>2 DEF CheckPredicate
  <2>2. Len(<<>>) = 0
    BY EmptySeq
  <2>3. QED
    BY <2>1, <2>2, LooperAssumption
<1>3. ASSUME front' = front, run' = run
      PROVE  StrandedBelowBufSz'
  BY <1>3
<1>4. ASSUME run' # "blocked"
      PROVE  StrandedBelowBufSz'
  BY <1>4
<1>5. QED
  BY <1>1, <1>2, <1>3, <1>4, NextCases
  DEF Enter, Leave, StartRun, StartCallback, EndCallback, ClearBatch,
      SpuriousWakeUp, vars, bufferVars

\* However posts overlap, fewer than BufSz callbacks can be left behind by
\* a sleeping looper (the second test of looper.cpp:54).
THEOREM StrandingIsBounded == Spec => []StrandedBelowBufSz
<1>1. Init => Typed /\ StrandedBelowBufSz
  BY InitTyped DEF Init, StrandedBelowBufSz
<1>2. Typed /\ StrandedBelowBufSz /\ [Next]_vars
      => (Typed /\ StrandedBelowBufSz)'
  BY StepTyped, StepStranded
<1>3. QED
  BY <1>1, <1>2, PTL DEF Spec

-----------------------------------------------------------------------------
(* One posting thread *)

\* A lone poster that pushes while the looper sleeps reads _c = 1.
LEMMA LonePosterCountsOne ==
  ASSUME Typed, CountExact, SwapSafe, NEW p, Posters = {p},
         run = "blocked", NEW t \in Threads, stage[t] = "entered"
  PROVE  c = 1
<1>1. stage[RunThread] = "out"
  BY DEF SwapSafe
<1>2. InPost = {t}
  BY <1>1 DEF InPost, Threads
<1>3. QED
  BY <1>2, FS_Singleton DEF CountExact

LEMMA StepNoSleep ==
  ASSUME Typed, CountExact, SwapSafe, NEW p, Posters = {p},
         NoSleepOnWork, [Next]_vars
  PROVE  NoSleepOnWork'
<1> USE DEF NoSleepOnWork
<1>1. ASSUME NEW t \in Threads, Enqueue(t)
      PROVE  NoSleepOnWork'
  <2>1. run = "blocked" => Notifies(front')
    BY <1>1, LonePosterCountsOne DEF Enqueue, Notifies
  <2>2. QED
    BY <1>1, <2>1 DEF Enqueue, Wake
<1>2. CASE CheckPredicate
  BY <1>2 DEF CheckPredicate
<1>3. ASSUME front' = front, run' = run
      PROVE  NoSleepOnWork'
  BY <1>3
<1>4. ASSUME run' # "blocked"
      PROVE  NoSleepOnWork'
  BY <1>4
<1>5. QED
  BY <1>1, <1>2, <1>3, <1>4, NextCases
  DEF Enter, Leave, StartRun, StartCallback, EndCallback, ClearBatch,
      SpuriousWakeUp, vars, bufferVars

\* With one posting thread no wake-up is ever lost: the looper does not
\* sleep on queued callbacks.  With two it may, see the README.
THEOREM LonePosterAlwaysWakes ==
  ASSUME NEW p, Posters = {p}
  PROVE  Spec => []NoSleepOnWork
<1> DEFINE IInv == Typed /\ CountExact /\ SwapSafe /\ NoSleepOnWork
<1>1. Init => IInv
  BY InitTyped, InitCount DEF Init, SwapSafe, Threads, NoSleepOnWork
<1>2. IInv /\ [Next]_vars => IInv'
  BY StepTyped, StepCount, StepSwapSafe, StepNoSleep
<1>3. IInv => NoSleepOnWork
  OBVIOUS
<1>4. QED
  BY <1>1, <1>2, <1>3, PTL DEF Spec

-----------------------------------------------------------------------------
(* Refinement *)

LEMMA AppendOverConcat ==
  ASSUME NEW S, NEW u \in Seq(S), NEW v \in Seq(S), NEW e \in S
  PROVE  u \o Append(v, e) = Append(u \o v, e)
<1>1. <<e>> \in Seq(S)
  OBVIOUS
<1>2. u \o v \in Seq(S)
  BY ConcatProperties
<1>3. Append(v, e) = v \o <<e>> /\ Append(u \o v, e) = (u \o v) \o <<e>>
  BY <1>2, AppendIsConcat
<1>4. QED
  BY <1>1, <1>3, ConcatAssociative

LEMMA TailOverConcat ==
  ASSUME NEW S, NEW u \in Seq(S), NEW v \in Seq(S), u # <<>>
  PROVE  /\ u \o v # <<>>
         /\ Head(u \o v) = Head(u)
         /\ Tail(u \o v) = Tail(u) \o v
<1>1. PICK n \in Nat : Len(u) = n /\ n # 0
  BY EmptySeq, LenProperties
<1>2. u \o v \in Seq(S) /\ Len(u \o v) = Len(u) + Len(v) /\ Len(v) \in Nat
  BY ConcatProperties, LenProperties
<1>3. u \o v # <<>>
  BY <1>1, <1>2, EmptySeq
<1>4. Head(u \o v) = Head(u)
  BY <1>1, <1>2, <1>3, ConcatProperties
<1>5. Tail(u) \in Seq(S) /\ Tail(u \o v) \in Seq(S)
  BY <1>2, <1>3, HeadTailProperties
<1>6. Tail(u) \o v \in Seq(S) /\ Len(Tail(u) \o v) = Len(Tail(u \o v))
  BY <1>1, <1>2, <1>3, <1>5, ConcatProperties, HeadTailProperties
<1>7. ASSUME NEW i \in 1 .. Len(Tail(u \o v))
      PROVE  (Tail(u) \o v)[i] = Tail(u \o v)[i]
  <2>1. Len(Tail(u)) = n - 1 /\ Len(Tail(u \o v)) = n + Len(v) - 1
    BY <1>1, <1>2, <1>3, HeadTailProperties
  <2>2. Tail(u \o v)[i] = (u \o v)[i + 1]
    BY <1>2, <1>3, HeadTailProperties
  <2>3. (u \o v)[i + 1] = IF i + 1 <= n THEN u[i + 1] ELSE v[i + 1 - n]
    BY <1>1, <1>2, <2>1, ConcatProperties
  <2>4. (Tail(u) \o v)[i]
          = IF i <= n - 1 THEN Tail(u)[i] ELSE v[i - (n - 1)]
    BY <1>1, <1>2, <1>5, <2>1, ConcatProperties
  <2>5. i <= n - 1 => Tail(u)[i] = u[i + 1]
    BY <1>1, <2>1, HeadTailProperties
  <2>6. QED
    BY <1>1, <1>2, <2>1, <2>2, <2>3, <2>4, <2>5
<1>8. QED
  BY <1>3, <1>4, <1>5, <1>6, <1>7, SeqEqual

\* Two posts under way carry different callbacks, both already claimed.
ArgsDistinct ==
  \A t, u \in Threads :
    stage[t] = "entered" =>
      /\ arg[t] \notin unposted
      /\ stage[u] = "entered" /\ t # u => arg[t] # arg[u]

LEMMA StepArgsDistinct ==
  ASSUME Typed, ArgsDistinct, [Next]_vars
  PROVE  ArgsDistinct'
<1> USE DEF ArgsDistinct
<1>1. ASSUME NEW t \in Threads, NEW cb \in Callbacks, Enter(t, cb)
      PROVE  ArgsDistinct'
  BY <1>1 DEF Enter, Typed
<1>2. ASSUME NEW t \in Threads, Enqueue(t)
      PROVE  ArgsDistinct'
  BY <1>2 DEF Enqueue, Typed
<1>3. ASSUME NEW t \in Threads, Leave(t)
      PROVE  ArgsDistinct'
  BY <1>3 DEF Leave, Typed
<1>4. ASSUME stage' = stage, arg' = arg, unposted' = unposted
      PROVE  ArgsDistinct'
  BY <1>4
<1>5. QED
  BY <1>1, <1>2, <1>3, <1>4, NextCases
  DEF StartRun, CheckPredicate, StartCallback, EndCallback, ClearBatch,
      SpuriousWakeUp, vars

LEMMA StepImplementsQueue ==
  ASSUME Typed, SwapSafe, ArgsDistinct, [Next]_vars
  PROVE  [Queue!Next]_(Queue!vars)
<1> USE DEF Queue!vars
<1>1. ASSUME NEW t \in Threads, Enqueue(t)
      PROVE  Queue!Post(arg[t]) /\ arg[t] \in Callbacks
  <2>1. arg[t] \in Callbacks
    BY <1>1 DEF Enqueue, Typed
  <2>2. todo' \o front' = Append(todo \o front, arg[t])
    BY <1>1, <2>1, AppendOverConcat DEF Enqueue, Typed
  <2>3. Unqueued' = Unqueued \ {arg[t]} /\ arg[t] \in Unqueued
    BY <1>1 DEF Enqueue, Unqueued, ArgsDistinct, Typed
  <2>4. QED
    BY <1>1, <2>1, <2>2, <2>3 DEF Enqueue, Queue!Post
<1>2. ASSUME CheckPredicate
      PROVE  UNCHANGED Queue!vars
  <2>1. front \o <<>> = front /\ <<>> \o front = front
    BY ConcatEmptySeq DEF Typed
  <2>2. todo' \o front' = todo \o front
    BY <1>2, <2>1 DEF CheckPredicate, SwapSafe
  <2>3. QED
    BY <1>2, <2>2 DEF CheckPredicate, Unqueued
<1>3. ASSUME StartCallback
      PROVE  Queue!Invoke
  <2>1. /\ todo \o front # <<>>
        /\ Head(todo \o front) = Head(todo)
        /\ Tail(todo \o front) = Tail(todo) \o front
    BY <1>3, TailOverConcat DEF StartCallback, Typed
  <2>2. QED
    BY <1>3, <2>1 DEF StartCallback, Queue!Invoke, Unqueued
<1>4. ASSUME NEW t \in Threads, NEW cb \in Callbacks, Enter(t, cb)
      PROVE  UNCHANGED Queue!vars
  <2>1. Unqueued' = Unqueued
    BY <1>4 DEF Enter, Unqueued, Typed
  <2>2. QED
    BY <1>4, <2>1 DEF Enter, bufferVars
<1>5. ASSUME NEW t \in Threads, Leave(t)
      PROVE  UNCHANGED Queue!vars
  <2>1. Unqueued' = Unqueued
    BY <1>5 DEF Leave, Unqueued, Typed
  <2>2. QED
    BY <1>5, <2>1 DEF Leave, bufferVars
<1>6. ASSUME UNCHANGED <<front, todo, done, stage, arg, unposted>>
      PROVE  UNCHANGED Queue!vars
  BY <1>6 DEF Unqueued
<1>7. \/ \E t \in Threads, cb \in Callbacks : Enter(t, cb)
      \/ \E t \in Threads : Enqueue(t)
      \/ \E t \in Threads : Leave(t)
      \/ CheckPredicate \/ StartCallback
      \/ UNCHANGED <<front, todo, done, stage, arg, unposted>>
  BY NextCases
  DEF StartRun, EndCallback, ClearBatch, SpuriousWakeUp, vars, bufferVars
<1>8. (\E t \in Threads : Enqueue(t)) => \E cb \in Callbacks : Queue!Post(cb)
  BY <1>1
<1>9. QED
  BY <1>2, <1>3, <1>4, <1>5, <1>6, <1>7, <1>8 DEF Queue!Next

\* The double buffer is a first-in first-out queue that runs each posted
\* callback once: looper implements WorkQueue.
THEOREM LooperIsQueue == Spec => ImplementsQueue
<1> DEFINE IInv == Typed /\ SwapSafe /\ ArgsDistinct
<1>1. Init => Queue!Init
  <2>1. <<>> \o <<>> = <<>>
    BY EmptySeq, ConcatEmptySeq
  <2>2. QED
    BY <2>1 DEF Init, Queue!Init, Unqueued
<1>2. Init => IInv
  BY InitTyped DEF Init, SwapSafe, Threads, ArgsDistinct
<1>3. IInv /\ [Next]_vars => IInv'
  BY StepTyped, StepSwapSafe, StepArgsDistinct
<1>4. IInv /\ [Next]_vars => [Queue!Next]_(Queue!vars)
  BY StepImplementsQueue
<1>5. QED
  BY <1>1, <1>2, <1>3, <1>4, PTL DEF Spec, ImplementsQueue, Queue!Spec

=============================================================================
