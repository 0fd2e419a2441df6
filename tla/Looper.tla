------------------------------- MODULE Looper -------------------------------
(***************************************************************************)
(* src/shared/internal/looper.{h,cpp}: the double-buffered callback queue  *)
(* both programs run on.  Posters push callbacks onto the front buffer     *)
(* under a mutex; the thread inside run() sleeps on a condition variable   *)
(* until the front buffer is not empty, swaps the buffers and runs the     *)
(* back one without the mutex.                                             *)
(*                                                                         *)
(* The mutex is the atomicity of Enqueue and of CheckPredicate: each is    *)
(* one critical section.  What stays outside of it in the code, the        *)
(* increment and the decrement of _c around the critical section, is a     *)
(* step of its own here.                                                   *)
(***************************************************************************)
EXTENDS Naturals, Sequences, FiniteSets

CONSTANTS
  Posters,    \* threads that only post (the server threads of the trainer)
  RunThread,  \* the thread that calls run()
  Callbacks,  \* the callbacks posted in a behaviour: the bound on posts
  NoCallback, \* the empty argument of a thread that has none to push
  BufSz       \* buf_sz, 64 in the code

ASSUME LooperAssumption ==
  /\ IsFiniteSet(Posters)
  /\ RunThread \notin Posters
  /\ NoCallback \notin Callbacks
  /\ BufSz \in Nat \ {0}

Threads == Posters \cup {RunThread}

VARIABLES
  c,         \* _c: posts under way
  front,     \* _buf.front(): callbacks waiting for the next swap
  todo,      \* _buf.back(): the callbacks of the batch not started yet
  spent,     \* _buf.back(): those already called, alive until bbuf.clear()
  run,       \* where RunThread is
  stage,     \* stage[t]: how far thread t is inside post()
  arg,       \* arg[t]: the callback thread t has yet to push
  unposted,  \* callbacks no thread has passed to post() yet
  done       \* history: callbacks started, oldest first

bufferVars == <<front, todo, spent>>
vars == <<c, front, todo, spent, run, stage, arg, unposted, done>>

\* "setup": before run(); "checking": about to evaluate wait_pred with the
\* mutex; "blocked": asleep in _cv.wait; "batch": in the loop over the back
\* buffer; "callback": inside one of its callbacks.
RunStates == {"setup", "checking", "blocked", "batch", "callback"}
Stages == {"out", "entered", "queued"}

Init ==
  /\ c = 0
  /\ front = <<>> /\ todo = <<>> /\ spent = <<>>
  /\ run = "setup"
  /\ stage = [t \in Threads |-> "out"]
  /\ arg = [t \in Threads |-> NoCallback]
  /\ unposted = Callbacks
  /\ done = <<>>

-----------------------------------------------------------------------------
(* post() *)

\* The run thread posts before it enters run() and from inside callbacks.
CanPost(t) == t = RunThread => run \in {"setup", "callback"}

\* ++_c, before the mutex is taken.
Enter(t, cb) ==
  /\ stage[t] = "out"
  /\ CanPost(t)
  /\ cb \in unposted
  /\ unposted' = unposted \ {cb}
  /\ arg' = [arg EXCEPT ![t] = cb]
  /\ c' = c + 1
  /\ stage' = [stage EXCEPT ![t] = "entered"]
  /\ UNCHANGED <<bufferVars, run, done>>

\* Mutant of Notifies: only a full buffer wakes the looper.
Notifies_FullOnly(q) == Len(q) >= BufSz

\* Mutant of Notifies: the backlog is not looked at.
Notifies_LoneOnly(q) == c = 1

\* The condition under which post() calls notify_one, after the push.
Notifies(q) == c = 1 \/ Len(q) >= BufSz

\* notify_one: wakes the run thread if it sleeps, is lost otherwise.
Wake == IF run = "blocked" THEN "checking" ELSE run

\* The critical section: push, read _c, maybe notify.
Enqueue(t) ==
  /\ stage[t] = "entered"
  /\ front' = Append(front, arg[t])
  /\ arg' = [arg EXCEPT ![t] = NoCallback]
  /\ run' = IF Notifies(front') THEN Wake ELSE run
  /\ stage' = [stage EXCEPT ![t] = "queued"]
  /\ UNCHANGED <<c, todo, spent, unposted, done>>

\* Mutant of Leave: an exit path of post() decrements a second time.
Leave_Twice(t) ==
  /\ stage[t] = "queued"
  /\ c' = c - 2
  /\ stage' = [stage EXCEPT ![t] = "out"]
  /\ UNCHANGED <<bufferVars, run, arg, unposted, done>>

\* Mutant of Leave: the sentry is gone.
Leave_NoSentry(t) ==
  /\ stage[t] = "queued"
  /\ stage' = [stage EXCEPT ![t] = "out"]
  /\ UNCHANGED <<c, bufferVars, run, arg, unposted, done>>

\* The sentry's --_c, after the mutex is released.
Leave(t) ==
  /\ stage[t] = "queued"
  /\ c' = c - 1
  /\ stage' = [stage EXCEPT ![t] = "out"]
  /\ UNCHANGED <<bufferVars, run, arg, unposted, done>>

-----------------------------------------------------------------------------
(* run() *)

StartRun ==
  /\ run = "setup"
  /\ stage[RunThread] = "out"
  /\ run' = "checking"
  /\ UNCHANGED <<c, bufferVars, stage, arg, unposted, done>>

\* Mutant of CheckPredicate: the front buffer is copied, not swapped.
CheckPredicate_Copies ==
  /\ run = "checking"
  /\ IF front # <<>> THEN todo' = front /\ run' = "batch"
                     ELSE run' = "blocked" /\ UNCHANGED todo
  /\ UNCHANGED <<c, front, spent, stage, arg, unposted, done>>

\* wait_pred under the mutex: swap the buffers, or sleep and release it.
CheckPredicate ==
  /\ run = "checking"
  /\ IF front # <<>>
       THEN /\ todo' = front
            /\ front' = <<>>
            /\ run' = "batch"
       ELSE /\ run' = "blocked"
            /\ UNCHANGED <<front, todo>>
  /\ UNCHANGED <<c, spent, stage, arg, unposted, done>>

\* The standard lets a condition variable wake up without a notification.
SpuriousWakeUp ==
  /\ run = "blocked"
  /\ run' = "checking"
  /\ UNCHANGED <<c, bufferVars, stage, arg, unposted, done>>

StartCallback ==
  /\ run = "batch"
  /\ todo # <<>>
  /\ todo' = Tail(todo)
  /\ spent' = Append(spent, Head(todo))
  /\ done' = Append(done, Head(todo))
  /\ run' = "callback"
  /\ UNCHANGED <<c, front, stage, arg, unposted>>

EndCallback ==
  /\ run = "callback"
  /\ stage[RunThread] = "out"
  /\ run' = "batch"
  /\ UNCHANGED <<c, bufferVars, stage, arg, unposted, done>>

\* Mutant of ClearBatch: the batch is left in the back buffer.
ClearBatch_Keeps ==
  /\ run = "batch"
  /\ todo = <<>>
  /\ run' = "checking"
  /\ UNCHANGED <<c, bufferVars, stage, arg, unposted, done>>

\* Mutant of ClearBatch: run() waits without evaluating the predicate first.
ClearBatch_Sleeps ==
  /\ run = "batch"
  /\ todo = <<>>
  /\ spent' = <<>>
  /\ run' = "blocked"
  /\ UNCHANGED <<c, front, todo, stage, arg, unposted, done>>

\* bbuf.clear() destroys the callbacks of the batch with what they captured.
ClearBatch ==
  /\ run = "batch"
  /\ todo = <<>>
  /\ spent' = <<>>
  /\ run' = "checking"
  /\ UNCHANGED <<c, front, todo, stage, arg, unposted, done>>

RunStep == StartRun \/ CheckPredicate \/ StartCallback \/ EndCallback \/ ClearBatch

Next ==
  \/ \E t \in Threads :
       \/ \E cb \in Callbacks : Enter(t, cb)
       \/ Enqueue(t)
       \/ Leave(t)
  \/ RunStep
  \/ SpuriousWakeUp

Spec == Init /\ [][Next]_vars

\* Scheduling: a thread inside post() finishes it and the run thread goes on.
\* Nobody has to post, and nothing promises a spurious wake-up.
Fairness ==
  /\ \A t \in Threads : WF_vars(Enqueue(t)) /\ WF_vars(Leave(t))
  /\ WF_vars(RunStep)

FairSpec == Spec /\ Fairness

-----------------------------------------------------------------------------
(* Properties *)

InPost == {t \in Threads : stage[t] # "out"}

TypeOK ==
  /\ c \in Nat
  /\ front \in Seq(Callbacks)
  /\ todo \in Seq(Callbacks)
  /\ spent \in Seq(Callbacks)
  /\ run \in RunStates
  /\ stage \in [Threads -> Stages]
  /\ arg \in [Threads -> Callbacks \cup {NoCallback}]
  /\ \A t \in Threads : stage[t] = "entered" => arg[t] \in Callbacks
  /\ unposted \in SUBSET Callbacks
  /\ done \in Seq(Callbacks)

\* _c is exactly the number of threads inside post(): the value the wake-up
\* condition of looper.cpp:54 relies on never drifts, however posts overlap.
CountExact == c = Cardinality(InPost)

\* A sleeping looper never leaves a full buffer behind: the second half of
\* the wake-up condition bounds what a missed notification can strand.
StrandedBelowBufSz == run = "blocked" => Len(front) < BufSz

\* The back buffer is empty whenever the run thread holds the mutex to swap,
\* so that the swap never hands old callbacks back to the posters, and a
\* thread asleep holds no callback and is in no post of its own.
SwapSafe ==
  /\ run \in {"setup", "checking", "blocked"} => todo = <<>> /\ spent = <<>>
  /\ run \in {"checking", "blocked", "batch"} => stage[RunThread] = "out"

\* With a single posting thread (a trainer with one server thread, or a
\* runner, whose callbacks post to themselves) the looper never sleeps on
\* queued work.
NoSleepOnWork == run = "blocked" => front = <<>>

\* Callbacks that are in no buffer yet: post() has not been entered with
\* them, or has not reached the push.
Unqueued == unposted \cup {arg[t] : t \in {u \in Threads : stage[u] = "entered"}}

\* The looper is a first-in first-out queue that runs each callback once.
Queue == INSTANCE WorkQueue WITH fresh <- Unqueued, queue <- todo \o front
ImplementsQueue == Queue!Spec

\* ... and, where no wake-up is lost, one that starts all that is queued.
ImplementsFairQueue == Queue!FairSpec

Started(cb) == \E i \in DOMAIN done : done[i] = cb
Queued(cb) == \E i \in DOMAIN front : front[i] = cb

\* Whatever overlaps, a callback that an awake looper can see is started.
AwakeDrains ==
  \A cb \in Callbacks : (Queued(cb) /\ run # "blocked") ~> Started(cb)

=============================================================================
