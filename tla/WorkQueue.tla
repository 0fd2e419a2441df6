----------------------------- MODULE WorkQueue -----------------------------
(***************************************************************************)
(* What looper (src/shared/internal/looper.h) promises its callers: a      *)
(* first-in first-out queue of callbacks.  Any thread may add a callback,  *)
(* one thread runs them, each exactly once, in the order they were added.  *)
(***************************************************************************)
EXTENDS Sequences

CONSTANT Callbacks    \* the callbacks a program may post

VARIABLES
  fresh,   \* callbacks not posted yet
  queue,   \* callbacks posted and not started yet, oldest first
  done     \* callbacks started, oldest first (history)

vars == <<fresh, queue, done>>

Init ==
  /\ fresh = Callbacks
  /\ queue = <<>>
  /\ done = <<>>

Post(cb) ==
  /\ cb \in fresh
  /\ fresh' = fresh \ {cb}
  /\ queue' = Append(queue, cb)
  /\ UNCHANGED done

Invoke ==
  /\ queue # <<>>
  /\ done' = Append(done, Head(queue))
  /\ queue' = Tail(queue)
  /\ UNCHANGED fresh

Next ==
  \/ \E cb \in Callbacks : Post(cb)
  \/ Invoke

Spec == Init /\ [][Next]_vars

\* The promise with liveness: work that is queued is eventually started.
FairSpec == Spec /\ WF_vars(Invoke)

=============================================================================
