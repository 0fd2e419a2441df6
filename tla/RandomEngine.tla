----------------------------- MODULE RandomEngine -----------------------------
(***************************************************************************)
(* concurrent_random_engine: one engine behind a mutex, and a buffer of its *)
(* outputs for every thread that draws (concurrent_random_engine.h).  The   *)
(* buffers belong to the threads (thread_local) and are listed in the       *)
(* engine: whichever of a thread and the engine ends first takes the buffer *)
(* off the other's hands.                                                   *)
(*                                                                          *)
(* The outputs of the engine are numbered.  What is done under a mutex is   *)
(* one step, except the destructor of the engine, which holds _mtx_entries  *)
(* from one entry to the next.                                              *)
(***************************************************************************)
EXTENDS Integers, FiniteSets, Sequences, SequencesExt

CONSTANTS
  Drawers,        \* the threads that draw
  buffer_size,
  MaxOutputs      \* bound on the outputs of the engine

ASSUME RandomEngineAssumption == buffer_size \in Nat \ {0} /\ MaxOutputs \in Nat

VARIABLES
  base,           \* how many outputs _base has made
  engine,         \* "alive", "clearing" (its destructor runs) or "dead"
  entry,          \* what the list holds of a thread: "none", a pointer that is
                  \* "null", or one "linked" to the thread's my_buffer
  buffer,         \* my_buffer: outputs not yet drawn, and the owner it knows
  at,             \* where a thread is
  drawn,         \* history: the outputs drawn by the threads
  freed,          \* history: how often the buffer of a thread was freed
  stale,          \* history: somebody used an entry or a mutex that is gone
  overlap         \* history: a thread was making or ending its buffer while
                  \* the engine was destroyed

engineVars == <<base, engine, entry, buffer, at, drawn, freed, stale, overlap>>

NoBuffer == [held |-> FALSE, owned |-> FALSE, data |-> <<>>]
Busy == {"linking", "ending", "unlinked"}

EngineInit ==
  /\ base = 0 /\ engine = "alive"
  /\ entry = [t \in Drawers |-> "none"]
  /\ buffer = [t \in Drawers |-> NoBuffer]
  /\ at = [t \in Drawers |-> "running"]
  /\ drawn = {}
  /\ freed = [t \in Drawers |-> 0]
  /\ stale = FALSE /\ overlap = FALSE

-----------------------------------------------------------------------------
(* operator(): from the buffer, or from the engine with a new buffer full.  *)

Draw(t) ==
  /\ at[t] = "running" /\ engine = "alive" /\ buffer[t].data # <<>>
  /\ drawn' = drawn \cup {Head(buffer[t].data)}
  /\ buffer' = [buffer EXCEPT ![t].data = Tail(@)]
  /\ UNCHANGED <<base, engine, entry, at, freed, stale, overlap>>

Outputs(n) == [i \in 1 .. buffer_size |-> n + 1 + i]
Refill(t) ==
  /\ at[t] = "running" /\ engine = "alive"
  /\ buffer[t].held /\ buffer[t].data = <<>>
  /\ base + 1 + buffer_size <= MaxOutputs
  /\ drawn' = drawn \cup {base + 1}
  /\ buffer' = [buffer EXCEPT ![t].data = Outputs(base)]
  /\ base' = base + 1 + buffer_size
  /\ UNCHANGED <<engine, entry, at, freed, stale, overlap>>

\* thread_buffer(): an entry is inserted under the mutex and linked without.
Insert(t) ==
  /\ at[t] = "running" /\ engine = "alive" /\ ~buffer[t].held
  /\ entry' = [entry EXCEPT ![t] = "null"]
  /\ at' = [at EXCEPT ![t] = "linking"]
  /\ UNCHANGED <<base, engine, buffer, drawn, freed, stale, overlap>>
Link(t) ==
  /\ at[t] = "linking"
  /\ buffer' = [buffer EXCEPT ![t] = [held |-> TRUE, owned |-> TRUE, data |-> <<>>]]
  /\ stale' = (stale \/ entry[t] = "none")
  /\ entry' = [entry EXCEPT ![t] = IF @ = "none" THEN @ ELSE "linked"]
  /\ at' = [at EXCEPT ![t] = "running"]
  /\ UNCHANGED <<base, engine, drawn, freed, overlap>>

-----------------------------------------------------------------------------
(* A thread ends: ~thread_buffer_t.                                         *)

Gone(t) == at' = [at EXCEPT ![t] = "gone"]
Freed(t) ==
  /\ freed' = [freed EXCEPT ![t] = @ + 1]
  /\ buffer' = [buffer EXCEPT ![t] = NoBuffer]

End(t) ==
  /\ at[t] = "running"
  /\ overlap' = (overlap \/ (buffer[t].held /\ engine = "clearing"))
  /\ \/ ~buffer[t].held /\ Gone(t) /\ UNCHANGED <<freed, buffer>>
     \/ buffer[t].held /\ ~buffer[t].owned /\ Gone(t) /\ Freed(t)
     \/ /\ buffer[t].held /\ buffer[t].owned
        /\ at' = [at EXCEPT ![t] = "ending"]
        /\ UNCHANGED <<freed, buffer>>
  /\ UNCHANGED <<base, engine, entry, drawn, stale>>

\* Mutant of Unlink: the entry keeps its pointer.
Unlink_Not(t) ==
  /\ at[t] = "ending"
  /\ at' = [at EXCEPT ![t] = "unlinked"]
  /\ UNCHANGED <<base, engine, entry, buffer, drawn, freed, stale, overlap>>
\* _it->p = nullptr, before the mutex is taken.
Unlink(t) ==
  /\ at[t] = "ending"
  /\ stale' = (stale \/ entry[t] = "none")
  /\ entry' = [entry EXCEPT ![t] = IF @ = "none" THEN @ ELSE "null"]
  /\ at' = [at EXCEPT ![t] = "unlinked"]
  /\ UNCHANGED <<base, engine, buffer, drawn, freed, overlap>>

\* erase runs ~tls_entry_t, which frees the buffer once more if the entry is
\* still linked to it; then the thread frees its buffer.
Erase(t) ==
  /\ at[t] = "unlinked" /\ engine # "clearing"
  /\ stale' = (stale \/ entry[t] = "none" \/ engine = "dead")
  /\ entry' = [entry EXCEPT ![t] = "none"]
  /\ freed' = [freed EXCEPT ![t] = @ + IF entry[t] = "linked" THEN 2 ELSE 1]
  /\ buffer' = [buffer EXCEPT ![t] = NoBuffer]
  /\ Gone(t)
  /\ UNCHANGED <<base, engine, drawn, overlap>>

-----------------------------------------------------------------------------
(* The engine is destroyed: ~concurrent_random_engine clears the list, and  *)
(* ~tls_entry_t resets the owner of a buffer before it frees it.            *)

Destroy ==
  /\ engine = "alive"
  /\ engine' = "clearing"
  /\ overlap' = \E t \in Drawers : at[t] \in Busy
  /\ UNCHANGED <<base, entry, buffer, at, drawn, freed, stale>>
ResetOwner(t) ==
  /\ engine = "clearing" /\ entry[t] = "linked" /\ buffer[t].owned
  /\ buffer' = [buffer EXCEPT ![t].owned = FALSE]
  /\ UNCHANGED <<base, engine, entry, at, drawn, freed, stale, overlap>>
Clear(t) ==
  /\ engine = "clearing" /\ entry[t] # "none"
  /\ entry[t] = "linked" => ~buffer[t].owned
  /\ entry' = [entry EXCEPT ![t] = "none"]
  /\ IF entry[t] = "linked" /\ buffer[t].held THEN Freed(t) ELSE UNCHANGED <<freed, buffer>>
  /\ UNCHANGED <<base, engine, at, drawn, stale, overlap>>
Destroyed ==
  /\ engine = "clearing" /\ \A t \in Drawers : entry[t] = "none"
  /\ engine' = "dead"
  /\ UNCHANGED <<base, entry, buffer, at, drawn, freed, stale, overlap>>

EngineNext ==
  \/ \E t \in Drawers : \/ Draw(t) \/ Refill(t) \/ Insert(t) \/ Link(t)
                        \/ End(t) \/ Unlink(t) \/ Erase(t)
                        \/ ResetOwner(t) \/ Clear(t)
  \/ Destroy
  \/ Destroyed
EngineSpec == EngineInit /\ [][EngineNext]_engineVars

-----------------------------------------------------------------------------
(* Properties.                                                             *)

\* Every output of the engine goes to one draw of one thread: it waits in one
\* buffer, once, or has been drawn, never both.
OutputsAreFresh ==
  /\ \A t \in Drawers : IsInjective(buffer[t].data) /\ Range(buffer[t].data) \cap drawn = {}
  /\ \A t, u \in Drawers : t # u => Range(buffer[t].data) \cap Range(buffer[u].data) = {}

\* Whichever of a thread and the engine ends first, the buffer is freed once
\* and nobody uses what is gone; only a thread that makes or ends its buffer
\* while the engine is destroyed may break that (the owner is read and p is
\* cleared before the mutex is taken).
BuffersFreedOnce ==
  ~overlap =>
    /\ ~stale
    /\ \A t \in Drawers : freed[t] <= 1 /\ (freed[t] = 1 => ~buffer[t].held)
    /\ \A t \in Drawers : at[t] = "gone" \/ engine = "dead" => ~buffer[t].held

EngineSound == OutputsAreFresh /\ BuffersFreedOnce
=============================================================================
