-------------------------- MODULE RandomEngineProofs --------------------------
(***************************************************************************)
(* Theorems about RandomEngine, for every set of threads, every size of    *)
(* their buffers and every number of outputs.                              *)
(***************************************************************************)
EXTENDS RandomEngine, SequenceTheorems, TLAPS

-----------------------------------------------------------------------------
(* The inductive invariant *)

Buffers == [held : BOOLEAN, owned : BOOLEAN, data : Seq(Nat)]
EngineTyped ==
  /\ base \in Nat
  /\ engine \in {"alive", "clearing", "dead"}
  /\ entry \in [Drawers -> {"none", "null", "linked"}]
  /\ buffer \in [Drawers -> Buffers]
  /\ at \in [Drawers -> Busy \cup {"running", "gone"}]
  /\ drawn \in SUBSET Nat
  /\ freed \in [Drawers -> Nat]
  /\ stale \in BOOLEAN /\ overlap \in BOOLEAN

\* What waits or has been drawn is an output that the engine has made.
OutputsMade ==
  /\ \A g \in drawn : g <= base
  /\ \A t \in Drawers : \A g \in Range(buffer[t].data) : g <= base

\* What a thread and its entry know of each other, wherever the thread is.
Placed(t) ==
  /\ at[t] = "running" =>
       \/ entry[t] = "none" /\ ~buffer[t].held
       \/ entry[t] = "linked" /\ buffer[t].held /\ (engine = "alive" => buffer[t].owned)
  /\ at[t] = "linking" => entry[t] = "null" /\ ~buffer[t].held
  /\ at[t] = "ending" => entry[t] = "linked" /\ buffer[t].held
  /\ at[t] = "unlinked" => entry[t] = "null" /\ buffer[t].held
  /\ at[t] = "gone" => entry[t] = "none" /\ ~buffer[t].held
  /\ engine # "alive" => at[t] \notin Busy
  /\ engine = "dead" => entry[t] = "none"
  /\ freed[t] <= 1
  /\ freed[t] = 1 => ~buffer[t].held /\ (at[t] = "gone" \/ engine # "alive")

\* Nobody is late before the engine is destroyed, and unless somebody was,
\* every thread and its entry agree.
Agreed ==
  /\ engine = "alive" => ~overlap
  /\ ~overlap => ~stale /\ \A t \in Drawers : Placed(t)

EngineInv == EngineTyped /\ OutputsMade /\ OutputsAreFresh /\ Agreed

-----------------------------------------------------------------------------
(* The outputs in a buffer *)

\* Drawing takes the head, and leaves a buffer without repetitions.
LEMMA TailOfBuffer ==
  ASSUME NEW q \in Seq(Nat), q # <<>>
  PROVE  /\ Tail(q) \in Seq(Nat) /\ Head(q) \in Nat
         /\ Head(q) \in Range(q) /\ Range(Tail(q)) \subseteq Range(q)
         /\ IsInjective(q) => IsInjective(Tail(q)) /\ Head(q) \notin Range(Tail(q))
<1>1. /\ Len(q) \in Nat \ {0} /\ DOMAIN q = 1 .. Len(q)
  BY LenProperties, EmptySeq
<1>2. /\ Head(q) = q[1] /\ Head(q) \in Nat
      /\ Tail(q) \in Seq(Nat) /\ Len(Tail(q)) = Len(q) - 1
      /\ \A i \in 1 .. Len(Tail(q)) : Tail(q)[i] = q[i + 1]
  BY HeadTailProperties
<1>3. DOMAIN Tail(q) = 1 .. Len(q) - 1
  BY <1>2, LenProperties
<1>4. \A i \in DOMAIN Tail(q) : i + 1 \in DOMAIN q /\ i + 1 # 1 /\ Tail(q)[i] = q[i + 1]
  BY <1>1, <1>2, <1>3
<1>5. Head(q) \in Range(q) /\ Range(Tail(q)) \subseteq Range(q)
  BY <1>1, <1>2, <1>4 DEF Range
<1>6. ASSUME IsInjective(q)
      PROVE  IsInjective(Tail(q)) /\ Head(q) \notin Range(Tail(q))
  <2>1. ASSUME NEW i \in DOMAIN Tail(q), NEW j \in DOMAIN Tail(q), Tail(q)[i] = Tail(q)[j]
        PROVE  i = j
    <3>1. i + 1 = j + 1
      BY <1>4, <1>6, <2>1 DEF IsInjective
    <3>2. QED
      BY <1>1, <1>3, <3>1
  <2>2. \A i \in DOMAIN Tail(q) : Tail(q)[i] # q[1]
    BY <1>1, <1>4, <1>6 DEF IsInjective
  <2>3. QED
    BY <1>2, <2>1, <2>2 DEF IsInjective, Range
<1>7. QED
  BY <1>2, <1>5, <1>6

\* A refill holds outputs that the engine has made just now, each once.
LEMMA OutputsAreNew ==
  ASSUME NEW n \in Nat
  PROVE  /\ Outputs(n) \in Seq(Nat) /\ IsInjective(Outputs(n))
         /\ \A g \in Range(Outputs(n)) : g \in Nat /\ n + 1 < g /\ g <= n + 1 + buffer_size
<1>1. buffer_size \in Nat
  BY RandomEngineAssumption
<1>2. Outputs(n) \in [1 .. buffer_size -> Nat]
  BY <1>1 DEF Outputs
<1>3. Outputs(n) \in Seq(Nat)
  BY <1>1, <1>2, SeqDef
<1>4. IsInjective(Outputs(n))
  BY <1>1 DEF Outputs, IsInjective
<1>5. QED
  BY <1>1, <1>3, <1>4 DEF Outputs, Range

\* A buffer that is made, freed or disowned keeps its outputs or drops them.
LEMMA BufferDropped ==
  ASSUME EngineTyped, NEW t \in Drawers,
         \/ buffer' = buffer
         \/ buffer' = [buffer EXCEPT ![t] = [held |-> TRUE, owned |-> TRUE, data |-> <<>>]]
         \/ buffer' = [buffer EXCEPT ![t] = NoBuffer]
         \/ buffer' = [buffer EXCEPT ![t].owned = FALSE]
  PROVE  \A u \in Drawers : buffer'[u].data = buffer[u].data \/ buffer'[u].data = <<>>
<1> SUFFICES ASSUME NEW u \in Drawers
             PROVE  buffer'[u].data = buffer[u].data \/ buffer'[u].data = <<>>
  OBVIOUS
<1>1. buffer \in [Drawers -> Buffers]
  BY DEF EngineTyped
<1>2. u # t => buffer'[u] = buffer[u]
  BY <1>1
<1>3. \/ buffer'[t] = buffer[t]
      \/ buffer'[t] = [held |-> TRUE, owned |-> TRUE, data |-> <<>>]
      \/ buffer'[t] = NoBuffer
      \/ buffer'[t] = [buffer[t] EXCEPT !.owned = FALSE]
  BY <1>1
<1>4. buffer[t] \in [held : BOOLEAN, owned : BOOLEAN, data : Seq(Nat)]
  BY <1>1 DEF Buffers
<1>5. buffer'[t].data = buffer[t].data \/ buffer'[t].data = <<>>
  BY <1>3, <1>4 DEF NoBuffer
<1>6. QED
  BY <1>2, <1>5

\* What the steps do to the outputs: all but Draw and Refill drop a buffer at
\* most.
LEMMA OutputCases ==
  ASSUME EngineTyped, [EngineNext]_engineVars
  PROVE  \/ \E t \in Drawers : Draw(t)
         \/ \E t \in Drawers : Refill(t)
         \/ /\ UNCHANGED <<base, drawn>>
            /\ \A t \in Drawers : buffer'[t].data = buffer[t].data \/ buffer'[t].data = <<>>
<1> DEFINE Drops ==
      /\ UNCHANGED <<base, drawn>>
      /\ \A t \in Drawers : buffer'[t].data = buffer[t].data \/ buffer'[t].data = <<>>
<1> USE DEF EngineTyped, Buffers
<1>1. ASSUME NEW t \in Drawers, Link(t) \/ Erase(t) \/ ResetOwner(t)
      PROVE  Drops
  <2>1. \/ buffer' = [buffer EXCEPT ![t] = [held |-> TRUE, owned |-> TRUE, data |-> <<>>]]
        \/ buffer' = [buffer EXCEPT ![t] = NoBuffer]
        \/ buffer' = [buffer EXCEPT ![t].owned = FALSE]
    BY <1>1 DEF Link, Erase, ResetOwner
  <2>2. QED
    BY <1>1, <2>1, BufferDropped DEF Link, Erase, ResetOwner
<1>2. ASSUME NEW t \in Drawers, End(t) \/ Clear(t)
      PROVE  Drops
  <2>1. buffer' = buffer \/ buffer' = [buffer EXCEPT ![t] = NoBuffer]
    BY <1>2 DEF End, Clear, Freed
  <2>2. QED
    BY <1>2, <2>1, BufferDropped DEF End, Clear
<1>3. ASSUME NEW t \in Drawers, Insert(t) \/ Unlink(t)
      PROVE  Drops
  BY <1>3 DEF Insert, Unlink
<1>4. CASE Destroy \/ Destroyed \/ UNCHANGED engineVars
  BY <1>4 DEF Destroy, Destroyed, engineVars
<1>5. QED
  BY <1>1, <1>2, <1>3, <1>4 DEF EngineNext

LEMMA StepOutputs ==
  ASSUME EngineTyped, OutputsMade, OutputsAreFresh, [EngineNext]_engineVars
  PROVE  OutputsMade' /\ OutputsAreFresh'
<1> DEFINE W(t) == Range(buffer[t].data)
<1>1. base \in Nat /\ buffer_size \in Nat
  BY RandomEngineAssumption DEF EngineTyped
<1>2. \A t \in Drawers : buffer[t] \in Buffers /\ buffer[t].data \in Seq(Nat) /\ W(t) \in SUBSET Nat
  <2>1. \A q \in Seq(Nat) : Range(q) \in SUBSET Nat
    BY ElementOfSeq, LenProperties DEF Range
  <2>2. QED
    BY <2>1 DEF EngineTyped, Buffers
<1>3. ASSUME NEW t \in Drawers, Draw(t)
      PROVE  OutputsMade' /\ OutputsAreFresh'
  <2> DEFINE q == buffer[t].data
  <2>1. /\ q # <<>> /\ drawn' = drawn \cup {Head(q)} /\ base' = base
        /\ buffer' = [buffer EXCEPT ![t].data = Tail(q)]
    BY <1>3 DEF Draw
  <2>2. /\ Head(q) \in W(t) /\ Range(Tail(q)) \subseteq W(t)
        /\ IsInjective(Tail(q)) /\ Head(q) \notin Range(Tail(q))
    BY <1>2, <2>1, TailOfBuffer DEF OutputsAreFresh
  <2>3. \A u \in Drawers : buffer'[u].data = IF u = t THEN Tail(q) ELSE buffer[u].data
    BY <1>2, <2>1 DEF EngineTyped, Buffers
  <2>4. \A u \in Drawers : W(u)' \subseteq W(u) /\ Head(q) \notin W(u)' /\ IsInjective(buffer'[u].data)
    BY <2>2, <2>3 DEF OutputsAreFresh
  <2>5. OutputsMade'
    BY <2>1, <2>2, <2>4 DEF OutputsMade
  <2>6. OutputsAreFresh'
    <3>1. \A u \in Drawers : W(u)' \cap drawn' = {}
      BY <2>1, <2>4 DEF OutputsAreFresh
    <3>2. \A u, v \in Drawers : u # v => W(u)' \cap W(v)' = {}
      BY <2>4 DEF OutputsAreFresh
    <3>3. QED
      BY <2>4, <3>1, <3>2 DEF OutputsAreFresh
  <2>7. QED
    BY <2>5, <2>6
<1>4. ASSUME NEW t \in Drawers, Refill(t)
      PROVE  OutputsMade' /\ OutputsAreFresh'
  <2>1. /\ drawn' = drawn \cup {base + 1} /\ base' = base + 1 + buffer_size
        /\ buffer' = [buffer EXCEPT ![t].data = Outputs(base)]
    BY <1>4 DEF Refill
  <2>2. \A u \in Drawers : buffer'[u].data = IF u = t THEN Outputs(base) ELSE buffer[u].data
    BY <1>2, <2>1 DEF EngineTyped, Buffers
  <2>3. /\ IsInjective(Outputs(base))
        /\ \A g \in W(t)' : base + 1 < g /\ g <= base'
    BY <1>1, <2>1, <2>2, OutputsAreNew
  <2>4. \A u \in Drawers \ {t} : W(u)' = W(u) /\ buffer'[u].data = buffer[u].data
    BY <2>2
  <2>5. base < base + 1 /\ base + 1 <= base' /\ base <= base' /\ base' \in Nat
    BY <1>1, <2>1
  <2>6. /\ \A u \in Drawers \ {t} : \A g \in W(u)' : g \in Nat /\ g <= base
        /\ \A g \in drawn : g \in Nat /\ g <= base
    BY <1>2, <2>4 DEF OutputsMade, EngineTyped
  <2>7. OutputsMade'
    <3>1. \A g \in drawn' : g <= base'
      BY <1>1, <2>1, <2>5, <2>6
    <3>2. \A u \in Drawers : \A g \in W(u)' : g <= base'
      BY <1>1, <2>3, <2>5, <2>6
    <3>3. QED
      BY <3>1, <3>2 DEF OutputsMade
  <2>8. \A u \in Drawers : IsInjective(buffer'[u].data)
    BY <2>2, <2>3 DEF OutputsAreFresh
  <2>9. \A u \in Drawers : W(u)' \cap drawn' = {}
    <3>1. \A g \in W(t)' : g \notin drawn'
      <4>1. \A g \in W(t)' : g \in Nat
        BY <1>1, <2>2, OutputsAreNew
      <4>2. QED
        BY <1>1, <2>1, <2>3, <2>6, <4>1
    <3>2. \A u \in Drawers \ {t} : \A g \in W(u)' : g \notin drawn'
      BY <1>1, <2>1, <2>4, <2>6 DEF OutputsAreFresh
    <3>3. QED
      BY <3>1, <3>2
  <2>10. \A u, v \in Drawers : u # v => W(u)' \cap W(v)' = {}
    <3>1. \A u \in Drawers \ {t} : W(u)' \cap W(t)' = {}
      BY <1>1, <2>3, <2>6
    <3>2. \A u, v \in Drawers \ {t} : u # v => W(u)' \cap W(v)' = {}
      BY <2>4 DEF OutputsAreFresh
    <3>3. QED
      BY <3>1, <3>2
  <2>11. QED
    BY <2>7, <2>8, <2>9, <2>10 DEF OutputsAreFresh
<1>5. CASE /\ UNCHANGED <<base, drawn>>
           /\ \A t \in Drawers : buffer'[t].data = buffer[t].data \/ buffer'[t].data = <<>>
  <2>1. Range(<<>>) = {} /\ IsInjective(<<>>)
    BY DEF Range, IsInjective
  <2>2. \A t \in Drawers : W(t)' \in {W(t), {}} /\ IsInjective(buffer'[t].data)
    BY <1>5, <2>1 DEF OutputsAreFresh
  <2>3. QED
    BY <1>5, <2>2 DEF OutputsMade, OutputsAreFresh
<1>6. QED
  BY <1>3, <1>4, <1>5, OutputCases

-----------------------------------------------------------------------------
(* Threads and entries *)

\* A buffer may be freed or not.
LEMMA FreedTyped ==
  ASSUME EngineTyped, NEW t \in Drawers,
         freed' = freed \/ freed' = [freed EXCEPT ![t] = freed[t] + 1],
         buffer' = buffer \/ buffer' = [buffer EXCEPT ![t] = NoBuffer]
  PROVE  freed' \in [Drawers -> Nat] /\ buffer' \in [Drawers -> Buffers]
<1>1. freed \in [Drawers -> Nat] /\ buffer \in [Drawers -> Buffers]
  BY DEF EngineTyped
<1>2. NoBuffer \in Buffers
  BY DEF NoBuffer, Buffers
<1>3. freed' \in [Drawers -> Nat]
  BY <1>1
<1>4. buffer' \in [Drawers -> Buffers]
  BY <1>1, <1>2
<1>5. QED
  BY <1>3, <1>4

LEMMA StepEngineTyped ==
  ASSUME EngineTyped, [EngineNext]_engineVars
  PROVE  EngineTyped'
<1> USE DEF EngineTyped
<1>1. base \in Nat /\ buffer_size \in Nat /\ \A t \in Drawers : buffer[t] \in Buffers
  BY RandomEngineAssumption
<1>2. NoBuffer \in Buffers /\ [held |-> TRUE, owned |-> TRUE, data |-> <<>>] \in Buffers
  BY DEF NoBuffer, Buffers
<1>3. ASSUME NEW t \in Drawers, Draw(t)
      PROVE  EngineTyped'
  <2>1. buffer[t].data \in Seq(Nat) /\ buffer[t].data # <<>>
    BY <1>1, <1>3 DEF Draw, Buffers
  <2>2. Tail(buffer[t].data) \in Seq(Nat) /\ Head(buffer[t].data) \in Nat
    BY <2>1, TailOfBuffer
  <2>3. [buffer[t] EXCEPT !.data = Tail(buffer[t].data)] \in Buffers
    BY <1>1, <2>2 DEF Buffers
  <2>4. buffer' \in [Drawers -> Buffers]
    BY <1>3, <2>3 DEF Draw
  <2>5. QED
    BY <1>3, <2>2, <2>4 DEF Draw
<1>4. ASSUME NEW t \in Drawers, Refill(t)
      PROVE  EngineTyped'
  <2>1. [buffer[t] EXCEPT !.data = Outputs(base)] \in Buffers
    BY <1>1, OutputsAreNew DEF Buffers
  <2>2. buffer' \in [Drawers -> Buffers]
    BY <1>4, <2>1 DEF Refill
  <2>3. base' \in Nat /\ drawn' \in SUBSET Nat
    BY <1>1, <1>4 DEF Refill
  <2>4. QED
    BY <1>4, <2>2, <2>3 DEF Refill
<1>5. ASSUME NEW t \in Drawers, Insert(t)
      PROVE  EngineTyped'
  BY <1>5 DEF Insert, Busy
<1>6. ASSUME NEW t \in Drawers, Link(t)
      PROVE  EngineTyped'
  <2>1. buffer' \in [Drawers -> Buffers] /\ at' \in [Drawers -> Busy \cup {"running", "gone"}]
    BY <1>2, <1>6 DEF Link
  <2>2. entry' = [entry EXCEPT ![t] = IF entry[t] = "none" THEN entry[t] ELSE "linked"]
        /\ stale' = (stale \/ entry[t] = "none")
    BY <1>6 DEF Link
  <2>3. entry' \in [Drawers -> {"none", "null", "linked"}] /\ stale' \in BOOLEAN
    BY <2>2
  <2>4. QED
    BY <1>6, <2>1, <2>3 DEF Link
<1>7. ASSUME NEW t \in Drawers, End(t)
      PROVE  EngineTyped'
  <2>1. overlap' \in BOOLEAN
    BY <1>7 DEF End
  <2>2. at' = [at EXCEPT ![t] = "gone"] \/ at' = [at EXCEPT ![t] = "ending"]
    BY <1>7 DEF End, Gone
  <2>3. at' \in [Drawers -> Busy \cup {"running", "gone"}]
    BY <2>2 DEF Busy
  <2>4. freed' = freed \/ freed' = [freed EXCEPT ![t] = freed[t] + 1]
    BY <1>7 DEF End, Freed
  <2>5. buffer' = buffer \/ buffer' = [buffer EXCEPT ![t] = NoBuffer]
    BY <1>7 DEF End, Freed
  <2>6. QED
    BY <1>7, <2>1, <2>3, <2>4, <2>5, FreedTyped DEF End
<1>8. ASSUME NEW t \in Drawers, Unlink(t)
      PROVE  EngineTyped'
  <2>1. entry' = [entry EXCEPT ![t] = IF entry[t] = "none" THEN entry[t] ELSE "null"]
        /\ stale' = (stale \/ entry[t] = "none")
    BY <1>8 DEF Unlink
  <2>2. entry' \in [Drawers -> {"none", "null", "linked"}] /\ stale' \in BOOLEAN
    BY <2>1
  <2>3. QED
    BY <1>8, <2>2 DEF Unlink, Busy
<1>9. ASSUME NEW t \in Drawers, Erase(t)
      PROVE  EngineTyped'
  <2>1. /\ freed' = [freed EXCEPT ![t] = freed[t] + IF entry[t] = "linked" THEN 2 ELSE 1]
        /\ entry' = [entry EXCEPT ![t] = "none"]
        /\ buffer' = [buffer EXCEPT ![t] = NoBuffer]
        /\ at' = [at EXCEPT ![t] = "gone"]
        /\ stale' = (stale \/ entry[t] = "none" \/ engine = "dead")
    BY <1>9 DEF Erase, Gone
  <2>2. freed' \in [Drawers -> Nat]
    BY <2>1
  <2>3. entry' \in [Drawers -> {"none", "null", "linked"}] /\ stale' \in BOOLEAN
    BY <2>1
  <2>4. buffer' \in [Drawers -> Buffers] /\ at' \in [Drawers -> Busy \cup {"running", "gone"}]
    BY <1>2, <2>1
  <2>5. QED
    BY <1>9, <2>2, <2>3, <2>4 DEF Erase
<1>10. ASSUME NEW t \in Drawers, ResetOwner(t)
       PROVE  EngineTyped'
  <2>1. [buffer[t] EXCEPT !.owned = FALSE] \in Buffers
    BY <1>1 DEF Buffers
  <2>2. buffer' \in [Drawers -> Buffers]
    BY <1>10, <2>1 DEF ResetOwner
  <2>3. QED
    BY <1>10, <2>2 DEF ResetOwner
<1>11. ASSUME NEW t \in Drawers, Clear(t)
       PROVE  EngineTyped'
  <2>1. freed' = freed \/ freed' = [freed EXCEPT ![t] = freed[t] + 1]
    BY <1>11 DEF Clear, Freed
  <2>2. buffer' = buffer \/ buffer' = [buffer EXCEPT ![t] = NoBuffer]
    BY <1>11 DEF Clear, Freed
  <2>3. QED
    BY <1>11, <2>1, <2>2, FreedTyped DEF Clear
<1>12. CASE Destroy
  BY <1>12 DEF Destroy
<1>13. CASE Destroyed \/ UNCHANGED engineVars
  BY <1>13 DEF Destroyed, engineVars
<1>14. QED
  BY <1>3, <1>4, <1>5, <1>6, <1>7, <1>8, <1>9, <1>10, <1>11, <1>12, <1>13 DEF EngineNext

\* The placement of a thread depends on nothing of the others.
LEMMA PlacedKept ==
  ASSUME NEW u \in Drawers, Placed(u),
         UNCHANGED <<engine, entry[u], at[u], freed[u], buffer[u]>>
  PROVE  Placed(u)'
BY DEF Placed

\* What the steps do to the engine and to the mark of a late thread.
LEMMA OverlapCases ==
  ASSUME EngineTyped, Agreed, [EngineNext]_engineVars
  PROVE  /\ engine' = "alive" => engine = "alive" /\ ~overlap'
         /\ ~overlap' => ~overlap
<1>1. ASSUME NEW t \in Drawers, End(t)
      PROVE  engine' = engine /\ overlap' = (overlap \/ (buffer[t].held /\ engine = "clearing"))
  BY <1>1 DEF End
<1>2. ASSUME NEW t \in Drawers,
             \/ Draw(t) \/ Refill(t) \/ Insert(t) \/ Link(t) \/ Unlink(t) \/ Erase(t)
             \/ ResetOwner(t) \/ Clear(t)
      PROVE  UNCHANGED <<engine, overlap>>
  BY <1>2 DEF Draw, Refill, Insert, Link, Unlink, Erase, ResetOwner, Clear
<1>3. CASE Destroy
  BY <1>3 DEF Destroy, Agreed
<1>4. CASE Destroyed \/ UNCHANGED engineVars
  BY <1>4 DEF Destroyed, engineVars, Agreed
<1>5. QED
  BY <1>1, <1>2, <1>3, <1>4 DEF EngineNext, Agreed, EngineTyped

LEMMA StepAgreed ==
  ASSUME EngineTyped, Agreed, [EngineNext]_engineVars
  PROVE  Agreed'
<1> SUFFICES ASSUME ~overlap'
             PROVE  ~stale' /\ \A u \in Drawers : Placed(u)'
  BY OverlapCases DEF Agreed
<1>1. ~stale /\ \A u \in Drawers : Placed(u)
  BY OverlapCases DEF Agreed
<1>2. \A u \in Drawers : /\ buffer[u] \in Buffers /\ freed[u] \in Nat
                         /\ at[u] \in Busy \cup {"running", "gone"}
                         /\ entry[u] \in {"none", "null", "linked"}
  BY DEF EngineTyped
<1>3. NoBuffer.held = FALSE
  BY DEF NoBuffer
<1>4. ASSUME NEW t \in Drawers, engine' = engine, ~stale', Placed(t)',
             \A u \in Drawers \ {t} : UNCHANGED <<entry[u], at[u], freed[u], buffer[u]>>
      PROVE  ~stale' /\ \A u \in Drawers : Placed(u)'
  BY <1>1, <1>4, PlacedKept
<1> USE DEF EngineTyped
<1>5. ASSUME NEW t \in Drawers, Draw(t) \/ Refill(t)
      PROVE  ~stale' /\ \A u \in Drawers : Placed(u)'
  <2>1. /\ UNCHANGED <<engine, entry, at, freed, stale>>
        /\ \E d : buffer' = [buffer EXCEPT ![t].data = d]
    BY <1>5 DEF Draw, Refill
  <2>2. /\ buffer'[t].held = buffer[t].held /\ buffer'[t].owned = buffer[t].owned
        /\ \A u \in Drawers \ {t} : buffer'[u] = buffer[u]
    BY <1>2, <2>1 DEF Buffers
  <2>3. Placed(t)'
    BY <1>1, <2>1, <2>2 DEF Placed
  <2>4. QED
    BY <1>1, <1>4, <2>1, <2>2, <2>3
<1>6. ASSUME NEW t \in Drawers, Insert(t)
      PROVE  ~stale' /\ \A u \in Drawers : Placed(u)'
  <2>1. /\ at[t] = "running" /\ engine = "alive" /\ ~buffer[t].held
        /\ entry' = [entry EXCEPT ![t] = "null"] /\ at' = [at EXCEPT ![t] = "linking"]
        /\ UNCHANGED <<engine, buffer, freed, stale>>
    BY <1>6 DEF Insert
  <2>2. Placed(t)'
    BY <1>1, <2>1 DEF Placed
  <2>3. QED
    BY <1>1, <1>4, <2>1, <2>2
<1>7. ASSUME NEW t \in Drawers, Link(t)
      PROVE  ~stale' /\ \A u \in Drawers : Placed(u)'
  <2>1. entry[t] = "null" /\ engine = "alive" /\ freed[t] # 1
    BY <1>1, <1>7 DEF Link, Placed, Busy
  <2>2. /\ buffer' = [buffer EXCEPT ![t] = [held |-> TRUE, owned |-> TRUE, data |-> <<>>]]
        /\ entry' = [entry EXCEPT ![t] = "linked"] /\ at' = [at EXCEPT ![t] = "running"]
        /\ UNCHANGED <<engine, freed>> /\ ~stale'
    BY <1>1, <1>7, <2>1 DEF Link
  <2>3. Placed(t)'
    BY <1>1, <2>1, <2>2 DEF Placed
  <2>4. QED
    BY <1>4, <2>2, <2>3
<1>8. ASSUME NEW t \in Drawers, End(t)
      PROVE  ~stale' /\ \A u \in Drawers : Placed(u)'
  <2>1. at[t] = "running" /\ UNCHANGED <<engine, entry, stale>>
        /\ ~(buffer[t].held /\ engine = "clearing")
    BY <1>8 DEF End
  <2>2. buffer[t].held => engine = "alive" /\ buffer[t].owned /\ entry[t] = "linked"
    BY <1>1, <2>1 DEF Placed
  <2>3. \/ ~buffer[t].held /\ at' = [at EXCEPT ![t] = "gone"]
        \/ buffer[t].held /\ at' = [at EXCEPT ![t] = "ending"]
    BY <1>8, <2>2 DEF End, Gone
  <2>4. UNCHANGED <<freed, buffer>>
    BY <1>8, <2>2 DEF End
  <2>5. CASE ~buffer[t].held /\ at' = [at EXCEPT ![t] = "gone"]
    <3>1. Placed(t)'
      BY <1>1, <2>1, <2>4, <2>5 DEF Placed, Busy
    <3>2. QED
      BY <1>1, <1>4, <2>1, <2>4, <2>5, <3>1
  <2>6. CASE buffer[t].held /\ at' = [at EXCEPT ![t] = "ending"]
    <3>1. Placed(t)'
      BY <1>1, <2>1, <2>2, <2>4, <2>6 DEF Placed, Busy
    <3>2. QED
      BY <1>1, <1>4, <2>1, <2>4, <2>6, <3>1
  <2>7. QED
    BY <2>3, <2>5, <2>6
<1>9. ASSUME NEW t \in Drawers, Unlink(t)
      PROVE  ~stale' /\ \A u \in Drawers : Placed(u)'
  <2>1. entry[t] = "linked" /\ engine = "alive" /\ buffer[t].held
    BY <1>1, <1>9 DEF Unlink, Placed, Busy
  <2>2. /\ entry' = [entry EXCEPT ![t] = "null"] /\ at' = [at EXCEPT ![t] = "unlinked"]
        /\ UNCHANGED <<engine, buffer, freed>> /\ ~stale'
    BY <1>1, <1>9, <2>1 DEF Unlink
  <2>3. Placed(t)'
    BY <1>1, <2>1, <2>2 DEF Placed
  <2>4. QED
    BY <1>4, <2>2, <2>3
<1>10. ASSUME NEW t \in Drawers, Erase(t)
       PROVE  ~stale' /\ \A u \in Drawers : Placed(u)'
  <2>1. entry[t] = "null" /\ engine = "alive" /\ buffer[t].held /\ freed[t] = 0
    BY <1>1, <1>2, <1>10 DEF Erase, Placed, Busy
  <2>2. /\ entry' = [entry EXCEPT ![t] = "none"] /\ at' = [at EXCEPT ![t] = "gone"]
        /\ freed' = [freed EXCEPT ![t] = freed[t] + 1]
        /\ buffer' = [buffer EXCEPT ![t] = NoBuffer]
        /\ engine' = engine /\ ~stale'
    BY <1>1, <1>10, <2>1 DEF Erase, Gone
  <2>3. freed'[t] = 1 /\ buffer'[t].held = FALSE
    BY <1>3, <2>1, <2>2
  <2>4. Placed(t)'
    BY <2>1, <2>2, <2>3 DEF Placed, Busy
  <2>5. QED
    BY <1>4, <2>2, <2>4
<1>11. ASSUME NEW t \in Drawers, ResetOwner(t)
       PROVE  ~stale' /\ \A u \in Drawers : Placed(u)'
  <2>1. /\ engine = "clearing" /\ buffer' = [buffer EXCEPT ![t].owned = FALSE]
        /\ UNCHANGED <<engine, entry, at, freed, stale>>
    BY <1>11 DEF ResetOwner
  <2>2. /\ buffer'[t].held = buffer[t].held
        /\ \A u \in Drawers \ {t} : buffer'[u] = buffer[u]
    BY <1>2, <2>1 DEF Buffers
  <2>3. Placed(t)'
    BY <1>1, <2>1, <2>2 DEF Placed
  <2>4. QED
    BY <1>1, <1>4, <2>1, <2>2, <2>3
<1>12. ASSUME NEW t \in Drawers, Clear(t)
       PROVE  ~stale' /\ \A u \in Drawers : Placed(u)'
  <2>1. /\ engine = "clearing" /\ entry[t] # "none" /\ entry' = [entry EXCEPT ![t] = "none"]
        /\ UNCHANGED <<engine, at, stale>>
    BY <1>12 DEF Clear
  <2>2. at[t] = "running" /\ entry[t] = "linked" /\ buffer[t].held /\ freed[t] = 0
    BY <1>1, <1>2, <2>1 DEF Placed, Busy
  <2>3. /\ freed' = [freed EXCEPT ![t] = freed[t] + 1]
        /\ buffer' = [buffer EXCEPT ![t] = NoBuffer]
    BY <1>12, <2>2 DEF Clear, Freed
  <2>4. freed'[t] = 1 /\ buffer'[t].held = FALSE
    BY <1>3, <2>2, <2>3
  <2>5. Placed(t)'
    BY <2>1, <2>2, <2>4 DEF Placed, Busy
  <2>6. QED
    BY <1>1, <1>4, <2>1, <2>3, <2>5
<1>13. CASE Destroy
  <2>1. /\ engine = "alive" /\ engine' = "clearing" /\ \A t \in Drawers : at[t] \notin Busy
        /\ UNCHANGED <<entry, buffer, at, freed, stale>>
    BY <1>13 DEF Destroy
  <2>2. QED
    BY <1>1, <2>1 DEF Placed
<1>14. CASE Destroyed
  <2>1. /\ engine = "clearing" /\ engine' = "dead" /\ \A t \in Drawers : entry[t] = "none"
        /\ UNCHANGED <<entry, buffer, at, freed, stale>>
    BY <1>14 DEF Destroyed
  <2>2. QED
    BY <1>1, <2>1 DEF Placed
<1>15. CASE UNCHANGED engineVars
  BY <1>1, <1>15, PlacedKept DEF engineVars
<1>16. QED
  BY <1>5, <1>6, <1>7, <1>8, <1>9, <1>10, <1>11, <1>12, <1>13, <1>14, <1>15
     DEF EngineNext

-----------------------------------------------------------------------------
(* Theorems *)

LEMMA EngineInitInv == EngineInit => EngineInv
<1> SUFFICES ASSUME EngineInit PROVE EngineInv
  OBVIOUS
<1>1. \A t \in Drawers : buffer[t] = NoBuffer /\ buffer[t].data = <<>> /\ buffer[t].held = FALSE
  BY DEF EngineInit, NoBuffer
<1>2. Range(<<>>) = {} /\ IsInjective(<<>>)
  BY DEF Range, IsInjective
<1>3. EngineTyped
  <2>1. NoBuffer \in Buffers
    BY DEF NoBuffer, Buffers
  <2>2. QED
    BY <2>1 DEF EngineInit, EngineTyped
<1>4. OutputsMade /\ OutputsAreFresh
  BY <1>1, <1>2 DEF EngineInit, OutputsMade, OutputsAreFresh
<1>5. Agreed
  BY <1>1 DEF EngineInit, Agreed, Placed, Busy
<1>6. QED
  BY <1>3, <1>4, <1>5 DEF EngineInv

\* The invariant on which the theorem below rests.
THEOREM EngineInvariance == EngineSpec => []EngineInv
<1>1. EngineInv /\ [EngineNext]_engineVars => EngineInv'
  BY StepEngineTyped, StepOutputs, StepAgreed DEF EngineInv
<1>2. QED
  BY <1>1, EngineInitInv, PTL DEF EngineSpec

\* No output of the engine is drawn twice, by one thread or by two, and unless
\* a thread is late for the destruction of the engine, every buffer is freed
\* once and nobody touches an entry or a mutex that is gone
\* (concurrent_random_engine.h).
THEOREM EngineIsSound == EngineSpec => []EngineSound
<1>1. EngineInv => EngineSound
  <2> SUFFICES ASSUME EngineInv PROVE BuffersFreedOnce
    BY DEF EngineInv, EngineSound
  <2> SUFFICES ASSUME ~overlap
               PROVE  /\ ~stale
                      /\ \A t \in Drawers : freed[t] <= 1 /\ (freed[t] = 1 => ~buffer[t].held)
                      /\ \A t \in Drawers : at[t] = "gone" \/ engine = "dead" => ~buffer[t].held
    BY DEF BuffersFreedOnce
  <2>1. ~stale /\ \A t \in Drawers : Placed(t)
    BY DEF EngineInv, Agreed
  <2>2. \A t \in Drawers : engine = "dead" => at[t] \in {"running", "gone"}
    BY <2>1 DEF EngineInv, EngineTyped, Placed
  <2>3. QED
    BY <2>1, <2>2 DEF Placed
<1>2. QED
  BY <1>1, EngineInvariance, PTL

=============================================================================
