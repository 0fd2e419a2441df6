----------------------------- MODULE FleetProofs -----------------------------
(***************************************************************************)
(* Theorems about Fleet, for every set of runners, population, set of      *)
(* cases and of ratings, wherever connections break and whoever is killed. *)
(***************************************************************************)
EXTENDS Fleet, TrainerProofs

-----------------------------------------------------------------------------
(* The inductive invariant *)

\* What a runner holds has been delivered, labelled with a generation the
\* trainer knows as seen, and there is no more of it than one response takes.
HeldDelivered ==
  /\ mode \in [Runners -> Modes]
  /\ held \in [Runners -> Batches]
  /\ gen \in [Runners -> Nat]
  /\ serving \in Runners \cup {NoRunner}
  /\ \A r \in Runners : gen[r] <= seen

\* No response is larger than the capacity a request asks for.
ReplyFits ==
  reply # NoReply => IsFiniteSet(reply.data) /\ Cardinality(reply.data) <= MaxCapacity

\* Whoever holds genomes of the generation that a restart would read from the
\* file holds genomes of the population in the file.
LabelTellsFile ==
  file \notin {NoFile, Torn} =>
    \A r \in Runners : gen[r] = file.generation =>
      \A g \in held[r] : \E i \in Rows : g = file.population[i]

FleetInv ==
  /\ Inv
  /\ HeldDelivered /\ ReplyFits
  /\ LabelTellsPopulation /\ LabelTellsFile
  /\ ReportRecorded

-----------------------------------------------------------------------------
(* What a response and a report do *)

\* The loop that fills a response counts up at every row it takes.
LEMMA PickedBeforeCounts ==
  ASSUME NEW a, NEW n \in Rows
  PROVE  /\ PickedBefore(a, n) \in Nat
         /\ \A m \in Rows : n < m /\ Expired(a, RowAt(a, n)) =>
              PickedBefore(a, n) < PickedBefore(a, m)
<1> DEFINE Before(k) == {m \in 0 .. k - 1 : Expired(a, RowAt(a, m))}
<1>1. \A k \in Rows : k \in Nat
  BY TrainerAssumption DEF Rows
<1>2. ASSUME NEW k \in Rows
      PROVE  IsFiniteSet(Before(k)) /\ Cardinality(Before(k)) \in Nat
  <2>1. IsFiniteSet(0 .. k - 1)
    BY <1>1, FS_Interval
  <2>2. Before(k) \subseteq 0 .. k - 1
    OBVIOUS
  <2>3. QED
    BY <2>1, <2>2, FS_Subset, FS_CardinalityType
<1>3. ASSUME NEW m \in Rows, n < m, Expired(a, RowAt(a, n))
      PROVE  PickedBefore(a, n) < PickedBefore(a, m)
  <2>1. Before(n) \cup {n} \subseteq Before(m) /\ n \notin Before(n)
    BY <1>1, <1>3
  <2>2. /\ IsFiniteSet(Before(n) \cup {n})
        /\ Cardinality(Before(n) \cup {n}) = Cardinality(Before(n)) + 1
    BY <1>2, <2>1, FS_AddElement
  <2>3. Cardinality(Before(n) \cup {n}) <= Cardinality(Before(m))
    BY <1>2, <2>1, FS_Subset
  <2>4. QED
    BY <1>2, <2>2, <2>3 DEF PickedBefore
<1>4. QED
  BY <1>2, <1>3 DEF PickedBefore

\* A response holds no more genomes than the request asks for.
LEMMA ResponseFits ==
  ASSUME NEW a, NEW capacity \in Nat
  PROVE  /\ IsFiniteSet(Response(a, capacity).data)
         /\ Cardinality(Response(a, capacity).data) <= capacity
<1> DEFINE Taken == {n \in Visits(a, capacity) : Expired(a, RowAt(a, n))}
           D == Response(a, capacity).data
           rank == [n \in Taken |-> PickedBefore(a, n)]
           genomeAt == [n \in Taken |-> a.population[RowAt(a, n)]]
<1>1. \A n \in Taken : n \in Rows /\ n \in Nat /\ PickedBefore(a, n) < capacity
  BY TrainerAssumption DEF Visits, Rows
<1>2. rank \in [Taken -> 0 .. capacity - 1]
  BY <1>1, PickedBeforeCounts
<1>3. \A n, m \in Taken : n # m => rank[n] # rank[m]
  <2>1. \A n, m \in Taken : n < m => PickedBefore(a, n) < PickedBefore(a, m)
    BY <1>1, PickedBeforeCounts
  <2>2. \A n, m \in Taken : n # m => n < m \/ m < n
    BY <1>1
  <2>3. \A n \in Taken : PickedBefore(a, n) \in Nat
    BY <1>1, PickedBeforeCounts
  <2>4. QED
    BY <2>1, <2>2, <2>3
<1>4. rank \in Injection(Taken, 0 .. capacity - 1)
  BY <1>2, <1>3 DEF Injection, IsInjective
<1>5. IsFiniteSet(0 .. capacity - 1) /\ Cardinality(0 .. capacity - 1) = capacity
  <2>1. /\ IsFiniteSet(0 .. capacity - 1)
        /\ Cardinality(0 .. capacity - 1) =
             IF 0 > capacity - 1 THEN 0 ELSE capacity - 1 - 0 + 1
    BY FS_Interval
  <2>2. QED
    BY <2>1
<1>6. IsFiniteSet(Taken) /\ Cardinality(Taken) <= capacity
  BY <1>4, <1>5, FS_Injection
<1>7. D = {a.population[RowAt(a, n)] : n \in Taken}
  <2>1. D = {a.population[i] : i \in Picked(a, capacity)}
    BY DEF Response
  <2>2. Picked(a, capacity) = {RowAt(a, n) : n \in Taken}
    BY DEF Picked
  <2>3. QED
    BY <2>1, <2>2
<1>8. genomeAt \in Surjection(Taken, D)
  BY <1>7 DEF Surjection
<1>9. IsFiniteSet(D) /\ Cardinality(D) <= Cardinality(Taken)
  BY <1>6, <1>8, FS_Surjection
<1>10. QED
  BY <1>6, <1>9, FS_CardinalityType

\* A report of delivered genomes puts the ratings of each into its row.
LEMMA ReportedRowsFill ==
  ASSUME NEW a \in AppState, NEW batch, Names(batch, a.population), NEW i \in Rows,
         a.population[i] \in batch
  PROVE  MarkedReady(Recorded(a, batch)).results[i] = a.population[i].fit
<1> DEFINE r == Recorded(a, batch)
<1>1. a.population[i] \in Reported(a, i, batch)
  BY DEF Reported
<1>2. \A g \in Reported(a, i, batch) : g = a.population[i]
  BY DEF Reported, Names
<1>3. Reported(a, i, batch) # {}
  BY <1>1
<1>4. (CHOOSE g \in Reported(a, i, batch) : TRUE) = a.population[i]
  BY <1>1, <1>2
<1>5. r.results = [j \in Rows |->
        IF Reported(a, j, batch) = {} THEN a.results[j]
        ELSE (CHOOSE g \in Reported(a, j, batch) : TRUE).fit]
  BY DEF Recorded, AppState
<1>6. r.results[i] = a.population[i].fit
  BY <1>3, <1>4, <1>5
<1>7. MarkedReady(r).results = r.results
  BY DEF MarkedReady, Recorded, AppState
<1>8. QED
  BY <1>6, <1>7

\* What a request of a runner does: it leaves the generation alone and has
\* the outcomes recorded, or it completes the generation, or the trainer dies.
LEMMA OutcomesCases ==
  ASSUME Inv, NEW batch \in Batches, NEW capacity \in 1 .. MaxCapacity,
         MaxCapacity \in Nat, OnOutcomes(batch, capacity)
  PROVE  /\ UNCHANGED <<file, handed, seen>>
         /\ ReplyFits'
         /\ \/ reply' = NoReply /\ SameGeneration(s', s)
            \/ /\ SameGeneration(s', s)
               /\ \A i \in Rows : s.population[i] \in batch =>
                    s'.results[i] = s.population[i].fit
            \/ s'.generation = s.generation + 1
<1> DEFINE a == MarkedReady(Recorded(s, batch))
<1>1. batch \in SUBSET Genome /\ Names(batch, s.population)
  BY InvTypes DEF Batches, Inv, HandedSound, Covers, Names
<1>2. Sound(a) /\ SameGeneration(a, s)
  BY <1>1, RecordedSound DEF Inv
<1>3. UNCHANGED <<file, handed, seen>> /\ reply = NoReply
  BY DEF OnOutcomes
<1>4. capacity \in Nat /\ capacity <= MaxCapacity
  OBVIOUS
<1>5. ASSUME NEW d, reply' = Response(d, capacity)
      PROVE  ReplyFits'
  <2>1. /\ IsFiniteSet(reply'.data) /\ Cardinality(reply'.data) <= capacity
    BY <1>4, <1>5, ResponseFits
  <2>2. Cardinality(reply'.data) \in Nat
    BY <2>1, FS_CardinalityType
  <2>3. QED
    BY <1>4, <2>1, <2>2 DEF ReplyFits
<1>6. CASE Answer(a, capacity)
  <2>1. SameGeneration(s', s)
    BY <1>2, <1>6, HandedOutSound DEF Answer, SameGeneration
  <2>2. a \in AppState /\ s'.results = a.results
    BY <1>2, <1>6 DEF Answer, HandedOut, AppState, Sound
  <2>3. \A i \in Rows : s.population[i] \in batch => s'.results[i] = s.population[i].fit
    BY <1>1, <2>2, InvTypes, ReportedRowsFill
  <2>4. ReplyFits'
    BY <1>5, <1>6 DEF Answer
  <2>5. QED
    BY <1>3, <2>1, <2>3, <2>4
<1>7. CASE \E b \in NextGenerations(a) : Answer(GenerationChanged(b), capacity)
  <2>1. PICK b \in NextGenerations(a) : Answer(GenerationChanged(b), capacity)
    BY <1>7
  <2>2. /\ b \in AppState /\ IdsBelow(b.population, b.uids)
        /\ b.generation = a.generation + 1
    BY <1>2, NextGenerationIds
  <2>3. Sound(GenerationChanged(b)) /\ SameGeneration(GenerationChanged(b), b)
    BY <2>2, GenerationChangedSound
  <2>4. s'.generation = s.generation + 1
    BY <1>2, <2>1, <2>2, <2>3, HandedOutSound DEF Answer, SameGeneration
  <2>5. ReplyFits'
    BY <1>5, <2>1 DEF Answer
  <2>6. QED
    BY <1>3, <2>4, <2>5
<1>8. CASE s' = a /\ UNCHANGED reply
  BY <1>2, <1>3, <1>8 DEF ReplyFits
<1>9. QED
  BY <1>6, <1>7, <1>8 DEF OnOutcomes

-----------------------------------------------------------------------------
(* The steps *)

\* The steps of a runner that are not the trainer's: it forgets what it holds
\* or keeps it, and its connection may be gone.
Apart(r) ==
  /\ UNCHANGED <<vars, gen>>
  /\ \E m \in Modes : mode' = [mode EXCEPT ![r] = m]
  /\ held' = held \/ held' = [held EXCEPT ![r] = {}]
  /\ serving' = serving \/ serving' = NoRunner

LEMMA FleetCases ==
  ASSUME [FleetNext]_fleetVars
  PROVE  \/ \E r \in Runners, capacity \in 1 .. MaxCapacity : Ask(r, capacity)
         \/ \E r \in Runners : Receive(r)
         \/ \E r \in Runners : Apart(r)
         \/ /\ Deliver \/ Truncate \/ Backfill \/ Tick
            /\ UNCHANGED runnerVars
         \/ /\ Restart
            /\ serving' = NoRunner
            /\ UNCHANGED <<mode, held, gen>>
         \/ UNCHANGED <<vars, runnerVars>>
<1>1. ASSUME NEW r \in Runners, FetchCases(r) \/ Simulate(r)
      PROVE  Apart(r)
  BY <1>1 DEF FetchCases, Simulate, Apart, Modes
<1>2. ASSUME NEW r \in Runners, EmptyResponse(r) \/ TransferError(r) \/ RunnerRestart(r)
      PROVE  Apart(r)
  <2>1. HangUp(r) \in {serving, NoRunner}
    BY DEF HangUp
  <2>2. QED
    BY <1>2, <2>1 DEF EmptyResponse, TransferError, RunnerRestart, Apart, Modes
<1>3. ASSUME Unread \/ Persist \/ TimePasses
      PROVE  (Deliver \/ Truncate \/ Backfill \/ Tick) /\ UNCHANGED runnerVars
  BY <1>3 DEF Unread, Persist, TimePasses
<1>4. ASSUME TrainerRestart
      PROVE  Restart /\ serving' = NoRunner /\ UNCHANGED <<mode, held, gen>>
  BY <1>4 DEF TrainerRestart
<1>5. CASE UNCHANGED fleetVars
  BY <1>5 DEF fleetVars
<1>6. CASE FleetNext
  <2>1. \/ \E r \in Runners : RunnerStep(r)
        \/ Unread \/ Persist \/ TimePasses \/ TrainerRestart
    BY <1>6 DEF FleetNext
  <2>2. ASSUME NEW r \in Runners, RunnerStep(r)
        PROVE  \/ \E capacity \in 1 .. MaxCapacity : Ask(r, capacity)
               \/ Receive(r) \/ Apart(r)
    BY <1>1, <1>2, <2>2 DEF RunnerStep
  <2>3. QED
    BY <1>3, <1>4, <2>1, <2>2
<1>7. QED
  BY <1>5, <1>6

\* Every step of the fleet is one of the trainer, or none to it: a runner
\* only ever reports what some response has delivered.
LEMMA FleetStepIsTrainerStep ==
  ASSUME HeldDelivered, [FleetNext]_fleetVars
  PROVE  [Next]_vars
<1>1. ASSUME NEW r \in Runners, NEW capacity \in 1 .. MaxCapacity, Ask(r, capacity)
      PROVE  Next
  <2>1. held[r] \in Batches /\ OnOutcomes(held[r], capacity)
    BY <1>1 DEF HeldDelivered, Ask
  <2>2. capacity \in 0 .. MaxCapacity
    BY FleetAssumption
  <2>3. QED
    BY <2>1, <2>2 DEF Next
<1>2. ASSUME NEW r \in Runners, Receive(r)
      PROVE  Next
  BY <1>2 DEF Receive, Next
<1>3. QED
  BY <1>1, <1>2, FleetCases DEF Apart, Next

\* What a step of the trainer's own, a delivery included, does to the facts
\* that runners depend on.
LEMMA DeliverySound ==
  ASSUME Inv, Deliver
  PROVE  /\ reply \in Replies /\ reply.generation = s.generation
         /\ \A g \in reply.data : \E i \in Rows : g = s.population[i]
         /\ file = Saved(s) /\ reply' = NoReply /\ UNCHANGED <<s, file>>
         /\ handed' = handed \cup reply.data
         /\ seen' = s.generation
<1>1. /\ status = "up" /\ saver = "none" /\ reply # NoReply /\ reply' = NoReply
      /\ handed' = handed \cup reply.data
      /\ seen' = IF reply.generation > seen THEN reply.generation ELSE seen
      /\ UNCHANGED <<status, s, saver, file>>
  BY DEF Deliver
<1>2. /\ reply \in Replies /\ reply.generation = s.generation /\ file = Saved(s)
      /\ \A g \in reply.data : \E i \in Rows : g = s.population[i]
  BY <1>1, InvTypes DEF Inv, ReplySound, DiskIsCurrent
<1>3. seen' = s.generation
  <2>1. seen <= s.generation /\ seen \in Nat /\ s.generation \in Nat
    BY InvTypes DEF Inv
  <2>2. QED
    BY <1>1, <1>2, <2>1
<1>4. QED
  BY <1>1, <1>2, <1>3

\* A set of delivered genomes that is small enough to report stays one.
LEMMA BatchesGrow ==
  ASSUME handed \subseteq handed', NEW b \in Batches
  PROVE  b \in Batches'
BY DEF Batches

LEMMA StepHeldDelivered ==
  ASSUME Inv, HeldDelivered, ReplyFits, [FleetNext]_fleetVars
  PROVE  HeldDelivered'
<1> USE DEF HeldDelivered
<1>1. seen \in Nat
  BY InvTypes
<1>2. ASSUME handed \subseteq handed', UNCHANGED <<mode, held, gen>>,
             serving' \in Runners \cup {NoRunner}, seen' \in Nat, seen <= seen'
      PROVE  HeldDelivered'
  <2>1. held' \in [Runners -> Batches']
    BY <1>2, BatchesGrow
  <2>2. \A r \in Runners : gen[r] <= seen'
    BY <1>1, <1>2
  <2>3. QED
    BY <1>2, <2>1, <2>2
<1>3. ASSUME NEW r \in Runners, NEW capacity \in 1 .. MaxCapacity, Ask(r, capacity)
      PROVE  HeldDelivered'
  <2>1. UNCHANGED <<handed, seen, held, gen>> /\ serving' = r
        /\ mode' = [mode EXCEPT ![r] = "await"]
    BY <1>3 DEF Ask, OnOutcomes
  <2>2. held' \in [Runners -> Batches']
    BY <2>1, BatchesGrow
  <2>3. QED
    BY <2>1, <2>2 DEF Modes
<1>4. ASSUME NEW r \in Runners, Receive(r)
      PROVE  HeldDelivered'
  <2>1. /\ held' = [held EXCEPT ![r] = reply.data]
        /\ gen' = [gen EXCEPT ![r] = reply.generation]
        /\ mode' = [mode EXCEPT ![r] = IF reply.data = {} THEN "ask" ELSE "simulate"]
        /\ serving' = NoRunner /\ Deliver /\ reply # NoReply
    BY <1>4 DEF Receive, Deliver
  <2>2. /\ reply.generation = s.generation /\ seen' = s.generation
        /\ handed' = handed \cup reply.data
    BY <2>1, DeliverySound
  <2>3. seen <= s.generation /\ s.generation \in Nat
    BY InvTypes DEF Inv
  <2>4. reply.data \in Batches'
    <3>1. IsFiniteSet(reply.data) /\ Cardinality(reply.data) <= MaxCapacity
      BY <2>1 DEF ReplyFits
    <3>2. Cardinality(reply.data) <= MaxBatch
      BY <3>1, FS_CardinalityType, FleetAssumption
    <3>3. QED
      BY <2>2, <3>2 DEF Batches
  <2>5. held' \in [Runners -> Batches']
    BY <2>1, <2>2, <2>4, BatchesGrow
  <2>6. gen' \in [Runners -> Nat] /\ \A q \in Runners : gen'[q] <= seen'
    BY <1>1, <2>1, <2>2, <2>3
  <2>7. mode' \in [Runners -> Modes]
    BY <2>1 DEF Modes
  <2>8. QED
    BY <2>1, <2>5, <2>6, <2>7
<1>5. ASSUME NEW r \in Runners, Apart(r)
      PROVE  HeldDelivered'
  <2>1. UNCHANGED <<handed, seen, gen>> /\ Batches' = Batches
    BY <1>5 DEF Apart, vars, Batches
  <2>2. {} \in Batches
    BY FS_EmptySet, FleetAssumption DEF Batches
  <2>3. QED
    BY <1>5, <2>1, <2>2 DEF Apart
<1>6. CASE (Deliver \/ Truncate \/ Backfill \/ Tick) /\ UNCHANGED runnerVars
  <2>1. handed \subseteq handed' /\ seen' \in Nat /\ seen <= seen'
    <3>1. CASE Deliver
      BY <3>1, DeliverySound, InvTypes DEF Inv
    <3>2. CASE Truncate \/ Backfill \/ Tick
      BY <1>1, <3>2 DEF Truncate, Backfill, Tick
    <3>3. QED
      BY <1>6, <3>1, <3>2
  <2>2. QED
    BY <1>2, <1>6, <2>1 DEF runnerVars
<1>7. CASE Restart /\ serving' = NoRunner /\ UNCHANGED <<mode, held, gen>>
  BY <1>1, <1>2, <1>7 DEF Restart
<1>8. CASE UNCHANGED <<vars, runnerVars>>
  BY <1>1, <1>2, <1>8 DEF vars, runnerVars
<1>9. QED
  BY <1>3, <1>4, <1>5, <1>6, <1>7, <1>8, FleetCases

LEMMA StepReplyFits ==
  ASSUME Inv, HeldDelivered, ReplyFits, [FleetNext]_fleetVars
  PROVE  ReplyFits'
<1>1. ASSUME NEW r \in Runners, NEW capacity \in 1 .. MaxCapacity, Ask(r, capacity)
      PROVE  ReplyFits'
  <2>1. held[r] \in Batches /\ OnOutcomes(held[r], capacity)
    BY <1>1 DEF HeldDelivered, Ask
  <2>2. QED
    BY <2>1, FleetAssumption, OutcomesCases
<1>2. ASSUME reply' = NoReply \/ reply' = reply
      PROVE  ReplyFits'
  BY <1>2 DEF ReplyFits
<1>3. QED
  BY <1>1, <1>2, FleetCases DEF Receive, Apart, Deliver, Truncate, Backfill, Tick, Restart, vars

\* What is said of labels survives a step after which the trainer or the file
\* has the generation and population it had, and runners hold no more.
LEMMA LabelsKept ==
  ASSUME HeldDelivered, LabelTellsPopulation, LabelTellsFile, gen' = gen,
         \A r \in Runners : held'[r] \subseteq held[r]
  PROVE  /\ SameGeneration(s', s) => LabelTellsPopulation'
         /\ file' = file => LabelTellsFile'
<1>1. ASSUME SameGeneration(s', s)
      PROVE  LabelTellsPopulation'
  BY <1>1 DEF LabelTellsPopulation, SameGeneration, Population
<1>2. ASSUME file' = file
      PROVE  LabelTellsFile'
  <2>1. CASE file \in {NoFile, Torn}
    BY <1>2, <2>1 DEF LabelTellsFile
  <2>2. CASE file \notin {NoFile, Torn}
    BY <1>2, <2>2 DEF LabelTellsFile
  <2>3. QED
    BY <2>1, <2>2
<1>3. QED
  BY <1>1, <1>2

LEMMA StepLabels ==
  ASSUME Inv, HeldDelivered, LabelTellsPopulation, LabelTellsFile,
         [FleetNext]_fleetVars
  PROVE  LabelTellsPopulation' /\ LabelTellsFile'
<1>1. /\ seen \in Nat /\ s.generation \in Nat /\ seen <= s.generation
      /\ \A r \in Runners : gen[r] \in Nat /\ gen[r] <= seen
  BY InvTypes DEF Inv, HeldDelivered
<1>2. SameGeneration(s, s)
  BY DEF SameGeneration
<1>3. ASSUME NEW r \in Runners, NEW capacity \in 1 .. MaxCapacity, Ask(r, capacity)
      PROVE  LabelTellsPopulation' /\ LabelTellsFile'
  <2>1. /\ held[r] \in Batches /\ OnOutcomes(held[r], capacity)
        /\ UNCHANGED <<held, gen>>
    BY <1>3 DEF HeldDelivered, Ask
  <2>2. file' = file /\ (SameGeneration(s', s) \/ s'.generation = s.generation + 1)
    BY <2>1, FleetAssumption, OutcomesCases
  <2>3. ASSUME s'.generation = s.generation + 1
        PROVE  LabelTellsPopulation'
    BY <1>1, <2>1, <2>3 DEF LabelTellsPopulation
  <2>4. QED
    BY <2>1, <2>2, <2>3, LabelsKept
<1>4. ASSUME NEW r \in Runners, Receive(r)
      PROVE  LabelTellsPopulation' /\ LabelTellsFile'
  <2>1. /\ held' = [held EXCEPT ![r] = reply.data]
        /\ gen' = [gen EXCEPT ![r] = reply.generation] /\ Deliver
    BY <1>4 DEF Receive
  <2>2. /\ reply.generation = s.generation /\ file = Saved(s) /\ UNCHANGED <<s, file>>
        /\ \A g \in reply.data : \E i \in Rows : g = s.population[i]
    BY <2>1, DeliverySound
  <2>3. \A q \in Runners :
          \/ held'[q] = reply.data /\ gen'[q] = s.generation
          \/ held'[q] = held[q] /\ gen'[q] = gen[q]
    BY <2>1, <2>2 DEF HeldDelivered
  <2>4. \A q \in Runners : gen'[q] = s.generation =>
          \A g \in held'[q] : \E i \in Rows : g = s.population[i]
    BY <2>2, <2>3 DEF LabelTellsPopulation, Population
  <2>5. file'.generation = s.generation /\ file'.population = s.population
    BY <2>2 DEF Saved
  <2>6. LabelTellsFile'
    BY <2>4, <2>5 DEF LabelTellsFile
  <2>7. QED
    BY <2>2, <2>4, <2>6 DEF LabelTellsPopulation, Population
<1>5. ASSUME NEW r \in Runners, Apart(r)
      PROVE  LabelTellsPopulation' /\ LabelTellsFile'
  <2>1. s' = s /\ file' = file /\ gen' = gen
    BY <1>5 DEF Apart, vars
  <2>2. \A q \in Runners : held'[q] \subseteq held[q]
    BY <1>5 DEF Apart, HeldDelivered
  <2>3. QED
    BY <1>2, <2>1, <2>2, LabelsKept
<1>6. CASE (Deliver \/ Truncate \/ Backfill \/ Tick) /\ UNCHANGED runnerVars
  <2>1. gen' = gen /\ held' = held
    BY <1>6 DEF runnerVars
  <2>2. SameGeneration(s', s)
    BY <1>2, <1>6, InvTypes DEF Deliver, Truncate, Backfill, Tick, AppState, SameGeneration
  <2>3. LabelTellsPopulation'
    BY <2>1, <2>2, LabelsKept
  <2>4. CASE Deliver \/ Tick
    BY <2>1, <2>3, <2>4, LabelsKept DEF Deliver, Tick
  <2>5. CASE Truncate
    BY <2>3, <2>5 DEF Truncate, LabelTellsFile
  <2>6. CASE Backfill
    <3>1. file'.generation = s.generation /\ file'.population = s.population
      BY <2>6 DEF Backfill, Saved
    <3>2. \A r \in Runners : gen[r] = s.generation =>
            \A g \in held[r] : \E i \in Rows : g = s.population[i]
      BY DEF LabelTellsPopulation, Population
    <3>3. QED
      BY <2>1, <2>3, <3>1, <3>2 DEF LabelTellsFile
  <2>7. QED
    BY <1>6, <2>4, <2>5, <2>6
<1>7. CASE Restart /\ serving' = NoRunner /\ UNCHANGED <<mode, held, gen>>
  <2>1. file' = file /\ held' = held /\ gen' = gen
    BY <1>7 DEF Restart
  <2>2. LabelTellsFile'
    BY <2>1, LabelsKept
  <2>3. CASE file = NoFile
    <3>1. handed = {}
      BY <2>3 DEF Inv, NothingHandedYet
    <3>2. \A r \in Runners : held[r] = {}
      BY <3>1 DEF HeldDelivered, Batches
    <3>3. QED
      BY <2>1, <2>2, <3>2 DEF LabelTellsPopulation
  <2>4. CASE file \notin {NoFile, Torn} /\ s' = Recovered(file)
    <3>1. /\ file \in Snapshot /\ IdsBelow(file.population, file.uids)
          /\ Covers(file.population, file.uids)
      BY <2>4, InvTypes DEF Inv, FileSound
    <3>2. SameGeneration(s', file)
      BY <2>4, <3>1, RecoveredSound
    <3>3. QED
      BY <2>1, <2>2, <2>4, <3>2 DEF LabelTellsFile, LabelTellsPopulation, Population,
         SameGeneration
  <2>5. CASE s' = s
    BY <1>2, <2>1, <2>2, <2>5, LabelsKept
  <2>6. QED
    BY <1>7, <2>3, <2>4, <2>5 DEF Restart
<1>8. CASE UNCHANGED <<vars, runnerVars>>
  BY <1>2, <1>8, LabelsKept DEF vars, runnerVars
<1>9. QED
  BY <1>3, <1>4, <1>5, <1>6, <1>7, <1>8, FleetCases

LEMMA StepReportRecorded ==
  ASSUME Inv, HeldDelivered, ReportRecorded, [FleetNext]_fleetVars
  PROVE  ReportRecorded'
<1>1. /\ seen \in Nat /\ s.generation \in Nat /\ seen <= s.generation
      /\ \A r \in Runners : gen[r] \in Nat /\ gen[r] <= seen
  BY InvTypes DEF Inv, HeldDelivered
<1>2. NoRunner \notin Runners
  BY FleetAssumption
<1>3. ASSUME serving' = NoRunner \/ reply' = NoReply
      PROVE  ReportRecorded'
  BY <1>2, <1>3 DEF ReportRecorded
<1>4. ASSUME NEW r \in Runners, NEW capacity \in 1 .. MaxCapacity, Ask(r, capacity)
      PROVE  ReportRecorded'
  <2>1. /\ held[r] \in Batches /\ OnOutcomes(held[r], capacity)
        /\ UNCHANGED <<held, gen>> /\ serving' = r
    BY <1>4 DEF HeldDelivered, Ask
  <2>2. \/ reply' = NoReply
        \/ /\ SameGeneration(s', s)
           /\ \A i \in Rows : s.population[i] \in held[r] =>
                s'.results[i] = s.population[i].fit
        \/ s'.generation = s.generation + 1
    BY <2>1, FleetAssumption, OutcomesCases
  <2>3. ASSUME s'.generation = s.generation + 1
        PROVE  ReportRecorded'
    BY <1>1, <2>1, <2>3 DEF ReportRecorded
  <2>4. ASSUME SameGeneration(s', s),
               \A i \in Rows : s.population[i] \in held[r] =>
                 s'.results[i] = s.population[i].fit
        PROVE  ReportRecorded'
    BY <2>1, <2>4 DEF ReportRecorded, SameGeneration
  <2>5. QED
    BY <1>3, <2>2, <2>3, <2>4
<1>5. ASSUME NEW r \in Runners, Apart(r)
      PROVE  ReportRecorded'
  <2>1. s' = s /\ reply' = reply /\ gen' = gen
    BY <1>5 DEF Apart, vars
  <2>2. \A q \in Runners : held'[q] \subseteq held[q]
    BY <1>5 DEF Apart, HeldDelivered
  <2>3. serving' = serving \/ serving' = NoRunner
    BY <1>5 DEF Apart
  <2>4. QED
    BY <1>2, <2>1, <2>2, <2>3 DEF ReportRecorded
<1>6. CASE (Deliver \/ Truncate \/ Backfill \/ Tick) /\ UNCHANGED runnerVars
  <2>1. UNCHANGED <<serving, gen, held>>
    BY <1>6 DEF runnerVars
  <2>2. CASE Deliver
    BY <1>3, <2>2 DEF Deliver
  <2>3. CASE Truncate \/ Backfill
    BY <2>1, <2>3 DEF Truncate, Backfill, ReportRecorded
  <2>4. CASE Tick
    <3>1. /\ s'.generation = s.generation /\ s'.population = s.population
          /\ s'.results = s.results /\ reply' = reply
      BY <2>4, InvTypes DEF Tick, AppState
    <3>2. QED
      BY <2>1, <3>1 DEF ReportRecorded
  <2>5. QED
    BY <1>6, <2>2, <2>3, <2>4
<1>7. CASE UNCHANGED <<vars, runnerVars>>
  BY <1>7 DEF vars, runnerVars, ReportRecorded
<1>8. QED
  BY <1>3, <1>4, <1>5, <1>6, <1>7, FleetCases DEF Receive

LEMMA FleetInitInv == FleetInit => FleetInv
<1> SUFFICES ASSUME FleetInit PROVE FleetInv
  OBVIOUS
<1>1. Inv
  BY InitInv DEF FleetInit
<1>2. {} \in Batches
  BY FS_EmptySet, FleetAssumption DEF Batches
<1>3. HeldDelivered
  BY <1>2 DEF FleetInit, Init, HeldDelivered, Modes
<1>4. ReplyFits /\ LabelTellsFile /\ LabelTellsPopulation /\ ReportRecorded
  BY FleetAssumption DEF FleetInit, Init, ReplyFits, LabelTellsFile, LabelTellsPopulation,
     ReportRecorded
<1>5. QED
  BY <1>1, <1>3, <1>4 DEF FleetInv

LEMMA FleetStepInv == FleetInv /\ [FleetNext]_fleetVars => FleetInv'
<1> SUFFICES ASSUME FleetInv, [FleetNext]_fleetVars PROVE FleetInv'
  OBVIOUS
<1> USE DEF FleetInv
<1>1. Inv'
  BY FleetStepIsTrainerStep, StepInv
<1>2. HeldDelivered' /\ ReplyFits'
  BY StepHeldDelivered, StepReplyFits
<1>3. LabelTellsPopulation' /\ LabelTellsFile' /\ ReportRecorded'
  BY StepLabels, StepReportRecorded
<1>4. QED
  BY <1>1, <1>2, <1>3

\* The invariant on which the theorems below rest.
THEOREM FleetInvariance == FleetSpec => []FleetInv
<1>1. QED
  BY FleetInitInv, FleetStepInv, PTL DEF FleetSpec

-----------------------------------------------------------------------------
(* Theorems *)

\* The trainer of a fleet behaves as Trainer allows: requests of runners name
\* only genomes that the trainer remembers as handed out, and not too many.
THEOREM FleetImplementsTrainer == FleetSpec => ImplementsTrainer
<1>1. FleetInit => Init
  BY DEF FleetInit
<1>2. FleetInv /\ [FleetNext]_fleetVars => [Next]_vars
  BY FleetStepIsTrainerStep DEF FleetInv
<1>3. QED
  BY <1>1, <1>2, FleetInvariance, PTL DEF FleetSpec, Spec, ImplementsTrainer

\* A response is a receipt: the outcomes that a runner forgets when it reads
\* one are in the results table, unless they are of an earlier generation.
THEOREM ReportsAreRecorded == FleetSpec => []ReportRecorded
<1>1. FleetInv => ReportRecorded
  BY DEF FleetInv
<1>2. QED
  BY <1>1, FleetInvariance, PTL

\* "unknown genome id" only comes with "unexpected generation", although a
\* killed trainer may breed a generation of the same number once more.
THEOREM LabelsTellPopulation == FleetSpec => []LabelTellsPopulation
<1>1. FleetInv => LabelTellsPopulation
  BY DEF FleetInv
<1>2. QED
  BY <1>1, FleetInvariance, PTL

\* What is proved of Trainer holds of the trainer that a fleet works for.
THEOREM FleetKeepsTrainer ==
  FleetSpec => [](IdsNameGenomes /\ RatingsBelong /\ NoVisibleRollback) /\ BestSurvive
<1>1. QED
  BY FleetImplementsTrainer, IdsAreForGood, RowsHoldOwnRatings, GenerationsAdvance,
     TheBestSurvive, PTL DEF ImplementsTrainer

=============================================================================
