------------------------------ MODULE Trainer ------------------------------
(***************************************************************************)
(* The core of the trainer: what app_state holds, what the handler of an   *)
(* outcomes request does to it (trainer_app_server_outcomes.cpp), how it   *)
(* reaches training.dat, and what a restart makes of that file             *)
(* (trainer_app_init.cpp).                                                 *)
(*                                                                         *)
(* Handlers run one at a time on the looper thread.  The file is written   *)
(* by a thread of its own that the handler joins before it returns, and    *)
(* the response leaves after the handler has returned: opening the file,   *)
(* completing it and delivering the response are separate steps, and the   *)
(* process may be killed between any two of them.                          *)
(*                                                                         *)
(* A genome is abstracted to its id and to the ratings its simulation      *)
(* yields, one for each case, which are fixed by its weights.  A runner    *)
(* reports the genomes it was given, late, again, or never: a request is   *)
(* any small set of genomes that some response has delivered.              *)
(***************************************************************************)
EXTENDS Integers, FiniteSets, FiniteSetsExt

CONSTANTS
  population_size,
  elite_count,
  Cases,          \* the ids of the landing cases
  Ratings,        \* the numbers a rating may be: lower is better
  NaN,            \* quiet_NaN: no rating yet, or a rating of 0/0
  Timeout,        \* results_timeout, in ticks of the abstract clock
  Never,          \* time_point::max(): the row is ready
  NoFile, Torn,   \* training.dat missing, or opened and not completed
  NoReply,
  MaxCapacity,    \* bound on the capacity a request asks for
  MaxBatch,       \* bound on the genomes one request reports
  MaxGeneration   \* bound on the generations of a behaviour

Rows == 0 .. population_size - 1
EliteRows == 0 .. elite_count - 1
ChildRows == elite_count .. population_size - 1

Genome == [id : Nat, fit : [Cases -> Ratings \cup {NaN}]]
Unrated == [k \in Cases |-> NaN]

\* What training.dat holds, and what a response does.
Snapshot == [generation : Nat, population : [Rows -> Genome], uids : Nat]
Replies == [generation : Nat, data : SUBSET Genome]

ASSUME TrainerAssumption ==
  /\ population_size \in Nat \ {0}
  /\ elite_count \in 0 .. population_size
  /\ IsFiniteSet(Cases) /\ Cases # {}
  /\ Ratings \subseteq Nat
  /\ NaN \notin Ratings
  /\ Timeout \in Nat \ {0}
  /\ Never \notin Nat
  /\ {NoFile, Torn} \cap Snapshot = {} /\ NoFile # Torn
  /\ NoReply \notin Replies

VARIABLES
  status,  \* "up", "fault" (null crossover dereferenced), "refused" (exit -3)
  s,       \* app_state: the record below
  saver,   \* persist_state: "none", "opening" or "writing"
  file,    \* training.dat
  reply,   \* the response of the handler under way
  handed,  \* history: the genomes delivered to runners so far
  seen     \* history: the highest generation delivered to a runner

vars == <<status, s, saver, file, reply, handed, seen>>

\* timeouts[i] is kept as the age now - timeouts[i], which matters only up
\* to Timeout.
AppState ==
  [generation : Nat,
   population : [Rows -> Genome],
   uids       : Nat,
   index      : Rows,
   timeouts   : [Rows -> 0 .. Timeout \cup {Never}],
   results    : [Rows -> [Cases -> Ratings \cup {NaN}]]]

-----------------------------------------------------------------------------
(* Operations on app_state *)

\* Mutant of GenerationChanged: the results table keeps its cells.
GenerationChanged_KeepsResults(a) ==
  [a EXCEPT !.index = 0, !.timeouts = [i \in Rows |-> Timeout]]

\* Mutant of GenerationChanged: the timeouts of the last generation stay.
GenerationChanged_KeepsTimeouts(a) ==
  [a EXCEPT !.index = 0, !.results = [i \in Rows |-> Unrated]]

\* app::on_generation_changed.  The indices map an id to its row; ids are
\* distinct, so that "the row whose genome has that id" stands for them.
GenerationChanged(a) ==
  [a EXCEPT !.index = 0,
            !.timeouts = [i \in Rows |-> Timeout],
            !.results = [i \in Rows |-> Unrated]]

\* The outcomes of a batch that name the genome of row i.
Reported(a, i, batch) == {g \in batch : g.id = a.population[i].id}

\* Mutant of Recorded: a report is taken for a sign of life only.
Recorded_NoRatings(a, batch) ==
  [a EXCEPT !.timeouts = [i \in Rows |->
     IF Reported(a, i, batch) = {} THEN a.timeouts[i] ELSE 0]]

\* Outcomes of unknown genomes are skipped; the generation is not looked at.
Recorded(a, batch) ==
  [a EXCEPT
     !.results = [i \in Rows |->
        IF Reported(a, i, batch) = {} THEN a.results[i]
        ELSE (CHOOSE g \in Reported(a, i, batch) : TRUE).fit],
     !.timeouts = [i \in Rows |->
        IF Reported(a, i, batch) = {} THEN a.timeouts[i] ELSE 0]]

Complete(row) == \A k \in Cases : row[k] # NaN

MarkedReady(a) ==
  [a EXCEPT !.timeouts = [i \in Rows |->
     IF Complete(a.results[i]) THEN Never ELSE a.timeouts[i]]]

AllReady(a) == \A i \in Rows : Complete(a.results[i])

\* The mean over the cases, times their number.
Score(row) == MapThenSumSet(LAMBDA k : row[k], Cases)

\* Mutant of Sorted: the comparison of the sort is reversed.
Sorted_Descending(a) ==
  {inds \in [Rows -> Rows] :
     /\ \A i, j \in Rows : i # j => inds[i] # inds[j]
     /\ \A i, j \in Rows : i < j =>
          Score(a.results[inds[i]]) >= Score(a.results[inds[j]])}

\* sort() is not stable: any order that agrees with the scores.
Sorted(a) ==
  {inds \in [Rows -> Rows] :
     /\ \A i, j \in Rows : i # j => inds[i] # inds[j]
     /\ \A i, j \in Rows : i < j =>
          Score(a.results[inds[i]]) <= Score(a.results[inds[j]])}

\* What crossover and mutation make is any genome; its uid is a new one, and
\* par_unseq leaves open which child draws which.
Children(a) ==
  {kids \in [ChildRows ->
               [id : a.uids + 1 .. a.uids + population_size - elite_count,
                fit : [Cases -> Ratings \cup {NaN}]]] :
     \A i, j \in ChildRows : i # j => kids[i].id # kids[j].id}

\* next_generation: the elite is moved over, the other rows are bred.
Bred(a, inds, kids) ==
  [a EXCEPT
     !.population = [i \in Rows |->
        IF i \in EliteRows THEN a.population[inds[i]] ELSE kids[i]],
     !.uids = a.uids + population_size - elite_count,
     !.generation = a.generation + 1]

NextGenerations(a) ==
  {Bred(a, inds, kids) : inds \in Sorted(a), kids \in Children(a)}

\* The loop that fills a response visits row after row from s.index on, until
\* it has seen every row once or has filled the capacity.
RowAt(a, n) == (a.index + n) % population_size
Expired(a, i) == a.timeouts[i] = Timeout
PickedBefore(a, n) == Cardinality({m \in 0 .. n - 1 : Expired(a, RowAt(a, m))})
Visits(a, capacity) == {n \in Rows : PickedBefore(a, n) < capacity}
Picked(a, capacity) ==
  {i \in {RowAt(a, n) : n \in Visits(a, capacity)} : Expired(a, i)}

\* Mutant of HandedOut: the cursor does not wrap around.
HandedOut_NoWrap(a, capacity) ==
  [a EXCEPT
     !.timeouts = [i \in Rows |->
        IF i \in Picked(a, capacity) THEN 0 ELSE a.timeouts[i]],
     !.index = a.index + Cardinality(Visits(a, capacity))]

\* Mutant of HandedOut: what has been handed out is not handed out again.
HandedOut_ForGood(a, capacity) ==
  [a EXCEPT
     !.timeouts = [i \in Rows |->
        IF i \in Picked(a, capacity) THEN Never ELSE a.timeouts[i]],
     !.index = RowAt(a, Cardinality(Visits(a, capacity)))]

HandedOut(a, capacity) ==
  [a EXCEPT
     !.timeouts = [i \in Rows |->
        IF i \in Picked(a, capacity) THEN 0 ELSE a.timeouts[i]],
     !.index = RowAt(a, Cardinality(Visits(a, capacity)))]

Response(a, capacity) ==
  [generation |-> a.generation,
   data |-> {a.population[i] : i \in Picked(a, capacity)}]

\* app_state::write and app_state::read: the fields that reach the file.
Saved(a) == [generation |-> a.generation, population |-> a.population,
             uids |-> a.uids]

\* Mutant of Recovered: the uid source starts over.
Recovered_NewUids(f) ==
  GenerationChanged(
    [generation |-> f.generation, population |-> f.population,
     uids |-> 0, index |-> 0,
     timeouts |-> [i \in Rows |-> Timeout],
     results |-> [i \in Rows |-> Unrated]])

Recovered(f) ==
  GenerationChanged(
    [generation |-> f.generation, population |-> f.population,
     uids |-> f.uids, index |-> 0,
     timeouts |-> [i \in Rows |-> Timeout],
     results |-> [i \in Rows |-> Unrated]])

\* do_init_from_scratch: population and cases draw from the same uid source
\* at the same time, the population in the order of its rows.
FreshUids == population_size + Cardinality(Cases)
FreshStates ==
  {GenerationChanged(
     [generation |-> 0, population |-> p, uids |-> FreshUids, index |-> 0,
      timeouts |-> [i \in Rows |-> Timeout],
      results |-> [i \in Rows |-> Unrated]]) :
    p \in {q \in [Rows -> [id : 1 .. FreshUids,
                           fit : [Cases -> Ratings \cup {NaN}]]] :
             \A i, j \in Rows : i < j => q[i].id < q[j].id}}

-----------------------------------------------------------------------------
(* Steps *)

\* A new session: handlers wait in app::state() until the file is written.
Init ==
  /\ status = "up"
  /\ s \in FreshStates
  /\ saver = "opening"
  /\ file = NoFile
  /\ reply = NoReply
  /\ handed = {}
  /\ seen = 0

Answer(a, capacity) ==
  /\ s' = HandedOut(a, capacity)
  /\ reply' = Response(a, capacity)

\* on_outcomes_request.
OnOutcomes(batch, capacity) ==
  LET a == MarkedReady(Recorded(s, batch)) IN
  /\ status = "up" /\ saver = "none" /\ reply = NoReply
  /\ \/ /\ ~AllReady(a)
        /\ Answer(a, capacity)
        /\ UNCHANGED <<status, saver>>
     \/ /\ AllReady(a)
        /\ elite_count < population_size
        /\ a.generation < MaxGeneration
        /\ \E b \in NextGenerations(a) : Answer(GenerationChanged(b), capacity)
        /\ saver' = "opening"
        /\ UNCHANGED status
     \/ \* No crossover was set up: state.pxvr is null.
        /\ AllReady(a)
        /\ elite_count = population_size
        /\ status' = "fault"
        /\ s' = a
        /\ UNCHANGED <<saver, reply>>
  /\ UNCHANGED <<file, handed, seen>>

\* persist_state opens the file with trunc ...
Truncate ==
  /\ status = "up" /\ saver = "opening"
  /\ saver' = "writing"
  /\ file' = Torn
  /\ UNCHANGED <<status, s, reply, handed, seen>>

\* ... and completes it by writing the checksum.
Backfill ==
  /\ status = "up" /\ saver = "writing"
  /\ saver' = "none"
  /\ file' = Saved(s)
  /\ UNCHANGED <<status, s, reply, handed, seen>>

\* Mutant of Deliver: the handler does not join the thread that persists.
Deliver_NoJoin ==
  /\ status = "up" /\ reply # NoReply
  /\ handed' = handed \cup reply.data
  /\ seen' = IF reply.generation > seen THEN reply.generation ELSE seen
  /\ reply' = NoReply
  /\ UNCHANGED <<status, s, saver, file>>

\* The handler has joined the writer and returned; the response is sent.
Deliver ==
  /\ status = "up" /\ saver = "none" /\ reply # NoReply
  /\ handed' = handed \cup reply.data
  /\ seen' = IF reply.generation > seen THEN reply.generation ELSE seen
  /\ reply' = NoReply
  /\ UNCHANGED <<status, s, saver, file>>

Tick ==
  /\ status = "up"
  /\ \E i \in Rows : s.timeouts[i] \in 0 .. Timeout - 1
  /\ s' = [s EXCEPT !.timeouts = [i \in Rows |->
             IF s.timeouts[i] \in 0 .. Timeout - 1
               THEN s.timeouts[i] + 1 ELSE s.timeouts[i]]]
  /\ UNCHANGED <<status, saver, file, reply, handed, seen>>

\* The process is killed, or has died, and is started again: do_init.
Restart ==
  /\ status \in {"up", "fault"}
  /\ reply' = NoReply
  /\ \/ /\ file = NoFile
        /\ s' \in FreshStates
        /\ saver' = "opening"
        /\ status' = "up"
     \/ \* A complete file, and the crossover it names can be set up.
        /\ file \notin {NoFile, Torn}
        /\ elite_count < population_size
        /\ s' = Recovered(file)
        /\ saver' = "none"
        /\ status' = "up"
     \/ \* "training.dat is corrupted", or "unrecognized crossover".
        /\ file # NoFile
        /\ file = Torn \/ elite_count = population_size
        /\ status' = "refused"
        /\ saver' = "none"
        /\ UNCHANGED s
  /\ UNCHANGED <<file, handed, seen>>

Batches == {b \in SUBSET handed : Cardinality(b) <= MaxBatch}

Next ==
  \/ \E batch \in Batches, capacity \in 0 .. MaxCapacity :
       OnOutcomes(batch, capacity)
  \/ Truncate \/ Backfill \/ Deliver
  \/ Tick
  \/ Restart

Spec == Init /\ [][Next]_vars

-----------------------------------------------------------------------------
(* Properties *)

TypeOK ==
  /\ status \in {"up", "fault", "refused"}
  /\ s \in AppState
  /\ saver \in {"none", "opening", "writing"}
  /\ file \in Snapshot \cup {NoFile, Torn}
  /\ reply \in Replies \cup {NoReply}
  /\ handed \in SUBSET Genome
  /\ seen \in Nat

Population == {s.population[i] : i \in Rows}

\* An id names one genome for good, through generations, late reports, and
\* restarts that redo a generation whose file was never completed: what a
\* runner reports for an id is about the genome that has this id now.
IdsNameGenomes ==
  /\ \A g, h \in handed \cup Population : g.id = h.id => g = h
  /\ \A i, j \in Rows : i # j => s.population[i].id # s.population[j].id

\* A row of the results table is empty or holds the ratings of the genome
\* that has this row now, however late or often runners report.
RatingsBelong ==
  \A i \in Rows : s.results[i] \in {Unrated, s.population[i].fit}

\* A row is taken out of circulation exactly when it is complete: a ready
\* genome is never handed out again and no unfinished one is forgotten.
ReadyIffComplete ==
  status = "up" =>
    \A i \in Rows : s.timeouts[i] = Never <=> Complete(s.results[i])

\* Whenever the trainer can take a request, the file holds the generation it
\* works on, and so it does when a response leaves.
DiskIsCurrent ==
  status = "up" /\ saver = "none" => file = Saved(s)

\* A runner never sees the generation number go back, whatever crashes.
NoVisibleRollback ==
  status = "up" => seen <= s.generation

\* What a step to the next generation may do to the population.
Survival ==
  s'.generation = s.generation + 1 =>
    /\ \A g \in Population : Complete(g.fit)
    /\ LET kept == Population \cap Population' IN
       /\ Cardinality(kept) = elite_count
       /\ \A g \in kept, h \in Population \ kept : Score(g.fit) <= Score(h.fit)

\* A generation is complete only when every genome is rated for every case,
\* and then the best survive with their ids: none that is dropped had a
\* better score than one that is kept.
BestSurvive == [][Survival]_vars

\* The trainer accepts elite_count = population_size and says that it skips
\* the crossover then (trainer_app_init.cpp:234): it does not fail on it.
CrossoverIsSkipped == status # "fault"

=============================================================================
